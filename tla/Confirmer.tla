----------------------------- MODULE Confirmer -----------------------------
(***************************************************************************)
(* The confirmer of comin (internal/manager/confirmer.go), one for builds  *)
(* and one for deployments: a goroutine that receives commands over an     *)
(* unbuffered channel, runs a timer in the mode Auto, and hands each       *)
(* confirmed generation over to the manager on the unbuffered channel      *)
(* confirmed.  While it waits for the manager there it receives nothing    *)
(* else.                                                                   *)
(***************************************************************************)

CONSTANTS
    Uuids,   \* the generations
    None     \* the empty string

ASSUME UuidsAssumption == None \notin Uuids

Modes == {"Manual", "Auto", "Without"}

VARIABLES
    mode, Submitted, Confirmed, AutoconfirmStarted,  \* c.state
    timer,      \* the generation for which c.timer was started, None when it does
                \* not run and has no tick to be received
    notified,
    loop,       \* "select", or "deliver" while it sends on c.confirmed
    \* History
    latest,     \* the generation of the last Submit
    granted,    \* generations confirmed by the user, until delivered or cancelled
    cancelled   \* a Cancel came after the last Submit

state == <<Submitted, Confirmed, notified, loop>>
history == <<latest, granted, cancelled>>
vars == <<mode, state, AutoconfirmStarted, timer, history>>

\* The types of the confirmer's state, of its timer and of the history.
TypeOK ==
    /\ mode \in Modes
    /\ Submitted \in Uuids \union {None}
    /\ Confirmed \in Uuids \union {None}
    /\ AutoconfirmStarted \in BOOLEAN
    /\ timer \in Uuids \union {None}
    /\ notified \in BOOLEAN
    /\ loop \in {"select", "deliver"}
    /\ latest \in Uuids \union {None}
    /\ granted \in SUBSET Uuids
    /\ cancelled \in BOOLEAN

Init ==
    /\ mode \in Modes
    /\ Submitted = None /\ Confirmed = None
    /\ AutoconfirmStarted = FALSE /\ timer = None
    /\ notified = FALSE /\ loop = "select"
    /\ latest = None /\ granted = {} /\ cancelled = FALSE

-----------------------------------------------------------------------------
\* The end of each turn of the loop: is the submitted generation confirmed?
Settle(submitted, confirmed, told) ==
    LET due == ~told /\ submitted # None /\ confirmed = submitted
    IN  /\ Submitted' = submitted
        /\ Confirmed' = confirmed
        /\ notified' = (told \/ due)
        /\ loop' = IF due THEN "deliver" ELSE "select"

\* Mutant of Submit: a generation that is waiting is not replaced.
SubmitFirst(u) ==
    /\ loop = "select"
    /\ Settle(IF Submitted = None THEN u ELSE Submitted,
              IF mode = "Without" THEN u ELSE Confirmed, FALSE)
    /\ AutoconfirmStarted' = (AutoconfirmStarted \/ mode = "Auto")
    /\ timer' = IF mode = "Auto" THEN u ELSE timer
    /\ latest' = u /\ cancelled' = FALSE
    /\ UNCHANGED <<mode, granted>>

\* Mutant of Submit: a running timer is not started again.
SubmitKeepsTimer(u) ==
    /\ loop = "select"
    /\ Settle(u, IF mode = "Without" THEN u ELSE Confirmed, FALSE)
    /\ AutoconfirmStarted' = (AutoconfirmStarted \/ mode = "Auto")
    /\ timer' = IF mode = "Auto" /\ timer = None THEN u ELSE timer
    /\ latest' = u /\ cancelled' = FALSE
    /\ UNCHANGED <<mode, granted>>

\* The command "submit", from the manager.
Submit(u) ==
    /\ loop = "select"
    /\ Settle(u, IF mode = "Without" THEN u ELSE Confirmed, FALSE)
    /\ AutoconfirmStarted' = (AutoconfirmStarted \/ mode = "Auto")
    /\ timer' = IF mode = "Auto" THEN u ELSE timer
    /\ latest' = u /\ cancelled' = FALSE
    /\ UNCHANGED <<mode, granted>>

\* The command "confirm", from the user.
Confirm(u) ==
    /\ loop = "select"
    /\ Settle(Submitted, u, notified)
    /\ granted' = granted \union {u}
    /\ UNCHANGED <<mode, AutoconfirmStarted, timer, latest, cancelled>>

\* Mutant of Cancel: the timer keeps running.
CancelKeepsTimer ==
    /\ loop = "select"
    /\ Settle(Submitted, None, notified)
    /\ AutoconfirmStarted' = FALSE
    /\ granted' = {} /\ cancelled' = TRUE
    /\ UNCHANGED <<mode, timer, latest>>

\* The command "cancel".  A stopped timer delivers no tick any more.
Cancel ==
    /\ loop = "select"
    /\ Settle(Submitted, None, notified)
    /\ AutoconfirmStarted' = FALSE
    /\ timer' = None
    /\ granted' = {} /\ cancelled' = TRUE
    /\ UNCHANGED <<mode, latest>>

\* Mutant of Tick: the tick only clears the timer.
TickForgets ==
    /\ loop = "select" /\ timer # None
    /\ Settle(Submitted, Confirmed, notified)
    /\ AutoconfirmStarted' = FALSE
    /\ timer' = None
    /\ UNCHANGED <<mode, history>>

\* The timer expires and the loop receives its tick.
Tick ==
    /\ loop = "select" /\ timer # None
    /\ Settle(Submitted, Submitted, notified)
    /\ AutoconfirmStarted' = FALSE
    /\ timer' = None
    /\ UNCHANGED <<mode, history>>

\* Mutant of Deliver: the confirmation is not cleared.
DeliverKeepsConfirmed ==
    /\ loop = "deliver"
    /\ loop' = "select"
    /\ Submitted' = None
    /\ AutoconfirmStarted' = FALSE
    /\ granted' = granted \ {Confirmed}
    /\ UNCHANGED <<mode, timer, notified, Confirmed, latest, cancelled>>

\* Mutant of Deliver: the submission is not cleared.
DeliverKeepsSubmitted ==
    /\ loop = "deliver"
    /\ loop' = "select"
    /\ Confirmed' = None
    /\ AutoconfirmStarted' = FALSE
    /\ granted' = granted \ {Confirmed}
    /\ UNCHANGED <<mode, timer, notified, Submitted, latest, cancelled>>

\* The manager receives from c.confirmed, and the state is cleared.
Deliver ==
    /\ loop = "deliver"
    /\ loop' = "select"
    /\ Submitted' = None /\ Confirmed' = None
    /\ AutoconfirmStarted' = FALSE
    /\ granted' = granted \ {Confirmed}
    /\ UNCHANGED <<mode, timer, notified, latest, cancelled>>

Next ==
    \/ \E u \in Uuids : Submit(u) \/ Confirm(u)
    \/ Cancel
    \/ Tick
    \/ Deliver

Spec == Init /\ [][Next]_vars

\* A running timer expires, and the loop receives its tick even if commands keep
\* coming: the select of Go is random.
FairSpec == Spec /\ SF_vars(Tick)

-----------------------------------------------------------------------------
(* Properties.                                                             *)

\* Only the generation submitted last is delivered: a confirmation or a tick meant
\* for a generation that has been replaced never lets another one through.
DeliversLatest == loop = "deliver" => Confirmed = latest

\* In the mode Manual nothing is delivered that the user did not confirm by its
\* uuid, and one confirmation is good for one delivery: it is used up by the
\* delivery and revoked by Cancel, even when it came before Submit.
ManualNeedsUser == loop = "deliver" /\ mode = "Manual" => Confirmed \in granted

\* After a Cancel the generation is only delivered when the user confirms it: the
\* timer that ran for it, or for a previous one, does not.
CancelIsFinal == loop = "deliver" /\ cancelled => Confirmed \in granted

\* In the mode Auto a waiting generation always has its own timer running, unless it
\* was cancelled: the time that a replaced generation has already waited does not
\* count for it.  And the status announces no confirmation that will not come.
AutoHasTimer ==
    /\ mode = "Auto" /\ loop = "select" /\ Submitted # None /\ ~cancelled =>
        timer = Submitted
    /\ AutoconfirmStarted => timer # None

\* In the modes Auto and Without a submitted generation is confirmed in the end, and
\* the loop offers it to the manager, unless another one replaces it or it is
\* cancelled.
AutoConfirms ==
    \A u \in Uuids :
        Submitted = u /\ mode # "Manual" ~> loop = "deliver" \/ Submitted # u \/ cancelled

Place == INSTANCE Slot WITH waiting <- Submitted, offered <- (loop = "deliver")

\* Modes, timers and confirmations given too early or too late left aside, the
\* confirmer is a place for one generation: the last submission replaces the one that
\* waits, what is granted is not replaced any more, and it is given away once.  The
\* module Manager relies on it.
ImplementsSlot == Place!Spec

=============================================================================
