--------------------------- MODULE FetcherProofs ---------------------------
(***************************************************************************)
(* Proofs about Fetcher, for every number of remotes, every history of     *)
(* commits, every set of keys and all capacities of the two channels.      *)
(*                                                                         *)
(* An event is a copy of a status that the worker has replaced when the    *)
(* manager reads it.  The inductive invariant therefore speaks of every    *)
(* event under way: it was verified with its own status, the main commits  *)
(* advance along the line of the manager's subscription, publishCh and the *)
(* event to be published, and no update follows the last one reported.     *)
(***************************************************************************)
EXTENDS Fetcher, RepositoryProofs, SequenceTheorems

\* The types of the fetcher's, the broker's and the manager's variables.
FetcherTypeOK ==
    /\ remotes \in SUBSET Remotes
    /\ isFetching \in BOOLEAN
    /\ repositoryStatus \in Status
    /\ publishing \in Seq(FetchedEvents) /\ Len(publishing) <= 1
    /\ publishCh \in Seq(Events) /\ Len(publishCh) <= PublishCapacity
    /\ brokerEvents \in Seq(Events) /\ Len(brokerEvents) <= SubscriberCapacity
    /\ evaluated \in Status
    /\ managerLoop \in {"select", "eval"}
    /\ dropped \in BOOLEAN

\* SelectedOnTopOfMain of any status.
OnTopOfMain(s) ==
    s.selected # None =>
        /\ s.main # None => Behind(s.main, s.selected)
        /\ s.branch[2] = "main" => s.selected = s.main

\* What the fetcher decided about an event agrees with the status in it, and the selection
\* in it is consistent.
Reported(e) ==
    e # Other => /\ e.verified = Verified(e.status)
                 /\ e.status.signed => e.status.selected \in Signed
                 /\ OnTopOfMain(e.status)

AllReported(s) == \A i \in DOMAIN s : Reported(s[i])
EventsAreReported ==
    AllReported(publishing) /\ AllReported(publishCh) /\ AllReported(brokerEvents)

\* So it is for what the manager has taken from its events.
EvaluatedIsReported == EvaluatesSigned /\ OnTopOfMain(evaluated)

\* A main commit c may be followed by d: d is at or on top of it, if there is a c.
Precedes(c, d) == c # None => d # None /\ Behind(c, d)

\* The events of s come before the main commit d, those of t after c.
AllBefore(s, d) == \A i \in DOMAIN s : s[i] # Other => Precedes(s[i].status.main, d)
AllAfter(c, t) == \A i \in DOMAIN t : t[i] # Other => Precedes(c, t[i].status.main)

\* The main commits advance from s to t, and along s.
Ordered(s, t) == \A i \in DOMAIN s : s[i] # Other => AllAfter(s[i].status.main, t)
InOrder(s) ==
    \A i, j \in DOMAIN s : i < j /\ s[i] # Other /\ s[j] # Other =>
        Precedes(s[i].status.main, s[j].status.main)

\* The main commits advance from the manager over its subscription and publishCh to
\* the repository.
MainAdvancesAlong ==
    /\ Precedes(evaluated.main, status.main)
    /\ AllAfter(evaluated.main, brokerEvents) /\ AllBefore(brokerEvents, status.main)
    /\ AllAfter(evaluated.main, publishCh) /\ AllBefore(publishCh, status.main)
    /\ AllAfter(evaluated.main, publishing) /\ AllBefore(publishing, status.main)
    /\ InOrder(brokerEvents) /\ InOrder(publishCh)
    /\ Ordered(brokerEvents, publishCh)
    /\ Ordered(brokerEvents, publishing)
    /\ Ordered(publishCh, publishing)

\* The main commit of the last deployment is behind those of the events, and behind
\* that of the generation that may be deployed next.
DeployedIsBehind ==
    /\ AllAfter(deployed, brokerEvents) /\ AllAfter(deployed, publishCh)
    /\ AllAfter(deployed, publishing)
    /\ evaluated.selected # None => Precedes(deployed, evaluated.main)

\* No event of s that follows position k will be evaluated.
NoneAfter(s, k) == \A i \in DOMAIN s : i > k => ~ToEvaluate(s[i])

\* Position k of s holds the last event that will be evaluated, the last update.
LastAt(s, k) == /\ k \in DOMAIN s
                /\ ToEvaluate(s[k]) /\ s[k].status = repositoryStatus
                /\ NoneAfter(s, k)

\* The last update is verified and the manager will evaluate or has evaluated it, and
\* nothing after it.
LastUpdateIsLast ==
    ~dropped /\ repositoryStatus.selected # None /\ Verified(repositoryStatus) =>
        \/ \E k \in DOMAIN publishing : LastAt(publishing, k)
        \/ /\ NoneAfter(publishing, 0)
           /\ \E k \in DOMAIN publishCh : LastAt(publishCh, k)
        \/ /\ NoneAfter(publishing, 0) /\ NoneAfter(publishCh, 0)
           /\ \E k \in DOMAIN brokerEvents : LastAt(brokerEvents, k)
        \/ /\ NoneAfter(publishing, 0) /\ NoneAfter(publishCh, 0) /\ NoneAfter(brokerEvents, 0)
           /\ evaluated = repositoryStatus

FetcherInv ==
    /\ Inv
    /\ FetcherTypeOK
    /\ OneWorker
    /\ RequestIsAwaited
    /\ EventsAreReported
    /\ EvaluatedIsReported
    /\ MainAdvancesAlong
    /\ DeployedIsBehind
    /\ LastUpdateIsLast

USE DEF CommitId

-----------------------------------------------------------------------------
(* The order of main commits, and what a queue operation does to it.       *)

\* The order of main commits is transitive, also where there is no commit yet.
LEMMA PrecedesTransitive ==
    ASSUME NEW c \in CommitId, NEW d \in CommitId, NEW e \in CommitId,
           Precedes(c, d), Precedes(d, e)
    PROVE  Precedes(c, e)
BY BehindTransitive, NoneAssumption DEF Precedes

\* No step of the repository but a restart takes the main commit back.
LEMMA MainStep ==
    ASSUME Inv, [Next]_vars, ~Restart
    PROVE  Precedes(status.main, status'.main)
<1>0. TypeOK /\ "main" \in Branches /\ "testing" \in Branches
  BY DEF Inv, Branches
<1>1. CASE status'.main = status.main
  BY <1>1 DEF Precedes, Behind
<1>2. CASE UpdateMain
  <2>1. CASE UNCHANGED status
    BY <2>1 DEF Precedes, Behind
  <2>2. CASE /\ HasHead(refs, status.main, remote, "main")
             /\ Selection(refs[remote]["main"], "main", refs[remote]["main"])
    <3>1. status'.main = refs[remote]["main"]
      BY <1>0, <2>2, SelectionFields
    <3>2. /\ refs[remote]["main"] \in Commits
          /\ status.main # None => Behind(status.main, refs[remote]["main"])
      BY <1>0, <2>2, HeadIsCommit
    <3> QED BY <3>1, <3>2, NoneAssumption DEF Precedes
  <2> QED BY <1>2, <2>1, <2>2 DEF UpdateMain
<1>3. CASE UpdateTesting
  <2>1. CASE Selection(refs[remote]["testing"], "testing", status.main)
    BY <1>0, <1>1, <2>1, SelectionFields
  <2> QED BY <1>1, <1>3, <2>1 DEF UpdateTesting
<1>4. CASE UpdateSelected
  <2>1. status'.main = status.main
    BY <1>0, <1>4 DEF UpdateSelected, TypeOK, Status
  <2> QED BY <1>1, <2>1
<1> QED
  BY <1>1, <1>2, <1>3, <1>4
  DEF Next, Worker, Fetch, FetchAndUpdate, Reply, Deploy, repositoryVars, vars

\* t is s with e at its end; t is s without its first element.
Extends(s, e, t) ==
    /\ DOMAIN s = 1 .. Len(s) /\ DOMAIN t = 1 .. Len(s) + 1 /\ Len(s) \in Nat
    /\ \A i \in 1 .. Len(s) : t[i] = s[i]
    /\ t[Len(s) + 1] = e
IsTail(s, t) ==
    /\ DOMAIN s = 1 .. Len(s) /\ DOMAIN t = 1 .. Len(s) - 1 /\ Len(s) \in Nat \ {0}
    /\ \A i \in 1 .. Len(s) - 1 : t[i] = s[i + 1]

\* A send to a channel and a receive from it, in these terms.
LEMMA AppendExtends ==
    ASSUME NEW E, NEW s \in Seq(E), NEW e \in E
    PROVE  Append(s, e) \in Seq(E) /\ Len(Append(s, e)) = Len(s) + 1
           /\ Extends(s, e, Append(s, e))
BY DEF Extends

LEMMA TailIsTail ==
    ASSUME NEW E, NEW s \in Seq(E), s # <<>>
    PROVE  /\ Tail(s) \in Seq(E) /\ Len(Tail(s)) = Len(s) - 1 /\ IsTail(s, Tail(s))
           /\ Head(s) \in E /\ Head(s) = s[1] /\ 1 \in DOMAIN s
BY DEF IsTail

\* A queue of one element has been sent.
LEMMA ConcatExtends ==
    ASSUME NEW E, NEW s \in Seq(E), NEW t \in Seq(E), t # <<>>, Len(t) <= 1
    PROVE  /\ s \o t \in Seq(E) /\ Len(s \o t) = Len(s) + 1
           /\ Extends(s, t[1], s \o t)
           /\ DOMAIN t = {1} /\ t[1] \in E
<1>0. Len(t) \in Nat \ {0}
  BY EmptySeq, Zenon
<1>1. Len(t) = 1
  <2>1. \A n \in Nat \ {0} : n <= 1 => n = 1
    OBVIOUS
  <2> QED BY <1>0, <2>1, Zenon
<1>2. s \o t \in Seq(E) /\ Len(s \o t) = Len(s) + 1
  BY <1>1, ConcatProperties
<1>3. \A i \in 1 .. Len(s) + 1 : (s \o t)[i] = IF i <= Len(s) THEN s[i] ELSE t[i - Len(s)]
  BY <1>1, ConcatProperties
<1>4. DOMAIN t = {1} /\ t[1] \in E
  BY <1>1
<1> QED BY <1>2, <1>3, <1>4 DEF Extends

\* What a send does to the order of the events.
LEMMA ExtendedOrder ==
    ASSUME NEW s, NEW e, NEW t, Extends(s, e, t), NEW c, NEW u
    PROVE  /\ AllBefore(s, c) /\ (e # Other => Precedes(e.status.main, c)) => AllBefore(t, c)
           /\ AllAfter(c, s) /\ (e # Other => Precedes(c, e.status.main)) => AllAfter(c, t)
           /\ Ordered(s, u) /\ (e # Other => AllAfter(e.status.main, u)) => Ordered(t, u)
           /\ Ordered(u, s) /\ (e # Other => AllBefore(u, e.status.main)) => Ordered(u, t)
           /\ InOrder(s) /\ (e # Other => AllBefore(s, e.status.main)) => InOrder(t)
           /\ AllReported(s) /\ Reported(e) => AllReported(t)
<1>1. \A i \in DOMAIN t : \/ i \in DOMAIN s /\ t[i] = s[i] /\ i <= Len(s)
                          \/ i = Len(s) + 1 /\ t[i] = e
  BY DEF Extends
<1>2. AllAfter(c, s) /\ (e # Other => Precedes(c, e.status.main)) => AllAfter(c, t)
  BY <1>1 DEF AllAfter
<1>3. AllBefore(s, c) /\ (e # Other => Precedes(e.status.main, c)) => AllBefore(t, c)
  BY <1>1 DEF AllBefore
<1>4. Ordered(s, u) /\ (e # Other => AllAfter(e.status.main, u)) => Ordered(t, u)
  BY <1>1 DEF Ordered
<1>5. Ordered(u, s) /\ (e # Other => AllBefore(u, e.status.main)) => Ordered(u, t)
  BY <1>1 DEF Ordered, AllBefore, AllAfter
<1>6. InOrder(s) /\ (e # Other => AllBefore(s, e.status.main)) => InOrder(t)
  <2>1. \A i, j \in DOMAIN t : i < j => i \in DOMAIN s /\ t[i] = s[i]
    BY DEF Extends
  <2> QED BY <1>1, <2>1 DEF InOrder, AllBefore
<1>7. AllReported(s) /\ Reported(e) => AllReported(t)
  BY <1>1 DEF AllReported
<1> QED BY <1>2, <1>3, <1>4, <1>5, <1>6, <1>7

\* What a receive does to it.
LEMMA TailOrder ==
    ASSUME NEW s, NEW t, IsTail(s, t), NEW c, NEW u
    PROVE  /\ AllBefore(s, c) => AllBefore(t, c)
           /\ AllAfter(c, s) => AllAfter(c, t)
           /\ Ordered(s, u) => Ordered(t, u)
           /\ Ordered(u, s) => Ordered(u, t)
           /\ InOrder(s) => InOrder(t) /\ (s[1] # Other => AllAfter(s[1].status.main, t))
           /\ AllReported(s) => AllReported(t) /\ Reported(s[1])
<1>1. \A i \in DOMAIN t : i + 1 \in DOMAIN s /\ t[i] = s[i + 1] /\ 1 < i + 1
  BY DEF IsTail
<1>2. 1 \in DOMAIN s
  BY DEF IsTail
<1>3. /\ AllBefore(s, c) => AllBefore(t, c)
      /\ AllAfter(c, s) => AllAfter(c, t)
      /\ Ordered(s, u) => Ordered(t, u)
      /\ AllReported(s) => AllReported(t) /\ Reported(s[1])
  BY <1>1, <1>2 DEF AllBefore, AllAfter, Ordered, AllReported
<1>4. Ordered(u, s) => Ordered(u, t)
  BY <1>1 DEF Ordered, AllAfter
<1>5. InOrder(s) => InOrder(t)
  <2>1. \A i, j \in DOMAIN t : i < j => i + 1 < j + 1
    BY DEF IsTail
  <2> QED BY <1>1, <2>1 DEF InOrder
<1>6. InOrder(s) /\ s[1] # Other => AllAfter(s[1].status.main, t)
  BY <1>1, <1>2 DEF InOrder, AllAfter
<1> QED BY <1>3, <1>4, <1>5, <1>6

\* What a send and a receive do to the last event that will be evaluated.
LEMMA ExtendedLast ==
    ASSUME NEW s, NEW e, NEW t, Extends(s, e, t)
    PROVE  /\ NoneAfter(s, 0) /\ ~ToEvaluate(e) => NoneAfter(t, 0)
           /\ (\E k \in DOMAIN s : LastAt(s, k)) /\ ~ToEvaluate(e)
                 => \E k \in DOMAIN t : LastAt(t, k)
           /\ ToEvaluate(e) /\ e.status = repositoryStatus => \E k \in DOMAIN t : LastAt(t, k)
<1>1. \A i \in DOMAIN t : \/ i \in DOMAIN s /\ t[i] = s[i] /\ i > 0 /\ i <= Len(s)
                          \/ i = Len(s) + 1 /\ t[i] = e
  BY DEF Extends
<1>2. Len(s) + 1 \in DOMAIN t /\ DOMAIN s \subseteq DOMAIN t
  BY DEF Extends
<1>3. NoneAfter(s, 0) /\ ~ToEvaluate(e) => NoneAfter(t, 0)
  BY <1>1 DEF NoneAfter
<1>4. ASSUME NEW k \in DOMAIN s, LastAt(s, k), ~ToEvaluate(e) PROVE LastAt(t, k)
  BY <1>1, <1>2, <1>4 DEF LastAt, NoneAfter, Extends
<1>5. ASSUME ToEvaluate(e), e.status = repositoryStatus PROVE LastAt(t, Len(s) + 1)
  BY <1>1, <1>2, <1>5 DEF LastAt, NoneAfter, Extends
<1> QED BY <1>2, <1>3, <1>4, <1>5

LEMMA TailLast ==
    ASSUME NEW s, NEW t, IsTail(s, t)
    PROVE  /\ NoneAfter(s, 0) => NoneAfter(t, 0) /\ ~ToEvaluate(s[1])
           /\ (\E k \in DOMAIN s : LastAt(s, k)) =>
                 \/ \E k \in DOMAIN t : LastAt(t, k)
                 \/ /\ ToEvaluate(s[1]) /\ s[1].status = repositoryStatus
                    /\ NoneAfter(t, 0)
<1>1. \A i \in DOMAIN t : i + 1 \in DOMAIN s /\ t[i] = s[i + 1] /\ i \in Nat /\ i > 0
  BY DEF IsTail
<1>2. 1 \in DOMAIN s
  BY DEF IsTail
<1>3. NoneAfter(s, 0) => NoneAfter(t, 0) /\ ~ToEvaluate(s[1])
  BY <1>1, <1>2 DEF NoneAfter
<1>4. ASSUME LastAt(s, 1)
      PROVE  ToEvaluate(s[1]) /\ s[1].status = repositoryStatus /\ NoneAfter(t, 0)
  BY <1>1, <1>4 DEF LastAt, NoneAfter
<1>5. ASSUME NEW k \in DOMAIN s, k # 1, LastAt(s, k) PROVE k - 1 \in DOMAIN t /\ LastAt(t, k - 1)
  <2>1. k - 1 \in DOMAIN t /\ t[k - 1] = s[k] /\ k \in Nat
    BY <1>5 DEF IsTail
  <2>2. NoneAfter(t, k - 1)
    BY <1>1, <1>5, <2>1 DEF LastAt, NoneAfter
  <2> QED BY <1>5, <2>1, <2>2 DEF LastAt
<1> QED BY <1>3, <1>4, <1>5

-----------------------------------------------------------------------------
(* Each step preserves the inductive invariant.                            *)

\* A Fetched event is never taken for one of the others.
LEMMA FetchedIsNotOther == \A e \in FetchedEvents : e # Other
BY DEF FetchedEvents, Other

\* The events in the three places have main commits.
LEMMA EventTypes ==
    ASSUME FetcherTypeOK
    PROVE  /\ publishing \in Seq(Events)
           /\ \A e \in Events : e # Other => e \in FetchedEvents /\ e.status \in Status
                                             /\ e.status.main \in CommitId
           /\ evaluated.main \in CommitId
<1>1. publishing \in Seq(Events)
  BY SeqMonotonic DEF FetcherTypeOK, Events
<1> QED BY <1>1 DEF FetcherTypeOK, Events, FetchedEvents, Status

\* A main commit that advances stays after the events.
LEMMA AllBeforeAdvances ==
    ASSUME FetcherTypeOK, NEW s \in Seq(Events), NEW c \in CommitId, NEW d \in CommitId,
           AllBefore(s, c), Precedes(c, d)
    PROVE  AllBefore(s, d)
<1> SUFFICES ASSUME NEW i \in DOMAIN s, s[i] # Other PROVE Precedes(s[i].status.main, d)
  BY DEF AllBefore
<1>1. s[i] \in Events
  OBVIOUS
<1>2. s[i].status.main \in CommitId
  BY <1>1, EventTypes
<1>3. Precedes(s[i].status.main, c)
  BY DEF AllBefore
<1> QED BY <1>2, <1>3, PrecedesTransitive

\* The end of an iteration of the fetcher's loop: only an idle worker is started, and
\* remotes are only left to wait for a worker.
LEMMA StartWorkerKeeps ==
    ASSUME FetcherInv, NEW submitted \in SUBSET Remotes, StartWorker(submitted),
           UNCHANGED deployed
    PROVE  /\ Inv' /\ status' = status
           /\ remotes' \in SUBSET Remotes /\ isFetching' \in BOOLEAN
           /\ OneWorker'
           /\ remotes' # {} => isFetching'
<1>1. CASE ~isFetching /\ submitted # {}
  <2>1. FetchAndUpdate(submitted) /\ isFetching' = TRUE /\ remotes' = {}
    BY <1>1 DEF StartWorker
  <2>2. Next
    BY <1>1, <2>1 DEF Next
  <2>3. Inv'
    BY <2>2, InvStep DEF FetcherInv
  <2> QED BY <2>1, <2>3 DEF FetchAndUpdate, repositoryVars, OneWorker
<1>2. CASE ~(~isFetching /\ submitted # {})
  <2>1. UNCHANGED vars /\ remotes' = submitted /\ isFetching' = isFetching
    BY <1>2 DEF StartWorker, vars
  <2>2. Inv'
    BY <2>1, InvStep DEF FetcherInv
  <2>3. OneWorker' /\ status' = status
    BY <2>1 DEF FetcherInv, OneWorker, vars, repositoryVars, workerVars
  <2> QED BY <1>2, <2>1, <2>2, <2>3 DEF FetcherInv, FetcherTypeOK
<1> QED BY <1>1, <1>2

\* The conjuncts that only depend on the events and the manager.
QueuesKept ==
    UNCHANGED <<publishing, publishCh, brokerEvents, managerVars, repositoryStatus, dropped>>

\* What was evaluated stays as it was reported.
LEMMA EvaluatedStays ==
    ASSUME EvaluatedIsReported, UNCHANGED evaluated
    PROVE  EvaluatedIsReported'
  BY DEF EvaluatedIsReported, EvaluatesSigned, OnTopOfMain, Behind

LEMMA QueuesKeptKeeps ==
    ASSUME FetcherInv, QueuesKept
    PROVE  EventsAreReported' /\ EvaluatedIsReported' /\ LastUpdateIsLast'
           /\ (deployed' = deployed => DeployedIsBehind')
           /\ (status' = status => MainAdvancesAlong')
<1> USE DEF FetcherInv, QueuesKept, managerVars
<1>1. EventsAreReported' /\ EvaluatedIsReported'
  BY EvaluatedStays DEF EventsAreReported, AllReported, Reported, Verified, OnTopOfMain, Behind
<1>2. LastUpdateIsLast'
  BY DEF LastUpdateIsLast, LastAt, NoneAfter, ToEvaluate, Verified
<1>3. status' = status => MainAdvancesAlong'
  BY DEF MainAdvancesAlong, AllBefore, AllAfter, InOrder, Ordered, Precedes, Behind
<1>4. deployed' = deployed => DeployedIsBehind'
  BY DEF DeployedIsBehind, AllAfter, Precedes, Behind
<1> QED BY <1>1, <1>2, <1>3, <1>4

LEMMA TriggerFetchKeeps ==
    ASSUME FetcherInv, NEW names \in Submission, TriggerFetch(names)
    PROVE  FetcherInv'
<1>1. remotes \union names \in SUBSET Remotes
  BY DEF FetcherInv, FetcherTypeOK, Submission
<1>2. /\ Inv' /\ status' = status
      /\ remotes' \in SUBSET Remotes /\ isFetching' \in BOOLEAN
      /\ OneWorker'
      /\ remotes' # {} => isFetching'
  BY <1>1, StartWorkerKeeps DEF TriggerFetch
<1>3. QueuesKept /\ deployed' = deployed
  BY DEF TriggerFetch, QueuesKept
<1>4. FetcherTypeOK'
  BY <1>2, <1>3 DEF FetcherInv, FetcherTypeOK, QueuesKept, managerVars
<1> QED BY <1>2, <1>3, <1>4, QueuesKeptKeeps DEF FetcherInv, RequestIsAwaited

\* A step of the worker: only the status changes, and its main commit advances.
LEMMA FetchWorkerKeeps ==
    ASSUME FetcherInv, FetchWorker
    PROVE  FetcherInv'
<1>1. Next
  BY DEF FetchWorker, Next
<1>2. Inv'
  BY <1>1, InvStep DEF FetcherInv
<1>3. pc # "idle"
  BY DEF FetchWorker, Worker, Fetch, UpdateMain, UpdateTesting, UpdateSelected
<1>4. pc' # "idle"
  BY DEF FetchWorker, Worker, Fetch, UpdateMain, UpdateTesting, UpdateSelected, Advance, Break
<1>5. QueuesKept /\ UNCHANGED <<remotes, isFetching, deployed>>
  BY DEF FetchWorker, QueuesKept, fetcherVars, Worker, Fetch, UpdateMain, UpdateTesting,
         UpdateSelected
<1>6. FetcherTypeOK' /\ OneWorker' /\ RequestIsAwaited'
  BY <1>3, <1>4, <1>5
  DEF FetcherInv, FetcherTypeOK, OneWorker, RequestIsAwaited, QueuesKept, managerVars
<1>7. MainAdvancesAlong'
  <2>1. status.main \in CommitId /\ status'.main \in CommitId
    BY <1>2 DEF FetcherInv, Inv, TypeOK, Status
  <2>2. Precedes(status.main, status'.main)
    <3>1. CASE Restart
      BY <1>4, <3>1 DEF Restart
    <3> QED BY <1>1, <3>1, MainStep DEF FetcherInv
  <2>3. Precedes(evaluated.main, status'.main)
    BY <2>1, <2>2, EventTypes, PrecedesTransitive DEF FetcherInv, MainAdvancesAlong
  <2>4. /\ AllBefore(brokerEvents, status'.main) /\ AllBefore(publishCh, status'.main)
        /\ AllBefore(publishing, status'.main)
    <3>1. /\ publishing \in Seq(Events) /\ publishCh \in Seq(Events)
          /\ brokerEvents \in Seq(Events)
      BY EventTypes DEF FetcherInv, FetcherTypeOK
    <3> QED
      BY <2>1, <2>2, <3>1, AllBeforeAdvances DEF FetcherInv, MainAdvancesAlong
  <2> QED
    BY <1>5, <2>3, <2>4 DEF QueuesKept, managerVars, FetcherInv, MainAdvancesAlong, AllBefore,
                            AllAfter, InOrder, Ordered, Precedes, Behind
<1> QED BY <1>2, <1>5, <1>6, <1>7, QueuesKeptKeeps DEF FetcherInv

\* The status is compared, stored and made an event in one step.
LEMMA ReceiveStatusKeeps ==
    ASSUME FetcherInv, ReceiveStatus
    PROVE  FetcherInv'
<1> DEFINE e == [status |-> status, updated |-> Updated(status), verified |-> Verified(status)]
<1>0. status \in Status /\ repositoryStatus \in Status
  BY DEF FetcherInv, Inv, TypeOK, FetcherTypeOK
<1>1. e \in FetchedEvents /\ e # Other
  <2>1. Updated(status) \in BOOLEAN /\ Verified(status) \in BOOLEAN
    BY <1>0, KeysAssumption DEF Updated, Verified, Status, isTesting
  <2> QED BY <1>0, <2>1, FetchedIsNotOther DEF FetchedEvents
<1>2. /\ publishing = <<>> /\ publishing' = <<e>> /\ Reply /\ isFetching' = FALSE
      /\ repositoryStatus' = IF Updated(status) THEN status ELSE repositoryStatus
      /\ UNCHANGED <<deployed, remotes, publishCh, brokerEvents, evaluated, managerLoop, dropped>>
  BY DEF ReceiveStatus, managerVars
<1>3. Inv'
  BY <1>2, InvStep DEF FetcherInv, Next
<1>4. pc' = "idle" /\ status' = status
  BY <1>2 DEF Reply, repositoryVars
<1>5. DOMAIN publishing' = {1} /\ publishing'[1] = e /\ publishing' # <<>>
  BY <1>2
<1>6. FetcherTypeOK' /\ OneWorker' /\ RequestIsAwaited'
  <2>1. publishing' \in Seq(FetchedEvents) /\ Len(publishing') = 1
    BY <1>1, <1>2
  <2>0. Len(publishing') <= 1
    BY <2>1
  <2>2. repositoryStatus' \in Status
    BY <1>0, <1>2
  <2>3. OneWorker' /\ RequestIsAwaited'
    BY <1>2, <1>4, <1>5 DEF OneWorker, RequestIsAwaited
  <2>4. /\ UNCHANGED <<remotes, publishCh, brokerEvents, evaluated, managerLoop, dropped>>
        /\ isFetching' = FALSE
    BY <1>2
  <2>5. FetcherTypeOK'
    BY <2>0, <2>1, <2>2, <2>4, Zenon DEF FetcherInv, FetcherTypeOK
  <2> QED BY <2>3, <2>5
<1>7. EventsAreReported' /\ EvaluatedIsReported'
  <2>0. OnTopOfMain(status)
    BY <1>2 DEF Reply, FetcherInv, Inv, CandidateOnTopOfMain, Candidate, ChosenIsLocal, OnTopOfMain
  <2>1. Reported(e)
    BY <2>0 DEF Reported, FetcherInv, Inv, SignatureIsOfSelected
  <2>2. AllReported(publishing')
    BY <1>5, <2>1 DEF AllReported
  <2> QED
    BY <1>2, <2>2, EvaluatedStays
    DEF FetcherInv, EventsAreReported, AllReported, Reported, Verified, OnTopOfMain, Behind
<1>8. MainAdvancesAlong'
  <2>1. AllAfter(evaluated.main, publishing') /\ AllBefore(publishing', status.main)
    BY <1>5 DEF FetcherInv, MainAdvancesAlong, AllAfter, AllBefore, Precedes, Behind
  <2>2. Ordered(brokerEvents, publishing') /\ Ordered(publishCh, publishing')
    BY <1>5 DEF FetcherInv, MainAdvancesAlong, Ordered, AllAfter, AllBefore
  <2> QED BY <1>2, <1>4, <2>1, <2>2 DEF FetcherInv, MainAdvancesAlong
<1>d. DeployedIsBehind'
  <2>1. AllAfter(deployed, publishing')
    BY <1>5 DEF FetcherInv, Inv, DeployedBehindMain, AllAfter, Precedes
  <2> QED BY <1>2, <2>1 DEF FetcherInv, DeployedIsBehind
<1>9. LastUpdateIsLast'
  <2> SUFFICES ASSUME ~dropped, repositoryStatus'.selected # None, Verified(repositoryStatus')
               PROVE  LastUpdateIsLast'
    BY <1>2 DEF LastUpdateIsLast, Verified
  <2>1. CASE Updated(status)
    <3>1. ToEvaluate(e) /\ e.status = repositoryStatus'
      BY <1>1, <1>2, <2>1 DEF ToEvaluate
    <3>2. \A i \in {1} : ~(i > 1)
      OBVIOUS
    <3>3. NoneAfter(publishing, 1)'
      BY <1>5, <3>2 DEF NoneAfter
    <3>4. LastAt(publishing, 1)'
      BY <1>5, <3>1, <3>3 DEF LastAt
    <3> QED BY <1>5, <3>4 DEF LastUpdateIsLast
  <2>2. CASE ~Updated(status)
    <3>1. repositoryStatus' = repositoryStatus
      BY <1>2, <2>2
    <3>2. NoneAfter(publishing, 0)'
      BY <1>5, <2>2 DEF NoneAfter, ToEvaluate
    <3>3. ~(\E k \in DOMAIN publishing : LastAt(publishing, k))
      BY <1>2
    <3>4. Verified(repositoryStatus)
      BY <3>1 DEF Verified
    <3> QED
      BY <1>2, <3>1, <3>2, <3>3, <3>4
      DEF FetcherInv, LastUpdateIsLast, LastAt, NoneAfter, ToEvaluate
  <2> QED BY <2>1, <2>2
<1> QED BY <1>3, <1>6, <1>7, <1>8, <1>9, <1>d DEF FetcherInv

\* The event moves to publishCh, and the iteration ends.
LEMMA PublishKeeps ==
    ASSUME FetcherInv, Publish
    PROVE  FetcherInv'
<1>1. /\ Inv' /\ status' = status
      /\ remotes' \in SUBSET Remotes /\ isFetching' \in BOOLEAN
      /\ OneWorker'
      /\ remotes' # {} => isFetching'
  BY StartWorkerKeeps DEF FetcherInv, FetcherTypeOK, Publish
<1>2. /\ publishing # <<>> /\ publishing' = <<>> /\ Len(publishCh) < PublishCapacity
      /\ publishCh' = publishCh \o publishing
      /\ UNCHANGED <<deployed, repositoryStatus, brokerEvents, evaluated, managerLoop, dropped>>
  BY DEF Publish, managerVars
<1>3. /\ publishCh' \in Seq(Events) /\ Len(publishCh') = Len(publishCh) + 1
      /\ Extends(publishCh, publishing[1], publishCh')
      /\ DOMAIN publishing = {1} /\ publishing[1] \in Events
  BY <1>2, ConcatExtends, EventTypes DEF FetcherInv, FetcherTypeOK
<1>4. FetcherTypeOK' /\ RequestIsAwaited'
  BY <1>1, <1>2, <1>3, CapacityAssumption DEF FetcherInv, FetcherTypeOK, RequestIsAwaited
<1>5. EventsAreReported' /\ EvaluatedIsReported'
  <2>1. AllReported(publishCh') /\ AllReported(publishing')
    BY <1>2, <1>3, ExtendedOrder DEF FetcherInv, EventsAreReported, AllReported
  <2> QED BY <1>2, <2>1, EvaluatedStays DEF FetcherInv, EventsAreReported
<1>6. MainAdvancesAlong'
  <2>1. /\ publishing[1] # Other => /\ Precedes(publishing[1].status.main, status.main)
                                    /\ Precedes(evaluated.main, publishing[1].status.main)
        /\ publishing[1] # Other => /\ AllBefore(publishCh, publishing[1].status.main)
                                    /\ AllBefore(brokerEvents, publishing[1].status.main)
    BY <1>3 DEF FetcherInv, MainAdvancesAlong, AllBefore, AllAfter, Ordered
  <2>2. /\ AllAfter(evaluated.main, publishCh') /\ AllBefore(publishCh', status.main)
        /\ InOrder(publishCh') /\ Ordered(brokerEvents, publishCh')
    BY <1>3, <2>1, ExtendedOrder DEF FetcherInv, MainAdvancesAlong
  <2>3. /\ AllAfter(evaluated.main, <<>>) /\ AllBefore(<<>>, status.main)
        /\ Ordered(brokerEvents, <<>>) /\ Ordered(publishCh', <<>>)
    BY DEF AllAfter, AllBefore, Ordered
  <2> QED BY <1>1, <1>2, <2>2, <2>3 DEF FetcherInv, MainAdvancesAlong
<1>d. DeployedIsBehind'
  <2>1. publishing[1] # Other => Precedes(deployed, publishing[1].status.main)
    BY <1>3 DEF FetcherInv, DeployedIsBehind, AllAfter
  <2>2. AllAfter(deployed, publishCh')
    BY <1>3, <2>1, ExtendedOrder DEF FetcherInv, DeployedIsBehind
  <2>3. AllAfter(deployed, <<>>)
    BY DEF AllAfter
  <2> QED BY <1>2, <2>2, <2>3 DEF FetcherInv, DeployedIsBehind
<1>7. LastUpdateIsLast'
  <2>1. NoneAfter(<<>>, 0)
    BY DEF NoneAfter
  <2>2. (\E k \in DOMAIN publishing : LastAt(publishing, k)) =>
            ToEvaluate(publishing[1]) /\ publishing[1].status = repositoryStatus
    BY <1>3 DEF LastAt
  <2>3. NoneAfter(publishing, 0) => ~ToEvaluate(publishing[1])
    BY <1>3 DEF NoneAfter
  <2>4. /\ NoneAfter(publishCh, 0) /\ ~ToEvaluate(publishing[1]) => NoneAfter(publishCh', 0)
        /\ (\E k \in DOMAIN publishCh : LastAt(publishCh, k)) /\ ~ToEvaluate(publishing[1])
             => \E k \in DOMAIN publishCh' : LastAt(publishCh', k)
        /\ ToEvaluate(publishing[1]) /\ publishing[1].status = repositoryStatus
             => \E k \in DOMAIN publishCh' : LastAt(publishCh', k)
    BY <1>3, ExtendedLast
  <2> QED
    BY <1>2, <2>1, <2>2, <2>3, <2>4 DEF FetcherInv, LastUpdateIsLast, LastAt, Verified
<1> QED BY <1>1, <1>4, <1>5, <1>6, <1>7, <1>d DEF FetcherInv

\* The steps that leave the repository and the fetcher alone.
LEMMA FetcherUnchanged ==
    ASSUME FetcherInv, UNCHANGED <<vars, fetcherVars>>
    PROVE  /\ Inv' /\ OneWorker' /\ RequestIsAwaited'
           /\ UNCHANGED <<status, deployed>>
<1>1. Inv'
  BY InvStep DEF FetcherInv
<1> QED
  BY <1>1 DEF FetcherInv, vars, repositoryVars, workerVars, fetcherVars, OneWorker,
              RequestIsAwaited

LEMMA PublishOtherKeeps ==
    ASSUME FetcherInv, PublishOther
    PROVE  FetcherInv'
<1>1. /\ Len(publishCh) < PublishCapacity /\ publishCh' = Append(publishCh, Other)
      /\ UNCHANGED <<vars, fetcherVars, brokerEvents, evaluated, managerLoop, dropped>>
  BY DEF PublishOther, managerVars
<1>2. /\ publishCh' \in Seq(Events) /\ Len(publishCh') = Len(publishCh) + 1
      /\ Extends(publishCh, Other, publishCh')
  BY <1>1, AppendExtends DEF FetcherInv, FetcherTypeOK, Events
<1>3. Inv' /\ OneWorker' /\ RequestIsAwaited' /\ UNCHANGED <<status, deployed>>
  BY <1>1, FetcherUnchanged
<1>4. FetcherTypeOK'
  BY <1>1, <1>2, CapacityAssumption DEF FetcherInv, FetcherTypeOK, fetcherVars
<1>5. EventsAreReported' /\ EvaluatedIsReported'
  <2>1. AllReported(publishCh')
    BY <1>2, ExtendedOrder DEF FetcherInv, EventsAreReported, Reported
  <2> QED BY <1>1, <2>1, EvaluatedStays DEF FetcherInv, EventsAreReported, fetcherVars
<1>6. MainAdvancesAlong'
  <2>1. /\ AllAfter(evaluated.main, publishCh') /\ AllBefore(publishCh', status.main)
        /\ InOrder(publishCh') /\ Ordered(brokerEvents, publishCh')
        /\ Ordered(publishCh', publishing)
    BY <1>2, ExtendedOrder DEF FetcherInv, MainAdvancesAlong
  <2> QED BY <1>1, <1>3, <2>1 DEF FetcherInv, MainAdvancesAlong, fetcherVars
<1>d. DeployedIsBehind'
  <2>1. AllAfter(deployed, publishCh')
    BY <1>2, ExtendedOrder DEF FetcherInv, DeployedIsBehind
  <2> QED BY <1>1, <1>3, <2>1 DEF FetcherInv, DeployedIsBehind, fetcherVars
<1>7. LastUpdateIsLast'
  <2>1. ~ToEvaluate(Other)
    BY DEF ToEvaluate
  <2>2. /\ NoneAfter(publishCh, 0) => NoneAfter(publishCh', 0)
        /\ (\E k \in DOMAIN publishCh : LastAt(publishCh, k))
             => \E k \in DOMAIN publishCh' : LastAt(publishCh', k)
    BY <1>2, <2>1, ExtendedLast
  <2> QED BY <1>1, <2>2 DEF FetcherInv, LastUpdateIsLast, LastAt, Verified, fetcherVars
<1> QED BY <1>3, <1>4, <1>5, <1>6, <1>7, <1>d DEF FetcherInv

\* The broker moves the first event to the subscription, or drops it.
LEMMA ForwardKeeps ==
    ASSUME FetcherInv, Forward
    PROVE  FetcherInv'
<1> DEFINE h == Head(publishCh)
<1>1. /\ publishCh # <<>> /\ publishCh' = Tail(publishCh)
      /\ UNCHANGED <<vars, fetcherVars, evaluated, managerLoop>>
  BY DEF Forward, managerVars
<1>2. /\ publishCh' \in Seq(Events) /\ Len(publishCh') = Len(publishCh) - 1
      /\ IsTail(publishCh, publishCh')
      /\ h \in Events /\ h = publishCh[1] /\ 1 \in DOMAIN publishCh
  BY <1>1, TailIsTail DEF FetcherInv, FetcherTypeOK
<1>3. Inv' /\ OneWorker' /\ RequestIsAwaited' /\ UNCHANGED <<status, deployed>>
  BY <1>1, FetcherUnchanged
<1>4. /\ AllAfter(evaluated.main, publishCh') /\ AllBefore(publishCh', status.main)
      /\ InOrder(publishCh') /\ Ordered(brokerEvents, publishCh')
      /\ Ordered(publishCh', publishing) /\ AllReported(publishCh')
      /\ h # Other => AllAfter(h.status.main, publishCh')
      /\ Reported(h)
      /\ AllAfter(deployed, publishCh')
  BY <1>2, TailOrder DEF FetcherInv, MainAdvancesAlong, EventsAreReported, DeployedIsBehind
<1>5. /\ NoneAfter(publishCh, 0) => NoneAfter(publishCh', 0) /\ ~ToEvaluate(h)
      /\ (\E k \in DOMAIN publishCh : LastAt(publishCh, k)) =>
            \/ \E k \in DOMAIN publishCh' : LastAt(publishCh', k)
            \/ ToEvaluate(h) /\ h.status = repositoryStatus /\ NoneAfter(publishCh', 0)
  BY <1>2, TailLast
<1>6. CASE /\ brokerEvents' = Append(brokerEvents, h)
           /\ Len(brokerEvents) < SubscriberCapacity /\ dropped' = dropped
  <2>1. /\ brokerEvents' \in Seq(Events) /\ Len(brokerEvents') = Len(brokerEvents) + 1
        /\ Extends(brokerEvents, h, brokerEvents')
    BY <1>2, <1>6, AppendExtends DEF FetcherInv, FetcherTypeOK
  <2>2. FetcherTypeOK'
    BY <1>1, <1>2, <1>6, <2>1, CapacityAssumption DEF FetcherInv, FetcherTypeOK, fetcherVars
  <2>3. EventsAreReported' /\ EvaluatedIsReported'
    <3>1. AllReported(brokerEvents')
      BY <1>4, <2>1, ExtendedOrder DEF FetcherInv, EventsAreReported
    <3> QED BY <1>1, <1>4, <3>1, EvaluatedStays DEF FetcherInv, EventsAreReported, fetcherVars
  <2>4. MainAdvancesAlong'
    <3>1. h # Other => /\ Precedes(h.status.main, status.main)
                       /\ Precedes(evaluated.main, h.status.main)
                       /\ AllBefore(brokerEvents, h.status.main)
                       /\ AllAfter(h.status.main, publishing)
      BY <1>2 DEF FetcherInv, MainAdvancesAlong, AllBefore, AllAfter, Ordered
    <3>2. /\ AllAfter(evaluated.main, brokerEvents') /\ AllBefore(brokerEvents', status.main)
          /\ InOrder(brokerEvents') /\ Ordered(brokerEvents', publishCh')
          /\ Ordered(brokerEvents', publishing)
      BY <1>4, <2>1, <3>1, ExtendedOrder DEF FetcherInv, MainAdvancesAlong
    <3> QED BY <1>1, <1>3, <1>4, <3>2 DEF FetcherInv, MainAdvancesAlong, fetcherVars
  <2>5. LastUpdateIsLast'
    <3>1. /\ NoneAfter(brokerEvents, 0) /\ ~ToEvaluate(h) => NoneAfter(brokerEvents', 0)
          /\ (\E k \in DOMAIN brokerEvents : LastAt(brokerEvents, k)) /\ ~ToEvaluate(h)
               => \E k \in DOMAIN brokerEvents' : LastAt(brokerEvents', k)
          /\ ToEvaluate(h) /\ h.status = repositoryStatus
               => \E k \in DOMAIN brokerEvents' : LastAt(brokerEvents', k)
      BY <2>1, ExtendedLast
    <3> QED
      BY <1>1, <1>5, <1>6, <3>1 DEF FetcherInv, LastUpdateIsLast, LastAt, Verified, fetcherVars
  <2>6. DeployedIsBehind'
    <3>1. h # Other => Precedes(deployed, h.status.main)
      BY <1>2 DEF FetcherInv, DeployedIsBehind, AllAfter
    <3>2. AllAfter(deployed, brokerEvents')
      BY <2>1, <3>1, ExtendedOrder DEF FetcherInv, DeployedIsBehind
    <3> QED BY <1>1, <1>3, <1>4, <3>2 DEF FetcherInv, DeployedIsBehind, fetcherVars
  <2> QED BY <1>3, <2>2, <2>3, <2>4, <2>5, <2>6 DEF FetcherInv
<1>7. CASE brokerEvents' = brokerEvents /\ dropped' = (dropped \/ h # Other)
  <2>1. FetcherTypeOK'
    BY <1>1, <1>2, <1>7, CapacityAssumption DEF FetcherInv, FetcherTypeOK, fetcherVars
  <2>2. EventsAreReported' /\ EvaluatedIsReported'
    BY <1>1, <1>4, <1>7, EvaluatedStays DEF FetcherInv, EventsAreReported, fetcherVars
  <2>3. MainAdvancesAlong' /\ DeployedIsBehind'
    BY <1>1, <1>3, <1>4, <1>7 DEF FetcherInv, MainAdvancesAlong, DeployedIsBehind, fetcherVars
  <2>4. LastUpdateIsLast'
    <3>1. h = Other => ~ToEvaluate(h)
      BY DEF ToEvaluate
    <3> QED
      BY <1>1, <1>5, <1>7, <3>1 DEF FetcherInv, LastUpdateIsLast, LastAt, Verified, fetcherVars
  <2> QED BY <1>3, <2>1, <2>2, <2>3, <2>4 DEF FetcherInv
<1> QED BY <1>6, <1>7 DEF Forward

\* The manager takes the first event of its subscription.
LEMMA ConsumeKeeps ==
    ASSUME FetcherInv, Consume
    PROVE  FetcherInv'
<1> DEFINE h == Head(brokerEvents)
<1>1. /\ brokerEvents # <<>> /\ brokerEvents' = Tail(brokerEvents)
      /\ UNCHANGED <<vars, fetcherVars, publishCh, dropped>>
  BY DEF Consume
<1>2. /\ brokerEvents' \in Seq(Events) /\ Len(brokerEvents') = Len(brokerEvents) - 1
      /\ IsTail(brokerEvents, brokerEvents')
      /\ h \in Events /\ h = brokerEvents[1] /\ 1 \in DOMAIN brokerEvents
  BY <1>1, TailIsTail DEF FetcherInv, FetcherTypeOK
<1>3. Inv' /\ OneWorker' /\ RequestIsAwaited' /\ UNCHANGED <<status, deployed>>
  BY <1>1, FetcherUnchanged
<1>4. /\ AllAfter(evaluated.main, brokerEvents') /\ AllBefore(brokerEvents', status.main)
      /\ InOrder(brokerEvents') /\ Ordered(brokerEvents', publishCh)
      /\ Ordered(brokerEvents', publishing) /\ AllReported(brokerEvents')
      /\ h # Other => AllAfter(h.status.main, brokerEvents')
      /\ Reported(h)
      /\ AllAfter(deployed, brokerEvents')
  BY <1>2, TailOrder DEF FetcherInv, MainAdvancesAlong, EventsAreReported, DeployedIsBehind
<1>5. /\ NoneAfter(brokerEvents, 0) => NoneAfter(brokerEvents', 0) /\ ~ToEvaluate(h)
      /\ (\E k \in DOMAIN brokerEvents : LastAt(brokerEvents, k)) =>
            \/ \E k \in DOMAIN brokerEvents' : LastAt(brokerEvents', k)
            \/ ToEvaluate(h) /\ h.status = repositoryStatus /\ NoneAfter(brokerEvents', 0)
  BY <1>2, TailLast
<1>6. EventsAreReported'
  BY <1>1, <1>4 DEF FetcherInv, EventsAreReported, fetcherVars
<1>7. CASE ToEvaluate(h) /\ evaluated' = h.status /\ managerLoop' = "eval"
  <2>1. h # Other /\ h.verified /\ h.status \in Status
    BY <1>2, <1>7, EventTypes DEF FetcherInv, ToEvaluate
  <2>2. FetcherTypeOK'
    BY <1>1, <1>2, <1>7, <2>1, CapacityAssumption DEF FetcherInv, FetcherTypeOK, fetcherVars
  <2>3. EvaluatedIsReported'
    BY <1>4, <1>7, <2>1 DEF Reported, Verified, OnTopOfMain, Behind, EvaluatedIsReported,
                            EvaluatesSigned
  <2>4. MainAdvancesAlong'
    <3>1. /\ Precedes(h.status.main, status.main)
          /\ AllAfter(h.status.main, publishCh) /\ AllAfter(h.status.main, publishing)
      BY <1>2, <2>1 DEF FetcherInv, MainAdvancesAlong, AllBefore, Ordered
    <3> QED BY <1>1, <1>3, <1>4, <1>7, <2>1, <3>1 DEF FetcherInv, MainAdvancesAlong, fetcherVars
  <2>5. LastUpdateIsLast'
    BY <1>1, <1>5, <1>7 DEF FetcherInv, LastUpdateIsLast, LastAt, Verified, fetcherVars
  <2>6. DeployedIsBehind'
    <3>1. Precedes(deployed, h.status.main)
      BY <1>2, <2>1 DEF FetcherInv, DeployedIsBehind, AllAfter
    <3> QED BY <1>1, <1>3, <1>4, <1>7, <3>1 DEF FetcherInv, DeployedIsBehind, fetcherVars
  <2> QED BY <1>3, <1>6, <2>2, <2>3, <2>4, <2>5, <2>6 DEF FetcherInv
<1>8. CASE ~ToEvaluate(h) /\ UNCHANGED <<evaluated, managerLoop>>
  <2>1. FetcherTypeOK'
    BY <1>1, <1>2, <1>8, CapacityAssumption DEF FetcherInv, FetcherTypeOK, fetcherVars
  <2>2. EvaluatedIsReported' /\ MainAdvancesAlong' /\ DeployedIsBehind'
    BY <1>1, <1>3, <1>4, <1>8, EvaluatedStays
    DEF FetcherInv, MainAdvancesAlong, DeployedIsBehind, fetcherVars
  <2>3. LastUpdateIsLast'
    BY <1>1, <1>5, <1>8 DEF FetcherInv, LastUpdateIsLast, LastAt, Verified, fetcherVars
  <2> QED BY <1>3, <1>6, <2>1, <2>2, <2>3 DEF FetcherInv
<1> QED BY <1>7, <1>8 DEF Consume, managerVars

LEMMA EvalReturnsKeeps ==
    ASSUME FetcherInv, EvalReturns
    PROVE  FetcherInv'
<1>1. /\ UNCHANGED <<vars, fetcherVars, publishCh, brokerEvents, evaluated, dropped>>
      /\ managerLoop' = "select"
  BY DEF EvalReturns
<1>2. Inv' /\ OneWorker' /\ RequestIsAwaited' /\ UNCHANGED <<status, deployed>>
  BY <1>1, FetcherUnchanged
<1>3. FetcherTypeOK' /\ EventsAreReported' /\ EvaluatedIsReported'
  BY <1>1, EvaluatedStays DEF FetcherInv, FetcherTypeOK, EventsAreReported, fetcherVars
<1>4. MainAdvancesAlong' /\ DeployedIsBehind' /\ LastUpdateIsLast'
  BY <1>1, <1>2
  DEF FetcherInv, MainAdvancesAlong, DeployedIsBehind, LastUpdateIsLast, LastAt, Verified,
      fetcherVars
<1> QED BY <1>2, <1>3, <1>4 DEF FetcherInv

\* The main commit of what is deployed is behind the one of the repository, also when
\* the worker has gone on since the evaluation.
LEMMA DeployEvaluatedKeeps ==
    ASSUME FetcherInv, DeployEvaluated
    PROVE  FetcherInv'
<1>1. /\ deployed' = evaluated.main /\ UNCHANGED <<repositoryVars, workerVars>>
      /\ UNCHANGED <<fetcherVars, publishCh, brokerEvents, managerVars, dropped>>
  BY DEF DeployEvaluated, Deploy
<1>2. evaluated.main \in CommitId /\ Precedes(evaluated.main, status.main)
  BY EventTypes DEF FetcherInv, MainAdvancesAlong
<1>3. Inv'
  <2>1. TypeOK'
    BY <1>1, <1>2 DEF FetcherInv, Inv, TypeOK, repositoryVars, workerVars
  <2>2. DeployedBehindMain'
    BY <1>1, <1>2 DEF DeployedBehindMain, Precedes, repositoryVars, Behind
  <2>3. CandidateOnTopOfMain' /\ ChosenIsLocal' /\ SignatureIsOfSelected'
    BY <1>1 DEF FetcherInv, Inv, repositoryVars, workerVars, CandidateOnTopOfMain, Candidate,
                ChosenIsLocal, SignatureIsOfSelected, Behind
  <2> QED BY <2>1, <2>2, <2>3 DEF Inv
<1>4. FetcherTypeOK' /\ OneWorker' /\ RequestIsAwaited'
  BY <1>1
  DEF FetcherInv, FetcherTypeOK, OneWorker, RequestIsAwaited, fetcherVars, managerVars, workerVars
<1>5. QueuesKept /\ status' = status
  BY <1>1 DEF QueuesKept, fetcherVars, repositoryVars
<1>6. DeployedIsBehind'
  BY <1>1 DEF FetcherInv, MainAdvancesAlong, DeployedIsBehind, fetcherVars, managerVars,
              Precedes, Behind
<1> QED BY <1>3, <1>4, <1>5, <1>6, QueuesKeptKeeps DEF FetcherInv

\* A process that starts: the queues are empty and the manager has evaluated nothing.
NothingUnderWay ==
    /\ pc = "idle"
    /\ remotes = {} /\ isFetching = FALSE /\ publishing = <<>>
    /\ \E c \in CommitId : repositoryStatus = NewGitRepositoryStatus(c)
    /\ publishCh = <<>> /\ brokerEvents = <<>>
    /\ evaluated = NewGitRepositoryStatus(None) /\ managerLoop = "select"
    /\ dropped = FALSE

LEMMA StartedInv == Inv /\ NothingUnderWay => FetcherInv
<1> SUFFICES ASSUME Inv, NothingUnderWay PROVE FetcherInv
  OBVIOUS
<1>1. /\ repositoryStatus \in Status /\ repositoryStatus.selected = None
      /\ evaluated \in Status /\ evaluated.selected = None /\ evaluated.main = None
  BY DEF NothingUnderWay, NewGitRepositoryStatus, Status
<1>2. FetcherTypeOK
  <2>1. <<>> \in Seq(FetchedEvents) /\ <<>> \in Seq(Events) /\ Len(<<>>) = 0
    OBVIOUS
  <2>2. 0 <= 1 /\ 0 <= PublishCapacity /\ 0 <= SubscriberCapacity
    BY CapacityAssumption
  <2> QED BY <1>1, <2>1, <2>2, Zenon DEF FetcherTypeOK, NothingUnderWay
<1>3. OneWorker /\ RequestIsAwaited
  BY DEF NothingUnderWay, OneWorker, RequestIsAwaited
<1>4. EventsAreReported /\ EvaluatedIsReported /\ LastUpdateIsLast
  BY <1>1 DEF NothingUnderWay, EventsAreReported, AllReported, EvaluatedIsReported,
              EvaluatesSigned, OnTopOfMain, LastUpdateIsLast
<1>5. MainAdvancesAlong /\ DeployedIsBehind
  BY <1>1 DEF NothingUnderWay, MainAdvancesAlong, DeployedIsBehind, AllAfter, AllBefore,
              Ordered, InOrder, Precedes
<1> QED BY <1>2, <1>3, <1>4, <1>5 DEF FetcherInv

LEMMA RestartAllKeeps ==
    ASSUME FetcherInv, RestartAll
    PROVE  FetcherInv'
<1>1. Inv'
  BY InvStep DEF FetcherInv, RestartAll, Next
<1>2. deployed' \in CommitId
  BY <1>1 DEF Inv, TypeOK
<1>3. NothingUnderWay'
  BY <1>2 DEF Restart, RestartAll, Started, NothingUnderWay, NewGitRepositoryStatus
<1> QED BY <1>1, <1>3, StartedInv, PTL

LEMMA FetcherInvInit == FetcherInit => FetcherInv
<1> SUFFICES ASSUME FetcherInit PROVE FetcherInv
  OBVIOUS
<1>1. Inv
  BY InvInit DEF FetcherInit
<1>2. NothingUnderWay
  BY DEF FetcherInit, Init, NothingUnderWay
<1> QED BY <1>1, <1>2, StartedInv

\* The invariant is inductive.
LEMMA FetcherInvStep == FetcherInv /\ [FetcherNext]_fvars => FetcherInv'
<1> SUFFICES ASSUME FetcherInv, [FetcherNext]_fvars PROVE FetcherInv'
  OBVIOUS
<1>1. CASE UNCHANGED fvars
  <2>1. UNCHANGED <<vars, fetcherVars, publishCh, brokerEvents, managerVars, dropped>>
    BY <1>1 DEF fvars
  <2>2. Inv' /\ OneWorker' /\ RequestIsAwaited' /\ UNCHANGED <<status, deployed>>
    BY <2>1, FetcherUnchanged
  <2>3. FetcherTypeOK' /\ QueuesKept
    BY <2>1 DEF FetcherInv, FetcherTypeOK, QueuesKept, fetcherVars, managerVars
  <2> QED BY <2>2, <2>3, QueuesKeptKeeps DEF FetcherInv
<1> QED
  BY <1>1, TriggerFetchKeeps, FetchWorkerKeeps, ReceiveStatusKeeps, PublishKeeps,
     PublishOtherKeeps, ForwardKeeps, ConsumeKeeps, EvalReturnsKeeps, DeployEvaluatedKeeps,
     RestartAllKeeps
  DEF FetcherNext

\* It holds in every reachable state of the fetcher, the broker and the manager.
LEMMA FetcherInvariant == FetcherSpec => []FetcherInv
BY FetcherInvInit, FetcherInvStep, PTL DEF FetcherSpec

-----------------------------------------------------------------------------
(* The theorems.                                                           *)

\* FetchAndUpdate is only called without a worker, and a worker that waits on rsCh is
\* awaited, for any interleaving of submissions, events and restarts.
THEOREM WorkerIsUnique == FetcherSpec => []OneWorker
<1>1. FetcherInv => OneWorker
  BY DEF FetcherInv
<1> QED BY <1>1, FetcherInvariant, PTL

\* No submitted remote is forgotten.
THEOREM NoRequestForgotten == FetcherSpec => []RequestIsAwaited
<1>1. FetcherInv => RequestIsAwaited
  BY DEF FetcherInv
<1> QED BY <1>1, FetcherInvariant, PTL

\* With keys configured only signed commits are evaluated, however long the event has
\* waited in channels of any capacity.
THEOREM OnlySignedIsEvaluated == FetcherSpec => []EvaluatesSigned
<1>1. FetcherInv => EvaluatesSigned
  BY DEF FetcherInv, EvaluatedIsReported
<1> QED BY <1>1, FetcherInvariant, PTL

\* "comin only evaluates commits signed by a configured commit-signing trust source"
\* (docs/howtos.md): the GPG keys or a line of the allowed signers file of the
\* configuration vouch for the commit that the manager evaluates.  The verdict is the
\* worker's, and the event has waited for the manager since.
OnlyVouchedIsEvaluated ==
    IsConfigured(Config) /\ evaluated.selected # None =>
        Vouched(Config, CommitObject(evaluated.selected))

THEOREM EvaluatedIsVouched == FetcherSpec => []OnlyVouchedIsEvaluated
<1>1. IsConfigured(Config) => Keys
  BY ConfiguredIsRequired, ConfigAssumption
<1>2. FetcherInv => OnlyVouchedIsEvaluated
  BY <1>1, SignedIsVouched
     DEF FetcherInv, EvaluatedIsReported, EvaluatesSigned, OnlyVouchedIsEvaluated
<1> QED BY <1>2, FetcherInvariant, PTL

\* "only allow testing branches on top of main branches" (docs/design.md): the commit that
\* the manager evaluates is on top of the main commit that it is evaluated with, although
\* the worker has moved its main commit on while the event waited.
THEOREM EvaluatedIsOnTopOfMain == FetcherSpec => []OnTopOfMain(evaluated)
<1>1. FetcherInv => OnTopOfMain(evaluated)
  BY DEF FetcherInv, EvaluatedIsReported
<1> QED BY <1>1, FetcherInvariant, PTL

\* A step of the fetcher is one of Repository, if it is not the deployment of what was
\* evaluated; that one does not change what the worker knows.
LEMMA RepositoryStep ==
    ASSUME FetcherInv, [FetcherNext]_fvars
    PROVE  [Next]_vars \/ UNCHANGED <<repositoryVars, workerVars>>
<1>1. ASSUME NEW submitted \in SUBSET Remotes, StartWorker(submitted), UNCHANGED deployed
      PROVE  [Next]_vars
  BY <1>1 DEF StartWorker, Next, vars
<1>2. CASE \E names \in Submission : TriggerFetch(names)
  <2>1. PICK names \in Submission : TriggerFetch(names)
    BY <1>2
  <2>2. remotes \union names \in SUBSET Remotes
    BY DEF FetcherInv, FetcherTypeOK, Submission
  <2> QED BY <1>1, <2>1, <2>2 DEF TriggerFetch
<1>3. CASE Publish
  BY <1>1, <1>3 DEF Publish, FetcherInv, FetcherTypeOK
<1>4. CASE FetchWorker \/ ReceiveStatus \/ RestartAll
  BY <1>4 DEF FetchWorker, ReceiveStatus, RestartAll, Next
<1>5. CASE DeployEvaluated
  BY <1>5 DEF DeployEvaluated, Deploy
<1>6. CASE PublishOther \/ Forward \/ Consume \/ EvalReturns \/ UNCHANGED fvars
  BY <1>6 DEF PublishOther, Forward, Consume, EvalReturns, fvars
<1> QED BY <1>2, <1>3, <1>4, <1>5, <1>6 DEF FetcherNext

\* The two loops of Update follow docs/design.md also when they run under the fetcher:
\* submissions, full channels and deployments come between their iterations.
THEOREM FetchedFollowsDesign == FetcherSpec => []DesignIsFollowed
<1>1. FetcherInit => LoopInv
  BY DEF FetcherInit, Init, LoopInv
<1>2. FetcherInv /\ LoopInv /\ [FetcherNext]_fvars => LoopInv'
  <2> SUFFICES ASSUME FetcherInv, LoopInv, [FetcherNext]_fvars PROVE LoopInv'
    OBVIOUS
  <2>1. CASE [Next]_vars
    BY <2>1, LoopStep DEF FetcherInv
  <2>2. CASE UNCHANGED <<repositoryVars, workerVars>>
    BY <2>2, LoopUnchanged
  <2> QED BY <2>1, <2>2, RepositoryStep
<1>3. FetcherInv /\ LoopInv => DesignIsFollowed
  BY DEF FetcherInv, Inv, ChosenIsLocal, LoopInv, DesignIsFollowed
<1> QED BY <1>1, <1>2, <1>3, FetcherInvariant, PTL DEF FetcherSpec

\* Unless the broker has dropped an event, the last verified update has been evaluated
\* or is under way.
THEOREM UpdateIsDelivered == FetcherSpec => []UpdateReachesManager
<1>1. FetcherInv => UpdateReachesManager
  <2> SUFFICES ASSUME FetcherInv, ~dropped, repositoryStatus.selected # None,
                      Verified(repositoryStatus), evaluated # repositoryStatus
               PROVE  \E e \in UnderWay : ToEvaluate(e) /\ e.status = repositoryStatus
    BY DEF UpdateReachesManager
  <2>1. CASE \E k \in DOMAIN publishing : LastAt(publishing, k)
    <3>1. PICK k \in DOMAIN publishing : LastAt(publishing, k)
      BY <2>1
    <3>2. k = 1 /\ publishing # <<>>
      BY <3>1 DEF FetcherInv, FetcherTypeOK
    <3>3. publishing[k] \in UnderWay
      BY <3>2 DEF UnderWay
    <3> QED BY <3>1, <3>3 DEF LastAt
  <2>2. CASE \E k \in DOMAIN publishCh : LastAt(publishCh, k)
    <3>1. PICK k \in DOMAIN publishCh : LastAt(publishCh, k)
      BY <2>2
    <3>2. publishCh[k] \in UnderWay
      BY DEF UnderWay
    <3> QED BY <3>1, <3>2 DEF LastAt
  <2>3. CASE \E k \in DOMAIN brokerEvents : LastAt(brokerEvents, k)
    <3>1. PICK k \in DOMAIN brokerEvents : LastAt(brokerEvents, k)
      BY <2>3
    <3>2. brokerEvents[k] \in UnderWay
      BY DEF UnderWay
    <3> QED BY <3>1, <3>2 DEF LastAt
  <2> QED BY <2>1, <2>2, <2>3 DEF FetcherInv, LastUpdateIsLast
<1> QED BY <1>1, FetcherInvariant, PTL

\* Between two evaluations of a process the main commit never goes back.
THEOREM EvaluationsAdvance == FetcherSpec => EvaluatedMainAdvances
<1>1. FetcherInv /\ [FetcherNext]_fvars =>
        [evaluated.main # None /\ evaluated'.selected # None =>
            Behind(evaluated.main, evaluated'.main)]_evaluated
  <2> SUFFICES ASSUME FetcherInv, [FetcherNext]_fvars, evaluated' # evaluated,
                      evaluated.main # None, evaluated'.selected # None
               PROVE  Behind(evaluated.main, evaluated'.main)
    OBVIOUS
  <2>1. CASE Consume
    <3>1. /\ brokerEvents # <<>> /\ ToEvaluate(Head(brokerEvents))
          /\ evaluated' = Head(brokerEvents).status
      BY <2>1 DEF Consume, managerVars
    <3>2. Head(brokerEvents) = brokerEvents[1] /\ 1 \in DOMAIN brokerEvents
      BY <3>1, TailIsTail DEF FetcherInv, FetcherTypeOK
    <3> QED
      BY <3>1, <3>2 DEF FetcherInv, MainAdvancesAlong, AllAfter, ToEvaluate, Precedes
  <2>2. CASE RestartAll
    BY <2>2 DEF RestartAll, Started, NewGitRepositoryStatus
  <2> QED
    BY <2>1, <2>2 DEF FetcherNext, TriggerFetch, FetchWorker, ReceiveStatus, Publish,
       PublishOther, Forward, EvalReturns, DeployEvaluated, fvars, managerVars
<1> QED BY <1>1, FetcherInvariant, PTL DEF FetcherSpec, EvaluatedMainAdvances

\* The main commits of successive deployments follow the line of history although a
\* deployment takes place after the status of its event has been replaced, events are
\* dropped and the process is restarted, as long as the restart finds the last deployment
\* in the store.
THEOREM DeploymentsAdvance == FetcherSpec => DeployedMainAdvances
<1>1. FetcherInv /\ [FetcherNext]_fvars =>
        [\/ Restart /\ (deployed' = None \/ ClockStepsBack)
         \/ deployed # None => deployed' # None /\ Behind(deployed, deployed')]_deployed
  <2> SUFFICES ASSUME FetcherInv, [FetcherNext]_fvars, deployed' # deployed, deployed # None,
                      ~Restart
               PROVE  deployed' # None /\ Behind(deployed, deployed')
    BY RestartRemembers
  <2>1. CASE DeployEvaluated
    BY <2>1 DEF DeployEvaluated, Deploy, FetcherInv, DeployedIsBehind, Precedes
  <2> QED
    BY <2>1 DEF FetcherNext, TriggerFetch, FetchWorker, ReceiveStatus, Publish, PublishOther,
       Forward, Consume, EvalReturns, RestartAll, Worker, Fetch, UpdateMain,
       UpdateTesting, UpdateSelected, fvars, vars
<1> QED BY <1>1, FetcherInvariant, PTL DEF FetcherSpec, DeployedMainAdvances

=============================================================================
