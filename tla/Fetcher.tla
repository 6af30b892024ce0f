------------------------------ MODULE Fetcher ------------------------------
(***************************************************************************)
(* The way of a commit from the repository to the manager: the scheduler   *)
(* and the clients submit remotes to the fetcher's loop (internal/         *)
(* fetcher), which runs at most one worker of the Repository at a time,    *)
(* compares what the worker reports with what it has reported before, and  *)
(* publishes an event.  The broker (internal/broker) forwards it to the    *)
(* manager's subscription, which has a bounded buffer: an event that finds *)
(* it full is dropped.  The manager evaluates updated and verified commits *)
(* and does not read its events while it is in Builder.Eval.               *)
(***************************************************************************)
EXTENDS Repository, Sequences

CONSTANTS
    PublishCapacity,     \* of publishCh; 1 in the code
    SubscriberCapacity   \* of a subscriber's channel; 5 in the code

ASSUME CapacityAssumption ==
    PublishCapacity \in Nat \ {0} /\ SubscriberCapacity \in Nat \ {0}

VARIABLES
    remotes,           \* the remotes submitted since the last worker was started
    isFetching,
    repositoryStatus,  \* the status of the last update that was published
    publishing,        \* the fetcher's loop: in its select, <<>>, or in Publish, <<event>>
    publishCh,
    brokerEvents,      \* the manager's subscription
    evaluated,         \* the status of the generation evaluated last
    managerLoop,       \* the manager's loop: "select" or "eval"
    dropped            \* history: a Fetched event was dropped

fetcherVars == <<remotes, isFetching, repositoryStatus, publishing>>
managerVars == <<evaluated, managerLoop>>
fvars == <<vars, fetcherVars, publishCh, brokerEvents, managerVars, dropped>>

\* The Fetched event, and any event that the manager ignores: the lines of a log,
\* the progress of evaluations, builds and deployments.
FetchedEvents == [status: Status, updated: BOOLEAN, verified: BOOLEAN]
Other == [type |-> "other"]
Events == FetchedEvents \union {Other}

\* NewGitFetcher starts from the status of the repository.
Started(mainCommitId) ==
    /\ remotes' = {} /\ isFetching' = FALSE /\ publishing' = <<>>
    /\ repositoryStatus' = NewGitRepositoryStatus(mainCommitId)
    /\ publishCh' = <<>> /\ brokerEvents' = <<>>
    /\ evaluated' = NewGitRepositoryStatus(None) /\ managerLoop' = "select"
    /\ dropped' = FALSE

FetcherInit ==
    /\ Init
    /\ remotes = {} /\ isFetching = FALSE /\ publishing = <<>>
    /\ repositoryStatus = NewGitRepositoryStatus(None)
    /\ publishCh = <<>> /\ brokerEvents = <<>>
    /\ evaluated = NewGitRepositoryStatus(None) /\ managerLoop = "select"
    /\ dropped = FALSE

-----------------------------------------------------------------------------
\* The end of an iteration of the loop: a worker is started for the remotes that
\* have been submitted, unless one is running.
StartWorker(submitted) ==
    IF ~isFetching /\ submitted # {}
      THEN /\ isFetching' = TRUE
           /\ FetchAndUpdate(submitted)
           /\ remotes' = {}
      ELSE /\ remotes' = submitted
           /\ UNCHANGED <<isFetching, repositoryVars, workerVars>>

\* TriggerFetch meets the loop on the unbuffered submitRemotes.
TriggerFetch(names) ==
    /\ publishing = <<>>
    /\ StartWorker(remotes \union names)
    /\ UNCHANGED <<deployed, repositoryStatus, publishing, publishCh, brokerEvents, managerVars,
                   dropped>>

\* GetValue of SelectedBranchIsTesting; nil is FALSE.
isTesting(s) == s.branch # None /\ s.branch[2] = "testing"

\* How the loop compares the worker's status with the last update.
Updated(rs) ==
    \/ rs.selected # repositoryStatus.selected
    \/ rs.branch # None /\ isTesting(rs) # isTesting(repositoryStatus)

\* The status is stored before it is compared.
ReceiveStatusStoresFirst ==
    /\ publishing = <<>>
    /\ Reply
    /\ isFetching' = FALSE
    /\ repositoryStatus' = status
    /\ publishing' = <<[status |-> status, updated |-> FALSE, verified |-> Verified(status)]>>
    /\ UNCHANGED <<deployed, remotes, publishCh, brokerEvents, managerVars, dropped>>

\* isFetching is not reset.
ReceiveStatusStillFetching ==
    /\ publishing = <<>>
    /\ Reply
    /\ repositoryStatus' = IF Updated(status) THEN status ELSE repositoryStatus
    /\ publishing' = <<[status |-> status, updated |-> Updated(status),
                       verified |-> Verified(status)]>>
    /\ UNCHANGED <<deployed, remotes, isFetching, publishCh, brokerEvents, managerVars, dropped>>

ReceiveStatus ==
    /\ publishing = <<>>
    /\ Reply
    /\ isFetching' = FALSE
    /\ repositoryStatus' = IF Updated(status) THEN status ELSE repositoryStatus
    /\ publishing' = <<[status |-> status, updated |-> Updated(status),
                       verified |-> Verified(status)]>>
    /\ UNCHANGED <<deployed, remotes, publishCh, brokerEvents, managerVars, dropped>>

\* The loop continues after an event without starting a worker.
PublishContinues ==
    /\ publishing # <<>>
    /\ Len(publishCh) < PublishCapacity
    /\ publishCh' = publishCh \o publishing
    /\ publishing' = <<>>
    /\ UNCHANGED <<vars, remotes, isFetching, repositoryStatus, brokerEvents, managerVars,
                   dropped>>

\* Publish blocks while publishCh is full; the iteration then ends.
Publish ==
    /\ publishing # <<>>
    /\ Len(publishCh) < PublishCapacity
    /\ publishCh' = publishCh \o publishing
    /\ publishing' = <<>>
    /\ StartWorker(remotes)
    /\ UNCHANGED <<deployed, repositoryStatus, brokerEvents, managerVars, dropped>>

\* Another goroutine publishes an event.
PublishOther ==
    /\ Len(publishCh) < PublishCapacity
    /\ publishCh' = Append(publishCh, Other)
    /\ UNCHANGED <<vars, fetcherVars, brokerEvents, managerVars, dropped>>

\* The broker forwards an event without blocking.
Forward ==
    /\ publishCh # <<>>
    /\ publishCh' = Tail(publishCh)
    /\ IF Len(brokerEvents) < SubscriberCapacity
         THEN brokerEvents' = Append(brokerEvents, Head(publishCh)) /\ UNCHANGED dropped
         ELSE /\ brokerEvents' = brokerEvents
              /\ dropped' = (dropped \/ Head(publishCh) # Other)
    /\ UNCHANGED <<vars, fetcherVars, managerVars>>

\* Unsigned commits are evaluated too.
ToEvaluateAny(e) == e # Other /\ e.updated

\* The manager takes an event: an updated and verified commit becomes a generation,
\* which Builder.Eval receives.
ToEvaluate(e) == e # Other /\ e.updated /\ e.verified

Consume ==
    /\ managerLoop = "select"
    /\ brokerEvents # <<>>
    /\ brokerEvents' = Tail(brokerEvents)
    /\ IF ToEvaluate(Head(brokerEvents))
         THEN evaluated' = Head(brokerEvents).status /\ managerLoop' = "eval"
         ELSE UNCHANGED managerVars
    /\ UNCHANGED <<vars, fetcherVars, publishCh, dropped>>

\* Builder.Eval has stopped the previous task and returns.
EvalReturns ==
    /\ managerLoop = "eval"
    /\ managerLoop' = "select"
    /\ UNCHANGED <<vars, fetcherVars, publishCh, brokerEvents, evaluated, dropped>>

\* The generation evaluated last is deployed.
DeployEvaluated ==
    /\ Deploy(evaluated)
    /\ UNCHANGED <<fetcherVars, publishCh, brokerEvents, managerVars, dropped>>

RestartAll == Restart /\ Started(deployed')

FetchWorker ==
    Worker /\ UNCHANGED <<fetcherVars, publishCh, brokerEvents, managerVars, dropped>>

\* The scheduler submits one remote, the server's Fetch all of them.
Submission == {{r} : r \in Remotes} \union {Remotes}

FetcherNext ==
    \/ \E names \in Submission : TriggerFetch(names)
    \/ FetchWorker \/ ReceiveStatus \/ Publish
    \/ PublishOther \/ Forward
    \/ Consume \/ EvalReturns
    \/ DeployEvaluated \/ RestartAll

FetcherSpec == FetcherInit /\ [][FetcherNext]_fvars

-----------------------------------------------------------------------------
(* Properties.                                                             *)

\* The events on their way to the manager, the one to be published included.
UnderWay ==
    {publishCh[i] : i \in DOMAIN publishCh} \union {brokerEvents[i] : i \in DOMAIN brokerEvents}
        \union (IF publishing = <<>> THEN {} ELSE {publishing[1]})

\* A commit is reported as updated only once.  Unless the broker has dropped such an
\* event, the last verified update has been evaluated or its event is under way.
UpdateReachesManager ==
    ~dropped /\ repositoryStatus.selected # None /\ Verified(repositoryStatus) =>
        \/ evaluated = repositoryStatus
        \/ \E e \in UnderWay : ToEvaluate(e) /\ e.status = repositoryStatus

\* With keys configured the manager only evaluates signed commits, although the
\* signature was checked for a status that the worker replaces while the event waits.
EvaluatesSigned == Keys /\ evaluated.selected # None => evaluated.selected \in Signed

\* The worker and isFetching agree: FetchAndUpdate is only called without a worker,
\* and a worker that waits on rsCh is always awaited.
OneWorker == isFetching <=> pc # "idle"

\* Evaluations follow the line of history of the main branches: no event overtakes
\* another between two evaluations of a process.
EvaluatedMainAdvances ==
    [][evaluated.main # None /\ evaluated'.selected # None =>
          Behind(evaluated.main, evaluated'.main)]_evaluated

\* No request is forgotten: remotes that were submitted and not given to a worker
\* wait for a worker that is running or for an iteration of the loop that has not
\* ended, each of which starts the next worker.
RequestIsAwaited == remotes # {} => isFetching \/ publishing # <<>>

=============================================================================
