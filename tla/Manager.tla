------------------------------ MODULE Manager ------------------------------
(***************************************************************************)
(* The manager's event loop (FetchAndBuild in internal/manager/manager.go) *)
(* with what it connects: the builder, the two confirmers and the          *)
(* deployer.  All its channels are unbuffered or have one place, and the   *)
(* loop does one thing at a time: while it waits for the builder to stop   *)
(* or for a confirmer to receive, it receives nothing itself.              *)
(*                                                                         *)
(* The confirmers are what Confirmer is shown to implement, the module     *)
(* Slot.  The builder is reduced to its tasks: the goroutines of a task    *)
(* and its cancellation are in Builder, and a task ends here in one step.  *)
(* The callers of the builder make the steps that they make there, each    *)
(* with b.mu held: while Eval or Suspend stops the builds, others may      *)
(* start one, so that builds may overlap.  These share b.buildator, so     *)
(* that a build may end with the result of another.  Of the deployer       *)
(* (module Deployer) there is the generation that the runner takes next,   *)
(* and whether it equals an earlier deployment is left open.  A generation *)
(* is its number.                                                          *)
(***************************************************************************)
EXTENDS Naturals

CONSTANTS
    MaxGenerations,   \* a bound: the commits that are evaluated
    Foreign,          \* generations whose comin.machineId is the id of another machine
    Clients           \* the goroutines of the gRPC handlers that suspend and resume

ASSUME ManagerAssumption == MaxGenerations \in Nat /\ Foreign \subseteq 1..MaxGenerations

Uuids == 1..MaxGenerations
None == 0

VARIABLES
    created,                       \* the number of generations created
    stored, marked,                \* those in the store, and its four markers
    read,                          \* those that NewGeneration has read
    evalStatus, buildStatus, BuildErr,
    GenerationUuid, isSuspended,   \* of the builder
    isBuilding,
    evaluating,                    \* the generation whose evaluation runs, or None
    builds,                        \* how many builds of each generation are under way
    client,                        \* where the Suspend of each client is
    EvaluationDone, BuildDone,     \* the one-place channels, or None
    buildWaiting, buildOffered,    \* the build confirmer
    deployWaiting, deployOffered,  \* the deploy confirmer
    loop,                          \* where the loop is: "select", or what it waits for
    argument,                      \* the generation that it is about, or None
    GenerationToDeploy,            \* of the deployer
    deployed,                      \* the generation of the latest deployment
    latest,                        \* the one that DeploymentLatestSubmit has read, or None
    \* History
    handed,   \* the generation handed over last to the deployer
    fate      \* what ended the way of a generation: "none", "dropped", "skipped",
              \* "deployed" or "overwritten"

storeVars == <<stored, marked, evalStatus, buildStatus, BuildErr>>
channelVars == <<EvaluationDone, BuildDone>>
buildVars == <<isBuilding, builds>>
builderVars == <<storeVars, GenerationUuid, isSuspended, evaluating, buildVars, channelVars>>
buildConfirmerVars == <<buildWaiting, buildOffered>>
deployConfirmerVars == <<deployWaiting, deployOffered>>
loopVars == <<loop, argument, read>>
deployerVars == <<GenerationToDeploy, deployed, latest, handed>>
vars == <<created, builderVars, client, buildConfirmerVars, deployConfirmerVars, loopVars,
          deployerVars, fate>>

BuildConfirmer == INSTANCE Slot WITH waiting <- buildWaiting, offered <- buildOffered
DeployConfirmer == INSTANCE Slot WITH waiting <- deployWaiting, offered <- deployOffered

Markers == {"EvalStarted", "EvalFinished", "BuildStarted", "BuildFinished"}

Init ==
    /\ created = 0 /\ stored = {} /\ read = {} /\ marked = [k \in Markers |-> None]
    /\ evalStatus = [g \in Uuids |-> "init"] /\ buildStatus = [g \in Uuids |-> "init"]
    /\ BuildErr = [g \in Uuids |-> FALSE]
    /\ GenerationUuid = None /\ isSuspended = FALSE
    /\ isBuilding = FALSE /\ evaluating = None /\ builds = [g \in Uuids |-> 0]
    /\ client = [c \in Clients |-> "idle"]
    /\ EvaluationDone = None /\ BuildDone = None
    /\ BuildConfirmer!Init /\ DeployConfirmer!Init
    /\ loop = "select" /\ argument = None
    /\ GenerationToDeploy = None /\ deployed = None /\ latest = None /\ handed = None
    /\ fate = [g \in Uuids |-> "none"]

-----------------------------------------------------------------------------
(* The builder.                                                            *)

\* The markers `keys' move to g and generationsGC drops what is not marked.
Mark(keys, g) ==
    /\ marked' = [k \in Markers |-> IF k \in keys THEN g ELSE marked[k]]
    /\ stored' = {h \in stored : \E k \in Markers : marked'[k] = h}

\* The end of a task is announced, unless the channel is full.
Offer(channel, g) == IF channel = None THEN g ELSE channel
Fate(channel, g) ==
    IF channel \in {None, g} THEN fate ELSE [fate EXCEPT ![g] = "dropped"]

BuilderStep ==
    UNCHANGED <<created, buildConfirmerVars, deployConfirmerVars, loopVars, deployerVars>>

\* The end of an evaluation.  When the out path exists, an error notwithstanding, it
\* counts as a build.
EvalEnds(status, exists) ==
    LET g == evaluating
    IN  /\ evaluating # None
        /\ evaluating' = None
        /\ evalStatus' = [evalStatus EXCEPT ![g] = status]
        /\ \/ /\ exists
              /\ buildStatus' = [buildStatus EXCEPT ![g] = "built"]
              /\ BuildErr' = [BuildErr EXCEPT ![g] = FALSE]
              /\ Mark({"EvalFinished", "BuildStarted", "BuildFinished"}, g)
              /\ BuildDone' = Offer(BuildDone, g) /\ fate' = Fate(BuildDone, g)
              /\ UNCHANGED EvaluationDone
           \/ /\ ~exists
              /\ Mark({"EvalFinished"}, g)
              /\ EvaluationDone' = Offer(EvaluationDone, g) /\ fate' = Fate(EvaluationDone, g)
              /\ UNCHANGED <<buildStatus, BuildErr, BuildDone>>
        /\ UNCHANGED <<GenerationUuid, isSuspended, buildVars, client>>
        /\ BuilderStep

\* The end of a build, which is announced even when the generation has been collected.
BuildEnds(g, status) ==
    /\ builds[g] > 0
    /\ builds' = [builds EXCEPT ![g] = @ - 1]
    /\ isBuilding' = FALSE
    /\ \/ /\ g \in stored
          /\ buildStatus' = [buildStatus EXCEPT ![g] = status]
          /\ BuildErr' = [BuildErr EXCEPT ![g] = (status = "failed")]
          /\ Mark({"BuildFinished"}, g)
       \/ g \notin stored /\ UNCHANGED storeVars
    /\ BuildDone' = Offer(BuildDone, g) /\ fate' = Fate(BuildDone, g)
    /\ UNCHANGED <<evalStatus, GenerationUuid, isSuspended, evaluating, EvaluationDone, client>>
    /\ BuilderStep

\* build, which refuses a generation that is not the current one, that is not to be
\* built or that comes while another build is under way.
Build(g) ==
    \/ /\ g = GenerationUuid /\ g \in stored /\ evalStatus[g] = "evaluated"
       /\ ~isBuilding /\ buildStatus[g] # "built"
       /\ buildStatus' = [buildStatus EXCEPT ![g] = "building"]
       /\ Mark({"BuildStarted"}, g)
       /\ isBuilding' = TRUE
       /\ builds' = [builds EXCEPT ![g] = @ + 1]
       /\ fate' = [fate EXCEPT ![g] = "none"]
       /\ UNCHANGED <<evalStatus, BuildErr>>
    \/ /\ \/ g # GenerationUuid \/ g \notin stored \/ evalStatus[g] # "evaluated"
          \/ isBuilding \/ buildStatus[g] = "built"
       /\ UNCHANGED <<storeVars, buildVars, fate>>

\* No build is under way: buildatorWg.Wait() returns.
BuildsWaitedFor == \A g \in Uuids : builds[g] = 0

\* Suspend stops the builds ...
Suspend(c) ==
    /\ client[c] = "idle" /\ ~isSuspended
    /\ client' = [client EXCEPT ![c] = "stopBuild"]
    /\ UNCHANGED <<builderVars, fate>>
    /\ BuilderStep

\* ... waits for them ...
SuspendBuildStopped(c) ==
    /\ client[c] = "stopBuild" /\ BuildsWaitedFor
    /\ client' = [client EXCEPT ![c] = "clearBuilding"]
    /\ UNCHANGED <<builderVars, fate>>
    /\ BuilderStep

\* ... resets the flag, whatever runs by then ...
SuspendClearBuilding(c) ==
    /\ client[c] = "clearBuilding"
    /\ isBuilding' = FALSE
    /\ client' = [client EXCEPT ![c] = "setSuspended"]
    /\ UNCHANGED <<storeVars, GenerationUuid, isSuspended, evaluating, builds, channelVars, fate>>
    /\ BuilderStep

\* ... and suspends the builder.
SuspendSet(c) ==
    /\ client[c] = "setSuspended"
    /\ isSuspended' = TRUE
    /\ client' = [client EXCEPT ![c] = "idle"]
    /\ UNCHANGED <<storeVars, GenerationUuid, evaluating, buildVars, channelVars, fate>>
    /\ BuilderStep

Resume(c) ==
    /\ client[c] = "idle" /\ isSuspended
    /\ isSuspended' = FALSE
    /\ IF GenerationUuid = None THEN UNCHANGED <<storeVars, buildVars, fate>>
                                ELSE Build(GenerationUuid)
    /\ UNCHANGED <<GenerationUuid, evaluating, channelVars, client>>
    /\ BuilderStep

-----------------------------------------------------------------------------
(* The loop.                                                               *)

Goes(from, to, g) == loop = from /\ loop' = to /\ argument' = g

LoopStep == UNCHANGED <<client, buildConfirmerVars, deployConfirmerVars, deployerVars>>

\* Mutant of NewCommit: the generation may be the one of an earlier commit.
NewCommitAgain ==
    \E g \in 1..created + 1 :
        /\ g <= MaxGenerations
        /\ Goes("select", "append", g)
        /\ created' = IF g > created THEN g ELSE created
        /\ read' = stored
        /\ UNCHANGED <<builderVars, fate>>
        /\ LoopStep

\* A signed commit was fetched: NewGeneration reads the slice of generations ...
NewCommit ==
    /\ created < MaxGenerations
    /\ Goes("select", "append", created + 1)
    /\ created' = created + 1
    /\ read' = stored
    /\ UNCHANGED <<builderVars, fate>>
    /\ LoopStep

\* ... and assigns it with the new one; Eval begins with Stop.
NewGeneration ==
    /\ Goes("append", "stopEval", argument)
    /\ stored' = read \union {argument} /\ read' = {}
    /\ UNCHANGED <<created, marked, evalStatus, buildStatus, BuildErr, GenerationUuid,
                   isSuspended, evaluating, buildVars, channelVars, fate>>
    /\ LoopStep

\* The steps of Stop: the evaluation has ended, ...
EvalStopped ==
    /\ evaluating = None
    /\ Goes("stopEval", "stopBuild", argument)
    /\ UNCHANGED <<created, read, builderVars, fate>>
    /\ LoopStep

\* ... the builds have ended, ...
BuildStopped ==
    /\ BuildsWaitedFor
    /\ Goes("stopBuild", "clearBuilding", argument)
    /\ UNCHANGED <<created, read, builderVars, fate>>
    /\ LoopStep

\* ... and the flag is reset, with b.mu held.
ClearBuilding ==
    /\ Goes("clearBuilding", "startEval", argument)
    /\ isBuilding' = FALSE
    /\ UNCHANGED <<created, read, storeVars, GenerationUuid, isSuspended, evaluating, builds,
                   channelVars, fate>>
    /\ LoopStep

\* The rest of Eval, which returns early when the generation has been collected.
StartEval ==
    /\ Goes("startEval", "select", None)
    /\ \/ /\ argument \in stored
          /\ evalStatus' = [evalStatus EXCEPT ![argument] = "evaluating"]
          /\ Mark({"EvalStarted"}, argument)
          /\ GenerationUuid' = argument /\ evaluating' = argument
       \/ /\ argument \notin stored
          /\ UNCHANGED <<evalStatus, marked, stored, GenerationUuid, evaluating>>
    /\ UNCHANGED <<created, read, buildStatus, BuildErr, isSuspended, buildVars, channelVars, fate>>
    /\ LoopStep

ReceiveEvaluationDone ==
    LET g == EvaluationDone
    IN  /\ g # None
        /\ EvaluationDone' = None
        /\ IF g \in stored /\ evalStatus[g] # "failed" /\ g \notin Foreign
           THEN Goes("select", "submitBuild", g)
           ELSE Goes("select", "select", None)
        /\ UNCHANGED <<created, read, storeVars, GenerationUuid, isSuspended, evaluating,
                       buildVars, BuildDone, fate>>
        /\ LoopStep

\* The build confirmer receives the command.
BuildConfirmerSubmit ==
    /\ BuildConfirmer!Put(argument)
    /\ Goes("submitBuild", "select", None)
    /\ UNCHANGED <<created, read, builderVars, client, deployConfirmerVars, deployerVars, fate>>

\* SubmitBuild, which does nothing while the builder is suspended.
SubmitBuild ==
    /\ Goes("select", "select", None)
    /\ BuildConfirmer!Take
    /\ IF isSuspended THEN UNCHANGED <<storeVars, buildVars, fate>> ELSE Build(buildWaiting)
    /\ UNCHANGED <<created, read, GenerationUuid, isSuspended, evaluating, channelVars, client,
                   deployConfirmerVars, deployerVars>>

\* A generation that has no error, and is not already deployed, goes to the deploy
\* confirmer.
ReceiveBuildDone ==
    LET g == BuildDone
    IN  /\ g # None
        /\ BuildDone' = None
        /\ \/ /\ g \in stored /\ ~BuildErr[g]
              /\ \/ Goes("select", "submitDeploy", g) /\ UNCHANGED fate
                 \/ Goes("select", "select", None) /\ fate' = [fate EXCEPT ![g] = "skipped"]
           \/ /\ g \notin stored \/ BuildErr[g]
              /\ Goes("select", "select", None) /\ UNCHANGED fate
        /\ UNCHANGED <<created, read, storeVars, GenerationUuid, isSuspended, evaluating,
                       buildVars, EvaluationDone>>
        /\ LoopStep

\* The deploy confirmer receives the command.
DeployConfirmerSubmit ==
    /\ DeployConfirmer!Put(argument)
    /\ Goes("submitDeploy", "select", None)
    /\ UNCHANGED <<created, read, builderVars, client, buildConfirmerVars, deployerVars, fate>>

\* Deployer.Submit replaces the generation that the runner has not taken yet.
SubmitDeployment ==
    LET g == deployWaiting
    IN  /\ Goes("select", "select", None)
        /\ DeployConfirmer!Take
        /\ \/ /\ g \in stored
              /\ GenerationToDeploy' = g /\ handed' = g
              /\ UNCHANGED fate
           \/ /\ g \in stored
              /\ fate' = [fate EXCEPT ![g] = "skipped"]
              /\ UNCHANGED <<GenerationToDeploy, handed>>
           \/ /\ g \notin stored
              /\ UNCHANGED <<GenerationToDeploy, handed, fate>>
        /\ UNCHANGED <<created, read, builderVars, client, buildConfirmerVars, deployed, latest>>

-----------------------------------------------------------------------------
(* The others.                                                             *)

\* The user, by `comin confirmation accept', or the timer confirms a generation.
Confirm ==
    /\ \/ BuildConfirmer!Grant /\ UNCHANGED deployConfirmerVars
       \/ DeployConfirmer!Grant /\ UNCHANGED buildConfirmerVars
    /\ UNCHANGED <<created, builderVars, client, loopVars, deployerVars, fate>>

\* The deployer's runner takes the generation.
Deploy ==
    /\ GenerationToDeploy # None
    /\ GenerationToDeploy' = None /\ deployed' = GenerationToDeploy
    /\ fate' = [fate EXCEPT ![GenerationToDeploy] = "deployed"]
    /\ UNCHANGED <<created, builderVars, client, buildConfirmerVars, deployConfirmerVars, loopVars,
                   latest, handed>>

\* A handler reads the latest deployment in the store ...
DeploymentLatestSubmit ==
    /\ deployed # None /\ latest = None
    /\ latest' = deployed
    /\ UNCHANGED <<created, builderVars, client, buildConfirmerVars, deployConfirmerVars, loopVars,
                   GenerationToDeploy, deployed, handed, fate>>

\* ... and submits its generation again, by force.
ForceSubmit ==
    /\ latest # None
    /\ latest' = None
    /\ GenerationToDeploy' = latest
    /\ fate' = IF GenerationToDeploy \in {None, latest} THEN fate
               ELSE [fate EXCEPT ![GenerationToDeploy] = "overwritten"]
    /\ UNCHANGED <<created, builderVars, client, buildConfirmerVars, deployConfirmerVars, loopVars,
                   deployed, handed>>

Loop ==
    \/ NewCommit \/ NewGeneration \/ EvalStopped \/ BuildStopped \/ ClearBuilding \/ StartEval
    \/ ReceiveEvaluationDone \/ BuildConfirmerSubmit \/ SubmitBuild
    \/ ReceiveBuildDone \/ DeployConfirmerSubmit \/ SubmitDeployment

Tasks ==
    \/ \E status \in {"evaluated", "failed"}, exists \in BOOLEAN : EvalEnds(status, exists)
    \/ \E g \in Uuids, status \in {"built", "failed"} : BuildEnds(g, status)

Suspending(c) == SuspendBuildStopped(c) \/ SuspendClearBuilding(c) \/ SuspendSet(c)

Next ==
    \/ Loop
    \/ Tasks
    \/ \E c \in Clients : Suspend(c) \/ Suspending(c) \/ Resume(c)
    \/ Confirm
    \/ Deploy \/ DeploymentLatestSubmit \/ ForceSubmit

Spec == Init /\ [][Next]_vars

\* The loop runs, its random select takes each channel in the end, and the tasks end by
\* their timeouts.
FairSpec ==
    /\ Spec
    /\ WF_vars(Loop) /\ WF_vars(Tasks)
    /\ SF_vars(SubmitBuild) /\ SF_vars(SubmitDeployment)
    /\ SF_vars(BuildConfirmerSubmit) /\ SF_vars(DeployConfirmerSubmit)

-----------------------------------------------------------------------------
(* Properties that hold.                                                   *)

\* What is handed over to the deployer, a resubmission by the user aside, never goes
\* back to an older generation: no late build, waiting confirmation or announcement of
\* a preempted generation overtakes a newer one.
DeploysInOrder == [][handed' >= handed]_handed

\* The current generation is never forgotten on its way.  Once evaluated and to be
\* built on this machine, it is announced, submitted, waiting for a confirmation, or
\* left to Resume by a suspended builder; once built it is announced, submitted,
\* waiting or handed over; unless its announcement found the channel full or it was
\* overwritten by a resubmission, it is deployed, or skipped as already deployed.  Its
\* build is never refused for a build of the previous generation that a Resume has
\* started while Eval stopped the tasks: the start of that build has collected the new
\* generation, which then is not evaluated (NewCommitIsEvaluated in Builder).
NothingForgotten ==
    LET g == GenerationUuid
    IN  g # None /\ fate[g] = "none" =>
        /\ evalStatus[g] = "evaluated" /\ buildStatus[g] = "init" /\ g \notin Foreign =>
            \/ EvaluationDone = g \/ (loop = "submitBuild" /\ argument = g)
            \/ buildWaiting = g \/ isSuspended
        /\ buildStatus[g] = "built" =>
            \/ BuildDone = g \/ (loop = "submitDeploy" /\ argument = g)
            \/ deployWaiting = g \/ GenerationToDeploy = g

-----------------------------------------------------------------------------
(* A statement of the documentation that the code does not keep.           *)

\* "Once a generation has been confirmed, it is pushed to the submit channel": the
\* manager receives it in the end.
ConfirmedIsTaken == deployOffered ~> ~deployOffered

=============================================================================
