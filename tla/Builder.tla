------------------------------ MODULE Builder ------------------------------
(***************************************************************************)
(* The builder of comin (internal/builder/builder.go, exec.go) with the    *)
(* generations of the store (internal/store/generation.go).                *)
(*                                                                         *)
(* The manager's event loop calls Eval and SubmitBuild and receives from   *)
(* EvaluationDone and BuildDone; the gRPC handlers call Suspend and        *)
(* Resume.  An evaluation and a build each consist of two goroutines: the  *)
(* runner, started by Exec.Start, which runs the command and announces its *)
(* end on Exec.done without blocking; and the waiter, which waits for that *)
(* announcement and then records the result.  b.mu is only held inside the *)
(* steps below.                                                            *)
(*                                                                         *)
(* s.persisted.Generations is appended to by NewGeneration without the     *)
(* store's lock: it reads the slice in one step and assigns it in another. *)
(*                                                                         *)
(* b.buildator is a struct that each build overwrites, while the           *)
(* goroutines of a build hold a pointer to it: they see the fields of the  *)
(* latest build.  The runners and waiters of builds are therefore indexed  *)
(* by a slot, and `latestBuild' tells whose channel, context and error the *)
(* struct holds.                                                           *)
(***************************************************************************)
EXTENDS Executor

CONSTANTS
    Generations,   \* the generations that NewGeneration creates, each once
    Clients,       \* the goroutines of the gRPC handlers
    Foreign,       \* those whose comin.machineId is the id of another machine
    Slots,         \* names for builds whose goroutines may overlap (a bound)
    None           \* an empty string, a nil pointer

ASSUME BuilderAssumption ==
    /\ None \notin Generations \union Slots
    /\ Foreign \subseteq Generations
    /\ Slots # {}

VARIABLES
    \* The generations of the store
    created,       \* the generations created so far (history)
    stored,        \* s.persisted.Generations
    evalStatus, buildStatus,
    BuildErr,      \* whether the generation has a build error
    last,          \* the generation that each marker points to, or None
    \* The fields of the Builder struct
    GenerationUuid, isEvaluating, isBuilding, isSuspended,
    EvaluationDone, BuildDone,   \* the content of the one-place channels, or None
    \* The evaluation: b.evaluator with its runner and waiter
    evalRun, evalCancelled, evalWait, evalGen,
    evalErr, evalPathExists,     \* what Run returned
    \* The builds: b.buildator with the runners and waiters
    latestBuild, buildStarted, buildatorErr,
    buildRun, buildCancelled, buildWait, buildChan, buildGen,
    \* The callers
    manager,       \* where the manager's loop is
    read,          \* the generations that NewGeneration has read
    evaluating,    \* the argument of the Eval that runs in the manager's loop
    toBuild,       \* the generation submitted to the build confirmer
    client,
    \* History
    realised,      \* generations whose out path was built or found in the Nix store
    deployable,    \* generations submitted to the deploy confirmer
    disturbed      \* a client has suspended the builder

storeVars == <<created, stored, evalStatus, buildStatus, BuildErr, last, realised>>
channelVars == <<EvaluationDone, BuildDone>>
evalVars == <<evalRun, evalCancelled, evalWait, evalGen, evalErr, evalPathExists>>
buildVars == <<latestBuild, buildStarted, buildatorErr, buildRun, buildCancelled,
               buildWait, buildChan, buildGen>>
managerVars == <<manager, read, evaluating, toBuild, deployable>>
clientVars == <<client, disturbed>>
vars == <<storeVars, GenerationUuid, isEvaluating, isBuilding, isSuspended, channelVars,
          evalVars, buildVars, managerVars, clientVars>>

\* The generations that the store remembers: lastEvalStarted, ...
Markers == {"EvalStarted", "EvalFinished", "BuildStarted", "BuildFinished"}

Opt(S) == S \union {None}

\* The types of the generations, of the fields of the Builder and of the goroutines.
TypeOK ==
    /\ created \subseteq Generations /\ stored \subseteq Generations
    /\ evalStatus \in [Generations -> {"init", "evaluating", "evaluated", "failed"}]
    /\ buildStatus \in [Generations -> {"init", "building", "built", "failed"}]
    /\ BuildErr \in [Generations -> BOOLEAN]
    /\ last \in [Markers -> Opt(Generations)]
    /\ GenerationUuid \in Opt(Generations)
    /\ isEvaluating \in BOOLEAN /\ isBuilding \in BOOLEAN /\ isSuspended \in BOOLEAN
    /\ EvaluationDone \in Opt(Generations) /\ BuildDone \in Opt(Generations)
    /\ evalRun \in BOOLEAN /\ evalCancelled \in BOOLEAN
    /\ evalWait \in {"off", "started", "receive", "blocked", "record"}
    /\ evalGen \in Opt(Generations)
    /\ evalErr \in BOOLEAN /\ evalPathExists \in BOOLEAN
    /\ latestBuild \in Opt(Slots) /\ buildStarted \in BOOLEAN /\ buildatorErr \in BOOLEAN
    /\ buildRun \in [Slots -> BOOLEAN] /\ buildCancelled \in [Slots -> BOOLEAN]
    /\ buildWait \in [Slots -> {"off", "started", "receive", "blocked", "record"}]
    /\ buildChan \in [Slots -> Opt(Slots)] /\ buildGen \in [Slots -> Opt(Generations)]
    /\ manager \in {"select", "append", "stopEval", "stopBuild", "clearBuilding", "startEval"}
    /\ evaluating \in Opt(Generations) /\ toBuild \in Opt(Generations)
    /\ read \subseteq Generations
    /\ client \in [Clients -> {"idle", "stopBuild", "clearBuilding", "setSuspended"}]
    /\ realised \subseteq Generations /\ deployable \subseteq Generations
    /\ disturbed \in BOOLEAN

Init ==
    /\ created = {} /\ stored = {}
    /\ evalStatus = [g \in Generations |-> "init"]
    /\ buildStatus = [g \in Generations |-> "init"]
    /\ BuildErr = [g \in Generations |-> FALSE]
    /\ last = [k \in Markers |-> None]
    /\ GenerationUuid = None
    /\ isEvaluating = FALSE /\ isBuilding = FALSE /\ isSuspended = FALSE
    /\ EvaluationDone = None /\ BuildDone = None
    /\ evalRun = FALSE /\ evalCancelled = FALSE /\ evalWait = "off" /\ evalGen = None
    /\ evalErr = FALSE /\ evalPathExists = FALSE
    /\ latestBuild = None /\ buildStarted = FALSE /\ buildatorErr = FALSE
    /\ buildRun = [s \in Slots |-> FALSE] /\ buildCancelled = [s \in Slots |-> FALSE]
    /\ buildWait = [s \in Slots |-> "off"] /\ buildChan = [s \in Slots |-> None]
    /\ buildGen = [s \in Slots |-> None]
    /\ manager = "select" /\ read = {} /\ evaluating = None /\ toBuild = None
    /\ client = [c \in Clients |-> "idle"]
    /\ realised = {} /\ deployable = {} /\ disturbed = FALSE

-----------------------------------------------------------------------------
(* The generations of the store.                                           *)

\* Mutant of Mark: the generation whose evaluation started last is not kept.
MarkForgetful(keys, g) ==
    /\ last' = [k \in Markers |-> IF k \in keys THEN g ELSE last[k]]
    /\ stored' = {h \in stored : \E k \in Markers \ {"EvalStarted"} : last'[k] = h}

\* The markers `keys' move to g, and generationsGC drops all but the marked
\* generations.
Mark(keys, g) ==
    /\ last' = [k \in Markers |-> IF k \in keys THEN g ELSE last[k]]
    /\ stored' = {h \in stored : \E k \in Markers : last'[k] = h}

\* GenerationEvalStarted, for a generation that is in the store.
GenerationEvalStarted(g) ==
    /\ evalStatus' = [evalStatus EXCEPT ![g] = "evaluating"]
    /\ Mark({"EvalStarted"}, g)
    /\ UNCHANGED <<created, buildStatus, BuildErr, realised>>

\* GenerationEvalFinished; and when the out path is already in the Nix store
\* GenerationBuildStart and GenerationBuildFinished.  Each reports an error, which
\* is only logged, for a generation that is not in the store.
GenerationEvalFinished(g) ==
    /\ IF g \in stored
       THEN /\ evalStatus' = [evalStatus EXCEPT ![g] = IF evalErr THEN "failed" ELSE "evaluated"]
            /\ buildStatus' = [buildStatus EXCEPT ![g] = IF evalPathExists THEN "built" ELSE @]
            /\ BuildErr' = [BuildErr EXCEPT ![g] = @ /\ ~evalPathExists]
            /\ Mark({"EvalFinished"} \union
                    (IF evalPathExists THEN {"BuildStarted", "BuildFinished"} ELSE {}), g)
       ELSE UNCHANGED <<evalStatus, buildStatus, BuildErr, last, stored>>
    /\ realised' = IF evalPathExists THEN realised \union {g} ELSE realised
    /\ UNCHANGED created

\* GenerationBuildStart, for a generation that is in the store.
GenerationBuildStart(g) ==
    /\ buildStatus' = [buildStatus EXCEPT ![g] = "building"]
    /\ Mark({"BuildStarted"}, g)
    /\ UNCHANGED <<created, evalStatus, BuildErr, realised>>

\* Mutant of GenerationBuildFinished: the error is only kept for display.
GenerationBuildFinishedAnyway(g, err) ==
    /\ IF g \in stored
       THEN /\ buildStatus' = [buildStatus EXCEPT ![g] = "built"]
            /\ Mark({"BuildFinished"}, g)
       ELSE UNCHANGED <<buildStatus, last, stored>>
    /\ UNCHANGED <<created, evalStatus, BuildErr, realised>>

GenerationBuildFinished(g, err) ==
    /\ IF g \in stored
       THEN /\ buildStatus' = [buildStatus EXCEPT ![g] = IF err THEN "failed" ELSE "built"]
            /\ BuildErr' = [BuildErr EXCEPT ![g] = err]
            /\ Mark({"BuildFinished"}, g)
       ELSE UNCHANGED <<buildStatus, BuildErr, last, stored>>
    /\ UNCHANGED <<created, evalStatus, realised>>

GenerationHasToBeBuilt(g) == evalStatus[g] = "evaluated" /\ buildStatus[g] # "built"

\* Mutant of Offer: the channel has a second place.
OfferMore(channel, g) == IF channel = None THEN g ELSE {channel, g}

\* A non-blocking send to a one-place channel.
Offer(channel, g) == IF channel = None THEN g ELSE channel

-----------------------------------------------------------------------------
(* Exec.                                                                   *)

\* b.evaluator.Stop()
StopEvaluator == evalCancelled' = (evalCancelled \/ evalRun)

\* b.buildator.Stop(): cancels the context of the latest build.
StopBuildator ==
    buildCancelled' = [s \in Slots |->
        buildCancelled[s] \/ (buildStarted /\ s = latestBuild)]

\* The runner of the evaluation ends: cancelled, timed out, failed or successful.
\* The out path may have been computed although an error is returned.
EvalEnds ==
    /\ evalRun
    /\ evalRun' = FALSE
    /\ \E r \in EvalResults(evalCancelled) :
        /\ evalErr' = r.err
        /\ evalPathExists' \in isStorePathExist(r.outPath)
    /\ evalWait' = IF evalWait = "blocked" THEN "record" ELSE evalWait
    /\ UNCHANGED <<storeVars, GenerationUuid, isEvaluating, isBuilding, isSuspended,
                   channelVars, evalCancelled, evalGen, buildVars, managerVars, clientVars>>

\* Wait reads started ...
EvalWaits ==
    /\ evalWait = "started"
    /\ evalWait' = IF evalRun THEN "receive" ELSE "record"
    /\ UNCHANGED <<storeVars, GenerationUuid, isEvaluating, isBuilding, isSuspended,
                   channelVars, evalRun, evalCancelled, evalGen, evalErr, evalPathExists,
                   buildVars, managerVars, clientVars>>

\* ... and, in a later step, begins to receive.
EvalBlocks ==
    /\ evalWait = "receive"
    /\ evalWait' = "blocked"
    /\ UNCHANGED <<storeVars, GenerationUuid, isEvaluating, isBuilding, isSuspended,
                   channelVars, evalRun, evalCancelled, evalGen, evalErr, evalPathExists,
                   buildVars, managerVars, clientVars>>

\* The runner of a build ends: it writes its error to b.buildator, clears started
\* and announces the end to whoever waits on the channel found there.
BuildEnds(s) ==
    /\ buildRun[s]
    /\ buildRun' = [buildRun EXCEPT ![s] = FALSE]
    /\ buildatorErr' \in {~ok : ok \in BuildResults(buildCancelled[s])}
    /\ buildStarted' = FALSE
    /\ LET waiting == {w \in Slots : buildWait[w] = "blocked" /\ buildChan[w] = latestBuild}
       IN  \/ /\ waiting = {}
              /\ UNCHANGED buildWait
           \/ \E w \in waiting : buildWait' = [buildWait EXCEPT ![w] = "record"]
    /\ realised' = IF buildatorErr' THEN realised ELSE realised \union {buildGen[s]}
    /\ UNCHANGED <<created, stored, evalStatus, buildStatus, BuildErr, last, GenerationUuid,
                   isEvaluating, isBuilding, isSuspended, channelVars, evalVars, latestBuild,
                   buildCancelled, buildChan, buildGen, managerVars, clientVars>>

BuildWaits(s) ==
    /\ buildWait[s] = "started"
    /\ buildWait' = [buildWait EXCEPT ![s] = IF buildStarted THEN "receive" ELSE "record"]
    /\ UNCHANGED <<storeVars, GenerationUuid, isEvaluating, isBuilding, isSuspended,
                   channelVars, evalVars, latestBuild, buildStarted, buildatorErr, buildRun,
                   buildCancelled, buildChan, buildGen, managerVars, clientVars>>

\* The channel is the one that the struct holds by now.
BuildBlocks(s) ==
    /\ buildWait[s] = "receive"
    /\ buildWait' = [buildWait EXCEPT ![s] = "blocked"]
    /\ buildChan' = [buildChan EXCEPT ![s] = latestBuild]
    /\ UNCHANGED <<storeVars, GenerationUuid, isEvaluating, isBuilding, isSuspended,
                   channelVars, evalVars, latestBuild, buildStarted, buildatorErr, buildRun,
                   buildCancelled, buildGen, managerVars, clientVars>>

-----------------------------------------------------------------------------
(* The waiters record the results.                                         *)

EvalRecords ==
    /\ evalWait = "record"
    /\ GenerationEvalFinished(evalGen)
    /\ isEvaluating' = FALSE
    /\ IF evalPathExists
       THEN BuildDone' = Offer(BuildDone, evalGen) /\ UNCHANGED EvaluationDone
       ELSE EvaluationDone' = Offer(EvaluationDone, evalGen) /\ UNCHANGED BuildDone
    /\ evalWait' = "off" /\ evalGen' = None /\ evalCancelled' = FALSE
    /\ evalErr' = FALSE /\ evalPathExists' = FALSE
    /\ UNCHANGED <<GenerationUuid, isBuilding, isSuspended, evalRun, buildVars,
                   managerVars, clientVars>>

BuildRecords(s) ==
    /\ buildWait[s] = "record"
    /\ GenerationBuildFinished(buildGen[s], buildatorErr)
    /\ isBuilding' = FALSE
    /\ BuildDone' = Offer(BuildDone, buildGen[s])
    /\ buildWait' = [buildWait EXCEPT ![s] = "off"]
    /\ buildChan' = [buildChan EXCEPT ![s] = None]
    /\ UNCHANGED <<GenerationUuid, isEvaluating, isSuspended, EvaluationDone, evalVars,
                   latestBuild, buildStarted, buildatorErr, buildRun, buildCancelled, buildGen,
                   managerVars, clientVars>>

-----------------------------------------------------------------------------
(* build, called with b.mu held by SubmitBuild and Resume.                 *)

\* Mutant of Buildable: a generation that is not the current one is built.
BuildableAny(g) ==
    /\ g \in stored
    /\ evalStatus[g] = "evaluated"
    /\ ~isBuilding
    /\ buildStatus[g] # "built"

Buildable(g) ==
    /\ GenerationUuid = None \/ g = GenerationUuid
    /\ g \in stored
    /\ evalStatus[g] = "evaluated"
    /\ ~isBuilding
    /\ buildStatus[g] # "built"

\* A slot of which no goroutine is left, and whose channel nobody waits on.
FreeSlots ==
    {s \in Slots : ~buildRun[s] /\ buildWait[s] = "off"
                   /\ \A w \in Slots : buildChan[w] # s}

build(g) ==
    /\ GenerationBuildStart(g)
    /\ isBuilding' = TRUE
    /\ \E s \in FreeSlots :
        /\ latestBuild' = s
        /\ buildRun' = [buildRun EXCEPT ![s] = TRUE]
        /\ buildCancelled' = [buildCancelled EXCEPT ![s] = FALSE]
        /\ buildWait' = [buildWait EXCEPT ![s] = "started"]
        /\ buildGen' = [buildGen EXCEPT ![s] = g]
    /\ buildStarted' = TRUE
    /\ buildatorErr' = FALSE
    /\ UNCHANGED buildChan

NoBuild == UNCHANGED <<storeVars, isBuilding, buildVars>>

-----------------------------------------------------------------------------
(* The manager's event loop.                                               *)

\* A fetched commit: NewGeneration reads the slice of generations ...
NewGeneration(g) ==
    /\ manager = "select" /\ g \notin created
    /\ created' = created \union {g}
    /\ read' = stored
    /\ evaluating' = g
    /\ manager' = "append"
    /\ UNCHANGED <<stored, evalStatus, buildStatus, BuildErr, last, realised, GenerationUuid,
                   isEvaluating, isBuilding, isSuspended, channelVars, evalVars, buildVars,
                   toBuild, deployable, clientVars>>

\* ... and assigns it with the new one; Eval begins with Stop.
Eval ==
    /\ manager = "append"
    /\ stored' = read \union {evaluating}
    /\ read' = {}
    /\ StopEvaluator
    /\ manager' = "stopEval"
    /\ UNCHANGED <<created, evalStatus, buildStatus, BuildErr, last, realised, GenerationUuid,
                   isEvaluating, isBuilding, isSuspended, channelVars, evalRun, evalWait,
                   evalGen, evalErr, evalPathExists, buildVars, evaluating, toBuild,
                   deployable, clientVars>>

\* Mutant of EvalStopped: evaluatorWg is not waited for.
EvalNotStopped ==
    /\ manager = "stopEval"
    /\ isEvaluating' = FALSE
    /\ StopBuildator
    /\ manager' = "stopBuild"
    /\ UNCHANGED <<storeVars, GenerationUuid, isBuilding, isSuspended, channelVars,
                   evalVars, latestBuild, buildStarted, buildatorErr, buildRun, buildWait,
                   buildChan, buildGen, read, evaluating, toBuild, deployable, clientVars>>

\* stopEval: evaluatorWg.Wait() has returned; stopBuild begins.
EvalStopped ==
    /\ manager = "stopEval" /\ evalWait = "off"
    /\ isEvaluating' = FALSE
    /\ StopBuildator
    /\ manager' = "stopBuild"
    /\ UNCHANGED <<storeVars, GenerationUuid, isBuilding, isSuspended, channelVars,
                   evalVars, latestBuild, buildStarted, buildatorErr, buildRun, buildWait,
                   buildChan, buildGen, read, evaluating, toBuild, deployable, clientVars>>

\* No waiter of a build is left: buildatorWg.Wait() returns.
BuildsWaitedFor == \A s \in Slots : buildWait[s] = "off"

BuildStopped ==
    /\ manager = "stopBuild" /\ BuildsWaitedFor
    /\ manager' = "clearBuilding"
    /\ UNCHANGED <<storeVars, GenerationUuid, isEvaluating, isBuilding, isSuspended,
                   channelVars, evalVars, buildVars, read, evaluating, toBuild, deployable, clientVars>>

\* stopBuild ends, with b.mu held.
ClearBuilding ==
    /\ manager = "clearBuilding"
    /\ isBuilding' = FALSE
    /\ manager' = "startEval"
    /\ UNCHANGED <<storeVars, GenerationUuid, isEvaluating, isSuspended, channelVars,
                   evalVars, buildVars, read, evaluating, toBuild, deployable, clientVars>>

\* The rest of Eval, with b.mu held; it returns early when the generation is not
\* in the store.
StartEval ==
    /\ manager = "startEval"
    /\ isEvaluating' = TRUE
    /\ \/ /\ evaluating \in stored
          /\ GenerationEvalStarted(evaluating)
          /\ GenerationUuid' = evaluating
          /\ evalRun' = TRUE /\ evalWait' = "started" /\ evalGen' = evaluating
       \/ /\ evaluating \notin stored
          /\ UNCHANGED <<storeVars, GenerationUuid, evalRun, evalWait, evalGen>>
    /\ manager' = "select" /\ evaluating' = None
    /\ UNCHANGED <<isBuilding, isSuspended, channelVars, evalCancelled, evalErr,
                   evalPathExists, buildVars, read, toBuild, deployable, clientVars>>

\* An evaluation is announced; the generation is submitted to the build confirmer
\* if it is found, has no error and is for this machine.
ReceiveEvaluationDone ==
    /\ manager = "select" /\ EvaluationDone # None
    /\ EvaluationDone' = None
    /\ LET g == EvaluationDone
       IN  toBuild' = IF g \in stored /\ evalStatus[g] # "failed" /\ g \notin Foreign
                      THEN g ELSE toBuild
    /\ UNCHANGED <<storeVars, GenerationUuid, isEvaluating, isBuilding, isSuspended,
                   BuildDone, evalVars, buildVars, manager, read, evaluating, deployable, clientVars>>

\* SubmitBuild, for a generation that the build confirmer has confirmed.
SubmitBuild ==
    /\ manager = "select" /\ toBuild # None
    /\ toBuild' = None
    /\ IF ~isSuspended /\ Buildable(toBuild) THEN build(toBuild) ELSE NoBuild
    /\ UNCHANGED <<GenerationUuid, isEvaluating, isSuspended, channelVars, evalVars,
                   manager, read, evaluating, deployable, clientVars>>

\* A build is announced; the generation is submitted to the deploy confirmer if it
\* is found, has no error and is not deployed already.
ReceiveBuildDone ==
    /\ manager = "select" /\ BuildDone # None
    /\ BuildDone' = None
    /\ \/ /\ BuildDone \in stored /\ ~BuildErr[BuildDone]
          /\ deployable' = deployable \union {BuildDone}
       \/ UNCHANGED deployable
    /\ UNCHANGED <<storeVars, GenerationUuid, isEvaluating, isBuilding, isSuspended,
                   EvaluationDone, evalVars, buildVars, manager, read, evaluating, toBuild,
                   clientVars>>

-----------------------------------------------------------------------------
(* The gRPC handlers.                                                      *)

\* Suspend begins with stopBuild.
Suspend(c) ==
    /\ client[c] = "idle" /\ ~isSuspended
    /\ StopBuildator
    /\ client' = [client EXCEPT ![c] = "stopBuild"]
    /\ disturbed' = TRUE
    /\ UNCHANGED <<storeVars, GenerationUuid, isEvaluating, isBuilding, isSuspended,
                   channelVars, evalVars, latestBuild, buildStarted, buildatorErr, buildRun,
                   buildWait, buildChan, buildGen, managerVars>>

SuspendBuildStopped(c) ==
    /\ client[c] = "stopBuild" /\ BuildsWaitedFor
    /\ client' = [client EXCEPT ![c] = "clearBuilding"]
    /\ UNCHANGED <<storeVars, GenerationUuid, isEvaluating, isBuilding, isSuspended,
                   channelVars, evalVars, buildVars, managerVars, disturbed>>

SuspendClearBuilding(c) ==
    /\ client[c] = "clearBuilding"
    /\ isBuilding' = FALSE
    /\ client' = [client EXCEPT ![c] = "setSuspended"]
    /\ UNCHANGED <<storeVars, GenerationUuid, isEvaluating, isSuspended, channelVars,
                   evalVars, buildVars, managerVars, disturbed>>

SuspendSet(c) ==
    /\ client[c] = "setSuspended"
    /\ isSuspended' = TRUE
    /\ client' = [client EXCEPT ![c] = "idle"]
    /\ UNCHANGED <<storeVars, GenerationUuid, isEvaluating, isBuilding, channelVars,
                   evalVars, buildVars, managerVars, disturbed>>

\* Resume, with b.mu held.
Resume(c) ==
    /\ client[c] = "idle" /\ isSuspended
    /\ isSuspended' = FALSE
    /\ IF /\ GenerationUuid \in stored
          /\ GenerationHasToBeBuilt(GenerationUuid)
          /\ Buildable(GenerationUuid)
       THEN build(GenerationUuid)
       ELSE NoBuild
    /\ UNCHANGED <<GenerationUuid, isEvaluating, channelVars, evalVars, managerVars, clientVars>>

-----------------------------------------------------------------------------
Manager ==
    \/ Eval \/ EvalStopped \/ BuildStopped \/ ClearBuilding \/ StartEval
    \/ ReceiveEvaluationDone \/ SubmitBuild \/ ReceiveBuildDone

Tasks ==
    \/ EvalEnds \/ EvalWaits \/ EvalBlocks \/ EvalRecords
    \/ \E s \in Slots : BuildEnds(s) \/ BuildWaits(s) \/ BuildBlocks(s) \/ BuildRecords(s)

Suspending(c) == SuspendBuildStopped(c) \/ SuspendClearBuilding(c) \/ SuspendSet(c)

Next ==
    \/ \E g \in Generations : NewGeneration(g)
    \/ Manager
    \/ Tasks
    \/ \E c \in Clients : Suspend(c) \/ Suspending(c) \/ Resume(c)

Spec == Init /\ [][Next]_vars

-----------------------------------------------------------------------------
(* Properties that hold.                                                   *)

\* The generation that the builder manages is never collected, whichever way the
\* unlocked append of NewGeneration and the collections interleave: Resume and State
\* always find it (an error would leave the manager suspended for good while the
\* builder is not).
CurrentIsStored == GenerationUuid # None => GenerationUuid \in stored

\* An evaluation only starts when the previous one has ended and has been recorded,
\* whatever Suspend and Resume do meanwhile: b.evaluator is not overwritten while
\* its goroutines use it.
EvaluationsDoNotOverlap ==
    [][evalGen' \notin {evalGen, None} => evalGen = None /\ ~evalRun]_vars

\* "The builder only runs a single task": as long as nobody has suspended the builder,
\* at most one command runs, of an evaluation or of a build.
SingleTask ==
    ~disturbed =>
        /\ evalRun => \A s \in Slots : ~buildRun[s]
        /\ \A s, t \in Slots : buildRun[s] /\ buildRun[t] => s = t

\* As long as nobody has suspended the builder, a generation is only submitted for
\* deployment when its out path exists: no cancelled, failed or overtaken build is
\* taken for a success.
DeploysBuilt == ~disturbed => deployable \subseteq realised

-----------------------------------------------------------------------------
(* A statement of the documentation that the code does not keep.           *)

\* "If a new commit is submitted for evaluation, a current running evaluation or
\* build is stopped": and the new commit is then evaluated, so that its generation
\* is still in the store when the others have been stopped.
NewCommitIsEvaluated == manager = "startEval" => evaluating \in stored

=============================================================================
