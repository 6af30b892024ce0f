--------------------------- MODULE BuilderProofs ---------------------------
(***************************************************************************)
(* Proofs about Builder, for every set of generations, clients and builds: *)
(* the store of generations and the evaluator, the types, and the builds   *)
(* as long as no Suspend has interfered.                                   *)
(***************************************************************************)
EXTENDS Builder, TLAPS

\* The markers of the store point to generations that are in it, the current
\* generation is the one whose evaluation started last, and the slice that
\* NewGeneration has read misses none of the generations that are left.
StoreInv ==
    /\ stored \subseteq Generations /\ read \subseteq Generations
    /\ last \in [Markers -> Opt(Generations)]
    /\ \A k \in Markers : last[k] # None => last[k] \in stored
    /\ GenerationUuid = last["EvalStarted"]
    /\ manager = "append" => stored \subseteq read
    /\ manager # "select" => evaluating \in Generations

\* What moving markers to a generation of the store does: the markers still point
\* into the store, and nothing is added to it.
LEMMA MarkKeeps ==
    ASSUME StoreInv, NEW keys \in SUBSET Markers, NEW g \in stored, Mark(keys, g)
    PROVE  /\ last' \in [Markers -> Opt(Generations)]
           /\ \A k \in Markers : last'[k] # None => last'[k] \in stored'
           /\ \A k \in Markers : last'[k] = IF k \in keys THEN g ELSE last[k]
           /\ stored' \subseteq stored
<1>1. last' = [k \in Markers |-> IF k \in keys THEN g ELSE last[k]]
  BY DEF Mark
<1>2. stored' = {h \in stored : \E k \in Markers : last'[k] = h}
  BY DEF Mark
<1>3. \A k \in Markers : last'[k] = IF k \in keys THEN g ELSE last[k]
  BY <1>1
<1>4. last' \in [Markers -> Opt(Generations)]
  BY <1>1 DEF StoreInv, Opt
<1>5. \A k \in Markers : last'[k] # None => last'[k] \in stored'
  BY <1>2, <1>3 DEF StoreInv
<1> QED
  BY <1>2, <1>3, <1>4, <1>5

\* What StoreInv says of the store alone.
Kept ==
    /\ last' \in [Markers -> Opt(Generations)]
    /\ \A k \in Markers : last'[k] # None => last'[k] \in stored'
    /\ stored' \subseteq stored
    /\ last'["EvalStarted"] = last["EvalStarted"]

\* The end of an evaluation keeps the store well formed.
LEMMA EvalFinishedKeeps ==
    ASSUME StoreInv, NEW g, GenerationEvalFinished(g)
    PROVE  Kept
<1>1. CASE g \in stored
  <2> DEFINE keys == {"EvalFinished"} \union
                     (IF evalPathExists THEN {"BuildStarted", "BuildFinished"} ELSE {})
  <2>1. keys \in SUBSET Markers /\ "EvalStarted" \notin keys
    BY DEF Markers
  <2>2. Mark(keys, g)
    BY <1>1 DEF GenerationEvalFinished
  <2> QED
    BY <1>1, <2>1, <2>2, MarkKeeps DEF Kept, Markers
<1>2. CASE g \notin stored
  BY <1>2 DEF GenerationEvalFinished, StoreInv, Kept
<1> QED
  BY <1>1, <1>2

\* So does the end of a build,
LEMMA BuildFinishedKeeps ==
    ASSUME StoreInv, NEW g, NEW err, GenerationBuildFinished(g, err)
    PROVE  Kept
<1>1. CASE g \in stored
  <2>1. Mark({"BuildFinished"}, g)
    BY <1>1 DEF GenerationBuildFinished
  <2> QED
    BY <1>1, <2>1, MarkKeeps DEF Kept, Markers
<1>2. CASE g \notin stored
  BY <1>2 DEF GenerationBuildFinished, StoreInv, Kept
<1> QED
  BY <1>1, <1>2

\* and the start of one.
LEMMA BuildStartKeeps ==
    ASSUME StoreInv, NEW g \in stored, GenerationBuildStart(g)
    PROVE  Kept
<1>1. Mark({"BuildStarted"}, g)
  BY DEF GenerationBuildStart
<1> QED
  BY <1>1, MarkKeeps DEF Kept, Markers

\* A step that keeps the store well formed and leaves the manager alone preserves
\* StoreInv.
LEMMA KeptSuffices ==
    ASSUME StoreInv, Kept, UNCHANGED <<GenerationUuid, manager, read, evaluating>>
    PROVE  StoreInv'
  BY DEF StoreInv, Kept

\* Every step preserves StoreInv.
LEMMA StoreStep == StoreInv /\ [Next]_vars => StoreInv'
<1> SUFFICES ASSUME StoreInv, [Next]_vars PROVE StoreInv'
  OBVIOUS
<1>1. ASSUME UNCHANGED <<stored, last, GenerationUuid, manager, read, evaluating>>
      PROVE  StoreInv'
  BY <1>1 DEF StoreInv
<1>2. ASSUME NEW g \in Generations, NewGeneration(g) PROVE StoreInv'
  BY <1>2 DEF NewGeneration, StoreInv
<1>3. CASE Eval
  BY <1>3 DEF Eval, StoreInv
<1>4. CASE EvalStopped
  BY <1>4 DEF EvalStopped, StoreInv, storeVars
<1>5. CASE BuildStopped
  BY <1>5 DEF BuildStopped, StoreInv, storeVars
<1>6. CASE ClearBuilding
  BY <1>6 DEF ClearBuilding, StoreInv, storeVars
<1>7. CASE StartEval
  <2>1. CASE evaluating \in stored
    <3>1. Mark({"EvalStarted"}, evaluating) /\ GenerationUuid' = evaluating
      BY <1>7, <2>1 DEF StartEval, GenerationEvalStarted
    <3>2. manager' = "select" /\ read' = read
      BY <1>7 DEF StartEval
    <3>3. last'["EvalStarted"] = evaluating
      BY <2>1, <3>1, MarkKeeps DEF Markers
    <3> QED
      BY <2>1, <3>1, <3>2, <3>3, MarkKeeps DEF StoreInv, Markers
  <2>2. CASE evaluating \notin stored
    BY <1>7, <2>2 DEF StartEval, StoreInv, storeVars
  <2> QED
    BY <2>1, <2>2
<1>8. CASE ReceiveEvaluationDone
  BY <1>1, <1>8 DEF ReceiveEvaluationDone, storeVars
<1>9. CASE SubmitBuild
  <2>1. CASE NoBuild
    BY <1>1, <1>9, <2>1 DEF SubmitBuild, NoBuild, storeVars
  <2>2. CASE Buildable(toBuild) /\ build(toBuild)
    BY <1>9, <2>2, BuildStartKeeps, KeptSuffices DEF SubmitBuild, Buildable, build
  <2> QED
    BY <1>9, <2>1, <2>2 DEF SubmitBuild
<1>10. CASE ReceiveBuildDone
  BY <1>1, <1>10 DEF ReceiveBuildDone, storeVars
<1>11. CASE EvalEnds \/ EvalWaits \/ EvalBlocks
  BY <1>1, <1>11 DEF EvalEnds, EvalWaits, EvalBlocks, storeVars, managerVars
<1>12. CASE EvalRecords
  BY <1>12, EvalFinishedKeeps, KeptSuffices DEF EvalRecords, managerVars
<1>13. ASSUME NEW s \in Slots, BuildEnds(s) \/ BuildWaits(s) \/ BuildBlocks(s)
       PROVE  StoreInv'
  BY <1>1, <1>13 DEF BuildEnds, BuildWaits, BuildBlocks, storeVars, managerVars
<1>14. ASSUME NEW s \in Slots, BuildRecords(s) PROVE StoreInv'
  BY <1>14, BuildFinishedKeeps, KeptSuffices DEF BuildRecords, managerVars
<1>15. ASSUME NEW c \in Clients, Suspend(c) \/ Suspending(c) PROVE StoreInv'
  BY <1>1, <1>15 DEF Suspend, Suspending, SuspendBuildStopped, SuspendClearBuilding,
                     SuspendSet, storeVars, managerVars
<1>16. ASSUME NEW c \in Clients, Resume(c) PROVE StoreInv'
  <2>1. CASE NoBuild
    BY <1>1, <1>16, <2>1 DEF Resume, NoBuild, storeVars, managerVars
  <2>2. CASE Buildable(GenerationUuid) /\ build(GenerationUuid)
    BY <1>16, <2>2, BuildStartKeeps, KeptSuffices DEF Resume, Buildable, build, managerVars
  <2> QED
    BY <1>16, <2>1, <2>2 DEF Resume
<1>17. CASE UNCHANGED vars
  BY <1>1, <1>17 DEF vars, storeVars, managerVars
<1> QED
  BY <1>2, <1>3, <1>4, <1>5, <1>6, <1>7, <1>8, <1>9, <1>10, <1>11, <1>12, <1>13, <1>14,
     <1>15, <1>16, <1>17
     DEF Next, Manager, Tasks

\* StoreInv holds in every reachable state.
LEMMA StoreAlways == Spec => []StoreInv
<1>1. Init => StoreInv
  BY DEF Init, StoreInv, Opt, Markers
<1> QED
  BY <1>1, StoreStep, PTL DEF Spec

\* The current generation of the builder is always in the store.
THEOREM CurrentIsNeverCollected == Spec => []CurrentIsStored
<1>1. StoreInv => CurrentIsStored
  BY DEF StoreInv, CurrentIsStored, Markers
<1> QED
  BY <1>1, StoreAlways, PTL
-----------------------------------------------------------------------------
\* The waiter of an evaluation outlives its runner, and Eval goes on only when
\* the waiter is gone.
EvalInv ==
    /\ evalGen = None <=> evalWait = "off"
    /\ evalRun => evalWait \in {"started", "receive", "blocked"}
    /\ manager \in {"stopBuild", "clearBuilding", "startEval"} => evalWait = "off"

\* Every step preserves EvalInv, and starts an evaluation only when none is there.
LEMMA EvalStep ==
    ASSUME StoreInv, EvalInv, [Next]_vars
    PROVE  /\ EvalInv'
           /\ evalGen' \notin {evalGen, None} => evalGen = None /\ ~evalRun
<1> DEFINE Goal == /\ EvalInv'
                   /\ evalGen' \notin {evalGen, None} => evalGen = None /\ ~evalRun
<1> SUFFICES Goal
  OBVIOUS
<1>1. ASSUME UNCHANGED <<evalRun, evalWait, evalGen, manager>>
      PROVE  Goal
  BY <1>1 DEF EvalInv
<1>2. ASSUME NEW g \in Generations, NewGeneration(g) PROVE Goal
  BY <1>2 DEF NewGeneration, EvalInv, evalVars
<1>3. CASE Eval
  BY <1>3 DEF Eval, EvalInv
<1>4. CASE EvalStopped
  BY <1>4 DEF EvalStopped, EvalInv, evalVars
<1>5. CASE BuildStopped
  BY <1>5 DEF BuildStopped, EvalInv, evalVars
<1>6. CASE ClearBuilding
  BY <1>6 DEF ClearBuilding, EvalInv, evalVars
<1>7. CASE StartEval
  <2>1. evaluating # None
    BY <1>7, BuilderAssumption DEF StartEval, StoreInv
  <2> QED
    BY <1>7, <2>1 DEF StartEval, EvalInv
<1>8. CASE ReceiveEvaluationDone \/ SubmitBuild \/ ReceiveBuildDone
  BY <1>1, <1>8 DEF ReceiveEvaluationDone, SubmitBuild, ReceiveBuildDone, evalVars
<1>9. CASE EvalEnds
  BY <1>9 DEF EvalEnds, EvalInv, managerVars
<1>10. CASE EvalWaits
  BY <1>10 DEF EvalWaits, EvalInv, managerVars
<1>11. CASE EvalBlocks
  BY <1>11 DEF EvalBlocks, EvalInv, managerVars
<1>12. CASE EvalRecords
  BY <1>12 DEF EvalRecords, EvalInv, managerVars
<1>13. ASSUME NEW s \in Slots,
              BuildEnds(s) \/ BuildWaits(s) \/ BuildBlocks(s) \/ BuildRecords(s)
       PROVE  Goal
  BY <1>1, <1>13 DEF BuildEnds, BuildWaits, BuildBlocks, BuildRecords, evalVars, managerVars
<1>14. ASSUME NEW c \in Clients, Suspend(c) \/ Suspending(c) \/ Resume(c) PROVE Goal
  BY <1>1, <1>14 DEF Suspend, Suspending, SuspendBuildStopped, SuspendClearBuilding,
                     SuspendSet, Resume, evalVars, managerVars
<1>15. CASE UNCHANGED vars
  BY <1>1, <1>15 DEF vars, evalVars, managerVars
<1> QED
  BY <1>2, <1>3, <1>4, <1>5, <1>6, <1>7, <1>8, <1>9, <1>10, <1>11, <1>12, <1>13, <1>14,
     <1>15
     DEF Next, Manager, Tasks

\* EvalInv holds in every reachable state.
LEMMA EvalAlways == Spec => []EvalInv
<1>1. Init => EvalInv
  BY DEF Init, EvalInv
<1>2. StoreInv /\ EvalInv /\ [Next]_vars => EvalInv'
  BY EvalStep
<1> QED
  BY <1>1, <1>2, StoreAlways, PTL DEF Spec

\* Evaluations never overlap, however many clients suspend and resume the builder.
THEOREM EvaluationsAreSequential == Spec => EvaluationsDoNotOverlap
<1>1. StoreInv /\ EvalInv /\ [Next]_vars =>
        [evalGen' \notin {evalGen, None} => evalGen = None /\ ~evalRun]_vars
  BY EvalStep
<1> QED
  BY <1>1, StoreAlways, EvalAlways, PTL DEF Spec, EvaluationsDoNotOverlap

-----------------------------------------------------------------------------
(* The types.                                                              *)

\* Two steps both succeed or not.
LEMMA AndThenType ==
    ASSUME NEW first \in SUBSET BOOLEAN, NEW second \in SUBSET BOOLEAN
    PROVE  AndThen(first, second) \in SUBSET BOOLEAN
BY DEF AndThen

\* Whatever the type of the repository, an evaluation ends with or without an error and
\* with or without an out path, and a build succeeds or fails.
LEMMA ExecutorTypes ==
    ASSUME NEW cancelled \in BOOLEAN
    PROVE  /\ EvalResults(cancelled) \subseteq [err: BOOLEAN, outPath: BOOLEAN]
           /\ BuildResults(cancelled) \subseteq BOOLEAN
           /\ \A outPath \in BOOLEAN : isStorePathExist(outPath) \subseteq BOOLEAN
<1> DEFINE Results == [err: BOOLEAN, outPath: BOOLEAN]
<1>1. runNixCommand \subseteq BOOLEAN /\ runNixFlakeCommand \subseteq BOOLEAN
  BY DEF runNixCommand, runNixFlakeCommand
<1>2. \A e, o \in BOOLEAN : Result(e, o) \in Results
  BY DEF Result
<1>3. ASSUME NEW r \in Results, NEW e \in BOOLEAN PROVE [r EXCEPT !.err = e] \in Results
  BY <1>3
<1>4. showDerivationWithFlake \subseteq Results
  <2>1. parseDerivationWithFlake \subseteq Results /\ Result(TRUE, FALSE) \in Results
    BY <1>2 DEF parseDerivationWithFlake
  <2> QED BY <2>1 DEF showDerivationWithFlake
<1>5. getExpectedMachineId \subseteq BOOLEAN
  BY <1>1, AndThenType DEF getExpectedMachineId
<1>6. EvalWithFlake \subseteq Results
  <2>1. ASSUME NEW x \in EvalWithFlake PROVE x \in Results
    <3>1. PICK r \in showDerivationWithFlake :
            x \in IF r.err THEN {r} ELSE {[r EXCEPT !.err = ~ok] : ok \in getExpectedMachineId}
      BY <2>1 DEF EvalWithFlake
    <3>2. r \in Results
      BY <1>4
    <3>3. CASE r.err
      BY <3>1, <3>2, <3>3
    <3>4. CASE ~r.err
      <4>1. PICK ok \in getExpectedMachineId : x = [r EXCEPT !.err = ~ok]
        BY <3>1, <3>4
      <4>2. (~ok) \in BOOLEAN
        OBVIOUS
      <4> QED BY <1>3, <3>2, <4>1, <4>2
    <3> QED BY <3>3, <3>4
  <2> QED BY <2>1
<1>7. EvalWithNix \subseteq Results
  <2>1. showDerivationWithNix \subseteq Results
    <3>1. AndThen(runNixCommand, AndThen(runNixCommand, BOOLEAN)) \subseteq BOOLEAN
      BY <1>1, AndThenType
    <3>2. \A ok \in BOOLEAN : Result(~ok, ok) \in Results
      BY <1>2
    <3> QED BY <3>1, <3>2 DEF showDerivationWithNix
  <2>2. EvalWithNix \subseteq showDerivationWithNix \union {Result(TRUE, FALSE)}
    BY DEF EvalWithNix
  <2> QED BY <1>2, <2>1, <2>2
<1>8. EvalResults(cancelled) \subseteq Results
  <2>1. ASSUME NEW x \in EvalResults(cancelled) PROVE x \in Results
    <3>1. PICK r \in Evaluation, done \in ContextDone(cancelled) :
            x = [r EXCEPT !.err = r.err \/ done]
      BY <2>1 DEF EvalResults
    <3>2. r \in Results
      BY <1>6, <1>7 DEF Evaluation
    <3>3. (r.err \/ done) \in BOOLEAN
      OBVIOUS
    <3> QED BY <1>3, <3>1, <3>2, <3>3
  <2> QED BY <2>1
<1>9. BuildResults(cancelled) \subseteq BOOLEAN
  <2>1. ASSUME NEW x \in BuildResults(cancelled) PROVE x \in BOOLEAN
    <3>1. PICK ok \in BuildCommand, done \in ContextDone(cancelled) : x = (ok /\ ~done)
      BY <2>1 DEF BuildResults
    <3>2. (ok /\ ~done) \in BOOLEAN
      OBVIOUS
    <3> QED BY <3>1, <3>2
  <2> QED BY <2>1
<1>10. \A outPath \in BOOLEAN : isStorePathExist(outPath) \subseteq BOOLEAN
  BY DEF isStorePathExist
<1> QED BY <1>8, <1>9, <1>10

\* A runner of a build has a generation.
RunnerHasGeneration == \A s \in Slots : buildRun[s] => buildGen[s] \in Generations

TypeInv == TypeOK /\ RunnerHasGeneration

\* Moving markers keeps the types of the markers and of the slice.
LEMMA MarkType ==
    ASSUME TypeOK, NEW keys, NEW g \in Generations, Mark(keys, g)
    PROVE  last' \in [Markers -> Opt(Generations)] /\ stored' \subseteq Generations
BY DEF TypeOK, Mark, Opt

\* The types of the variables of the store.
StoreTypes ==
    /\ created \subseteq Generations /\ stored \subseteq Generations
    /\ evalStatus \in [Generations -> {"init", "evaluating", "evaluated", "failed"}]
    /\ buildStatus \in [Generations -> {"init", "building", "built", "failed"}]
    /\ BuildErr \in [Generations -> BOOLEAN]
    /\ last \in [Markers -> Opt(Generations)]
    /\ realised \subseteq Generations

LEMMA EvalStartedType ==
    ASSUME TypeOK, NEW g \in Generations, GenerationEvalStarted(g)
    PROVE  StoreTypes'
<1>1. last' \in [Markers -> Opt(Generations)] /\ stored' \subseteq Generations
  BY MarkType DEF GenerationEvalStarted
<1> QED BY <1>1 DEF GenerationEvalStarted, TypeOK, StoreTypes

LEMMA EvalFinishedType ==
    ASSUME TypeOK, NEW g \in Generations, GenerationEvalFinished(g)
    PROVE  StoreTypes'
<1>0. evalErr \in BOOLEAN /\ evalPathExists \in BOOLEAN
  BY DEF TypeOK
<1>1. realised' \subseteq Generations /\ created' \subseteq Generations
  BY DEF GenerationEvalFinished, TypeOK
<1>2. CASE g \in stored
  <2>1. last' \in [Markers -> Opt(Generations)] /\ stored' \subseteq Generations
    BY <1>2, MarkType DEF GenerationEvalFinished
  <2>2. BuildErr' \in [Generations -> BOOLEAN]
    BY <1>2 DEF GenerationEvalFinished, TypeOK
  <2>3. /\ evalStatus' \in [Generations -> {"init", "evaluating", "evaluated", "failed"}]
        /\ buildStatus' \in [Generations -> {"init", "building", "built", "failed"}]
    BY <1>2 DEF GenerationEvalFinished, TypeOK
  <2> QED BY <1>1, <2>1, <2>2, <2>3 DEF StoreTypes
<1>3. CASE g \notin stored
  BY <1>1, <1>3 DEF GenerationEvalFinished, TypeOK, StoreTypes
<1> QED BY <1>2, <1>3

LEMMA BuildStartType ==
    ASSUME TypeOK, NEW g \in Generations, GenerationBuildStart(g)
    PROVE  StoreTypes'
<1>1. last' \in [Markers -> Opt(Generations)] /\ stored' \subseteq Generations
  BY MarkType DEF GenerationBuildStart
<1> QED BY <1>1 DEF GenerationBuildStart, TypeOK, StoreTypes

LEMMA BuildFinishedType ==
    ASSUME TypeOK, NEW g, NEW err \in BOOLEAN, GenerationBuildFinished(g, err)
    PROVE  StoreTypes'
<1>1. CASE g \in stored
  <2>1. g \in Generations
    BY <1>1 DEF TypeOK
  <2>2. last' \in [Markers -> Opt(Generations)] /\ stored' \subseteq Generations
    BY <1>1, <2>1, MarkType DEF GenerationBuildFinished
  <2> QED BY <1>1, <2>1, <2>2 DEF GenerationBuildFinished, TypeOK, StoreTypes
<1>2. CASE g \notin stored
  BY <1>2 DEF GenerationBuildFinished, TypeOK, StoreTypes
<1> QED BY <1>1, <1>2

\* The types of what is not in the store.
TaskTypes ==
    /\ GenerationUuid \in Opt(Generations)
    /\ isEvaluating \in BOOLEAN /\ isBuilding \in BOOLEAN /\ isSuspended \in BOOLEAN
    /\ EvaluationDone \in Opt(Generations) /\ BuildDone \in Opt(Generations)
    /\ evalRun \in BOOLEAN /\ evalCancelled \in BOOLEAN
    /\ evalWait \in {"off", "started", "receive", "blocked", "record"}
    /\ evalGen \in Opt(Generations)
    /\ evalErr \in BOOLEAN /\ evalPathExists \in BOOLEAN
    /\ disturbed \in BOOLEAN

BuildTypes ==
    /\ latestBuild \in Opt(Slots) /\ buildStarted \in BOOLEAN /\ buildatorErr \in BOOLEAN
    /\ buildRun \in [Slots -> BOOLEAN] /\ buildCancelled \in [Slots -> BOOLEAN]
    /\ buildWait \in [Slots -> {"off", "started", "receive", "blocked", "record"}]
    /\ buildChan \in [Slots -> Opt(Slots)] /\ buildGen \in [Slots -> Opt(Generations)]
    /\ RunnerHasGeneration

CallerTypes ==
    /\ manager \in {"select", "append", "stopEval", "stopBuild", "clearBuilding", "startEval"}
    /\ evaluating \in Opt(Generations) /\ toBuild \in Opt(Generations)
    /\ read \subseteq Generations /\ deployable \subseteq Generations
    /\ client \in [Clients -> {"idle", "stopBuild", "clearBuilding", "setSuspended"}]

LEMMA TypeParts == TypeInv <=> StoreTypes /\ TaskTypes /\ BuildTypes /\ CallerTypes
BY DEF TypeInv, TypeOK, StoreTypes, TaskTypes, BuildTypes, CallerTypes

\* The parts of the state that a step leaves alone keep their types.
LEMMA TypesUnchanged ==
    /\ StoreTypes /\ UNCHANGED storeVars => StoreTypes'
    /\ BuildTypes /\ UNCHANGED buildVars => BuildTypes'
    /\ CallerTypes /\ UNCHANGED <<managerVars, client>> => CallerTypes'
    /\ TaskTypes /\ UNCHANGED <<GenerationUuid, isEvaluating, isBuilding, isSuspended,
                                channelVars, evalVars, disturbed>> => TaskTypes'
BY DEF StoreTypes, BuildTypes, CallerTypes, TaskTypes, storeVars, buildVars, managerVars,
       channelVars, evalVars, RunnerHasGeneration

\* Stop keeps the types of the builds.
LEMMA StopType ==
    ASSUME BuildTypes, StopBuildator,
           UNCHANGED <<latestBuild, buildStarted, buildatorErr, buildRun, buildWait, buildChan,
                       buildGen>>
    PROVE  BuildTypes'
BY DEF BuildTypes, StopBuildator, RunnerHasGeneration

\* So does the start of a build.
LEMMA BuildType ==
    ASSUME TypeInv, NEW g \in Generations, build(g)
    PROVE  StoreTypes' /\ BuildTypes' /\ isBuilding' \in BOOLEAN
<1>1. StoreTypes'
  BY BuildStartType DEF build, TypeInv
<1>2. PICK s \in FreeSlots :
        /\ latestBuild' = s
        /\ buildRun' = [buildRun EXCEPT ![s] = TRUE]
        /\ buildCancelled' = [buildCancelled EXCEPT ![s] = FALSE]
        /\ buildWait' = [buildWait EXCEPT ![s] = "started"]
        /\ buildGen' = [buildGen EXCEPT ![s] = g]
  BY DEF build
<1>3. s \in Slots
  BY DEF FreeSlots
<1>4. BuildTypes'
  BY <1>2, <1>3, TypeParts DEF build, BuildTypes, RunnerHasGeneration, Opt
<1> QED BY <1>1, <1>4 DEF build

\* So do steps that only write flags.
LEMMA FlagType ==
    ASSUME TaskTypes, isEvaluating' \in BOOLEAN, isBuilding' \in BOOLEAN, isSuspended' \in BOOLEAN,
           UNCHANGED <<GenerationUuid, channelVars, evalVars, disturbed>>
    PROVE  TaskTypes'
BY DEF TaskTypes, channelVars, evalVars

\* Every step preserves the types.
LEMMA TypeStep == StoreInv /\ EvalInv /\ TypeInv /\ [Next]_vars => TypeInv'
<1> SUFFICES ASSUME StoreInv, EvalInv, TypeInv, [Next]_vars PROVE TypeInv'
  OBVIOUS
<1>0. StoreTypes /\ TaskTypes /\ BuildTypes /\ CallerTypes
  BY TypeParts
<1> SUFFICES StoreTypes' /\ TaskTypes' /\ BuildTypes' /\ CallerTypes'
  BY TypeParts, PTL
<1> USE DEF Opt, channelVars, evalVars, managerVars, clientVars
<1> DEFINE Goal == StoreTypes' /\ TaskTypes' /\ BuildTypes' /\ CallerTypes'
<1>1. ASSUME NEW g \in Generations, NewGeneration(g) PROVE Goal
  BY <1>0, <1>1, TypesUnchanged DEF NewGeneration, StoreTypes, CallerTypes, TaskTypes
<1>2. CASE Eval
  <2>1. evaluating \in Generations
    BY <1>2 DEF Eval, StoreInv
  <2>2. StoreTypes' /\ CallerTypes' /\ TaskTypes'
    BY <1>0, <1>2, <2>1 DEF Eval, StopEvaluator, StoreTypes, CallerTypes, TaskTypes
  <2> QED BY <1>0, <1>2, <2>2, TypesUnchanged DEF Eval
<1>3. CASE EvalStopped
  <2>1. isEvaluating' \in BOOLEAN /\ isBuilding' \in BOOLEAN /\ isSuspended' \in BOOLEAN
    BY <1>0, <1>3 DEF EvalStopped, TaskTypes
  <2>2. TaskTypes'
    BY <1>0, <1>3, <2>1, FlagType DEF EvalStopped
  <2>3. CallerTypes'
    BY <1>0, <1>3 DEF EvalStopped, CallerTypes
  <2> QED BY <1>0, <1>3, <2>2, <2>3, TypesUnchanged, StopType DEF EvalStopped
<1>4. CASE BuildStopped
  BY <1>0, <1>4, TypesUnchanged DEF BuildStopped, CallerTypes
<1>5. CASE ClearBuilding
  <2>1. isEvaluating' \in BOOLEAN /\ isBuilding' \in BOOLEAN /\ isSuspended' \in BOOLEAN
    BY <1>0, <1>5 DEF ClearBuilding, TaskTypes
  <2>2. TaskTypes'
    BY <1>0, <1>5, <2>1, FlagType DEF ClearBuilding
  <2>3. CallerTypes'
    BY <1>0, <1>5 DEF ClearBuilding, CallerTypes
  <2> QED BY <1>0, <1>5, <2>2, <2>3, TypesUnchanged DEF ClearBuilding
<1>6. CASE StartEval
  <2>1. evaluating \in Generations
    BY <1>6 DEF StartEval, StoreInv
  <2>2. StoreTypes'
    BY <1>0, <1>6, <2>1, TypesUnchanged, EvalStartedType DEF StartEval, TypeInv
  <2>3. CallerTypes'
    BY <1>0, <1>6 DEF StartEval, CallerTypes
  <2>4. isEvaluating' \in BOOLEAN /\ isBuilding' \in BOOLEAN /\ isSuspended' \in BOOLEAN
    BY <1>0, <1>6 DEF StartEval, TaskTypes
  <2>5. evalRun' \in BOOLEAN
    BY <1>0, <1>6 DEF StartEval, TaskTypes
  <2>6. TaskTypes'
    BY <1>0, <1>6, <2>1, <2>4, <2>5 DEF StartEval, TaskTypes
  <2> QED BY <1>0, <1>6, <2>2, <2>3, <2>6, TypesUnchanged DEF StartEval
<1>7. CASE ReceiveEvaluationDone
  BY <1>0, <1>7, TypesUnchanged DEF ReceiveEvaluationDone, TaskTypes, CallerTypes
<1>8. CASE SubmitBuild
  <2>1. CallerTypes'
    BY <1>0, <1>8 DEF SubmitBuild, CallerTypes
  <2>2. CASE NoBuild
    BY <1>0, <1>8, <2>1, <2>2, TypesUnchanged DEF SubmitBuild, NoBuild, TaskTypes
  <2>3. CASE build(toBuild)
    <3>1. toBuild \in Generations
      BY <1>0, <1>8 DEF SubmitBuild, CallerTypes
    <3>2. StoreTypes' /\ BuildTypes' /\ isBuilding' \in BOOLEAN
      BY <2>3, <3>1, BuildType
    <3> QED BY <1>0, <1>8, <2>1, <3>2 DEF SubmitBuild, TaskTypes
  <2> QED BY <1>8, <2>2, <2>3 DEF SubmitBuild
<1>9. CASE ReceiveBuildDone
  BY <1>0, <1>9, TypesUnchanged DEF ReceiveBuildDone, TaskTypes, CallerTypes
<1>10. CASE EvalEnds
  <2>1. evalErr' \in BOOLEAN /\ evalPathExists' \in BOOLEAN
    <3>1. PICK r \in EvalResults(evalCancelled) :
            evalErr' = r.err /\ evalPathExists' \in isStorePathExist(r.outPath)
      BY <1>10 DEF EvalEnds
    <3>2. r \in [err: BOOLEAN, outPath: BOOLEAN]
      BY <1>0, ExecutorTypes DEF TaskTypes
    <3> QED BY <3>1, <3>2, ExecutorTypes
  <2> QED BY <1>0, <1>10, <2>1, TypesUnchanged DEF EvalEnds, TaskTypes
<1>11. CASE EvalWaits \/ EvalBlocks
  BY <1>0, <1>11, TypesUnchanged DEF EvalWaits, EvalBlocks, TaskTypes
<1>12. CASE EvalRecords
  <2>1. evalGen \in Generations
    BY <1>0, <1>12 DEF EvalRecords, EvalInv, TaskTypes
  <2>2. StoreTypes'
    BY <1>12, <2>1, EvalFinishedType DEF EvalRecords, TypeInv
  <2>3. TaskTypes'
    BY <1>0, <1>12, <2>1 DEF EvalRecords, TaskTypes, Offer
  <2> QED BY <1>0, <1>12, <2>2, <2>3, TypesUnchanged DEF EvalRecords
<1>13. ASSUME NEW s \in Slots, BuildEnds(s) PROVE Goal
  <2>1. buildatorErr' \in BOOLEAN
    BY <1>0, <1>13, ExecutorTypes DEF BuildEnds, BuildTypes
  <2>2. buildGen[s] \in Generations
    BY <1>0, <1>13 DEF BuildEnds, BuildTypes, RunnerHasGeneration
  <2>3. StoreTypes'
    BY <1>0, <1>13, <2>2 DEF BuildEnds, StoreTypes
  <2>4. BuildTypes'
    BY <1>0, <1>13, <2>1 DEF BuildEnds, BuildTypes, RunnerHasGeneration
  <2> QED BY <1>0, <1>13, <2>3, <2>4, TypesUnchanged DEF BuildEnds
<1>14. ASSUME NEW s \in Slots, BuildWaits(s) \/ BuildBlocks(s) PROVE Goal
  <2>1. BuildTypes'
    BY <1>0, <1>14 DEF BuildWaits, BuildBlocks, BuildTypes, RunnerHasGeneration
  <2> QED BY <1>0, <1>14, <2>1, TypesUnchanged DEF BuildWaits, BuildBlocks
<1>15. ASSUME NEW s \in Slots, BuildRecords(s) PROVE Goal
  <2>1. StoreTypes'
    BY <1>0, <1>15, BuildFinishedType DEF BuildRecords, TypeInv, BuildTypes
  <2>2. BuildTypes'
    BY <1>0, <1>15 DEF BuildRecords, BuildTypes, RunnerHasGeneration
  <2>3. isBuilding' \in BOOLEAN
    BY <1>15 DEF BuildRecords
  <2>4. BuildDone' \in Opt(Generations)
    BY <1>0, <1>15 DEF BuildRecords, BuildTypes, TaskTypes, Offer
  <2>5. TaskTypes'
    BY <1>0, <1>15, <2>3, <2>4 DEF BuildRecords, TaskTypes
  <2> QED BY <1>0, <1>15, <2>1, <2>2, <2>5, TypesUnchanged DEF BuildRecords
<1>16. ASSUME NEW c \in Clients, Suspend(c) PROVE Goal
  <2>1. TaskTypes' /\ CallerTypes'
    BY <1>0, <1>16 DEF Suspend, TaskTypes, CallerTypes
  <2> QED BY <1>0, <1>16, <2>1, TypesUnchanged, StopType DEF Suspend
<1>17. ASSUME NEW c \in Clients, Suspending(c) PROVE Goal
  <2> USE <1>17 DEF Suspending, SuspendBuildStopped, SuspendClearBuilding, SuspendSet
  <2>1. CallerTypes'
    BY <1>0 DEF CallerTypes
  <2>2. isEvaluating' \in BOOLEAN /\ isBuilding' \in BOOLEAN /\ isSuspended' \in BOOLEAN
    BY <1>0 DEF TaskTypes
  <2>3. TaskTypes'
    BY <1>0, <2>2, FlagType
  <2> QED BY <1>0, <2>1, <2>3, TypesUnchanged
<1>18. ASSUME NEW c \in Clients, Resume(c) PROVE Goal
  <2>1. CallerTypes'
    BY <1>0, <1>18, TypesUnchanged DEF Resume
  <2>2. CASE NoBuild
    <3>1. isEvaluating' \in BOOLEAN /\ isBuilding' \in BOOLEAN /\ isSuspended' \in BOOLEAN
      BY <1>0, <1>18, <2>2 DEF Resume, NoBuild, TaskTypes
    <3>2. TaskTypes'
      BY <1>0, <1>18, <3>1, FlagType DEF Resume
    <3> QED BY <1>0, <2>1, <2>2, <3>2, TypesUnchanged DEF NoBuild
  <2>3. CASE GenerationUuid \in stored /\ build(GenerationUuid)
    <3>1. GenerationUuid \in Generations
      BY <2>3 DEF StoreInv
    <3>2. StoreTypes' /\ BuildTypes' /\ isBuilding' \in BOOLEAN
      BY <2>3, <3>1, BuildType
    <3>3. isEvaluating' \in BOOLEAN /\ isSuspended' \in BOOLEAN
      BY <1>0, <1>18 DEF Resume, TaskTypes
    <3>4. TaskTypes'
      BY <1>0, <1>18, <3>2, <3>3, FlagType DEF Resume
    <3> QED BY <2>1, <3>2, <3>4
  <2> QED BY <1>18, <2>2, <2>3 DEF Resume
<1>19. CASE UNCHANGED vars
  BY <1>0, <1>19, TypesUnchanged DEF vars
<1> QED
  BY <1>1, <1>2, <1>3, <1>4, <1>5, <1>6, <1>7, <1>8, <1>9, <1>10, <1>11, <1>12, <1>13, <1>14,
     <1>15, <1>16, <1>17, <1>18, <1>19
     DEF Next, Manager, Tasks

\* TypeInv holds in every reachable state.
LEMMA TypeAlways == Spec => []TypeInv
<1>1. Init => TypeInv
  <2> SUFFICES ASSUME Init PROVE StoreTypes /\ TaskTypes /\ BuildTypes /\ CallerTypes
    BY TypeParts
  <2>1. StoreTypes
    BY DEF Init, StoreTypes, Opt
  <2>2. TaskTypes
    BY Zenon DEF Init, TaskTypes, Opt
  <2>3. BuildTypes
    BY DEF Init, BuildTypes, RunnerHasGeneration, Opt
  <2>4. CallerTypes
    BY DEF Init, CallerTypes, Opt
  <2> QED BY <2>1, <2>2, <2>3, <2>4
<1> QED
  BY <1>1, TypeStep, StoreAlways, EvalAlways, PTL DEF Spec

\* Every variable keeps its type: in particular the waiters only record generations, and
\* the channels only carry them.
THEOREM TypeCorrect == Spec => []TypeOK
BY TypeAlways, PTL DEF TypeInv

-----------------------------------------------------------------------------
(* An undisturbed builder.                                                 *)

\* Nobody suspends the builder.
Quiet == ~isSuspended /\ \A c \in Clients : client[c] = "idle"

\* The waiter of a build outlives its runner.
RunnerIsWaitedFor ==
    \A s \in Slots :
        buildRun[s] => buildWait[s] \in {"started", "receive", "blocked"} /\ buildStarted

\* A build that somebody waits for is the latest one, it excludes evaluations, its
\* generation is kept in the store, and once its runner has ended, b.buildator says so.
WaitedForIsLatest ==
    \A s \in Slots : buildWait[s] # "off" =>
        /\ s = latestBuild /\ isBuilding /\ evalWait = "off"
        /\ manager \notin {"clearBuilding", "startEval"}
        /\ last["BuildStarted"] = buildGen[s]
        /\ buildRun[s] \/ buildatorErr \/ buildGen[s] \in realised

\* The evaluation that somebody waits for is that of the current generation, which hence
\* cannot be built.
EvaluatesCurrent ==
    evalWait # "off" => evalGen = GenerationUuid /\ evalStatus[evalGen] = "evaluating"

\* What is announced as built either has an error or is in the Nix store.
AnnouncedIsBuilt == BuildDone # None => BuildErr[BuildDone] \/ BuildDone \in realised

TaskInv ==
    ~disturbed => /\ Quiet /\ RunnerIsWaitedFor /\ WaitedForIsLatest /\ EvaluatesCurrent
                  /\ AnnouncedIsBuilt /\ deployable \subseteq realised

\* A build only starts when there is neither a build nor an evaluation.
LEMMA BuildStartsAlone ==
    ASSUME EvalInv, WaitedForIsLatest, EvaluatesCurrent, RunnerIsWaitedFor,
           NEW g \in Generations, Buildable(g)
    PROVE  /\ evalWait = "off"
           /\ \A s \in Slots : buildWait[s] = "off" /\ ~buildRun[s]
<1>1. evalWait = "off"
  BY DEF EvalInv, EvaluatesCurrent, Buildable
<1>2. \A s \in Slots : buildWait[s] = "off"
  BY DEF WaitedForIsLatest, Buildable
<1> QED BY <1>1, <1>2 DEF RunnerIsWaitedFor

\* The start of a build keeps it the only task.
LEMMA BuildTask ==
    ASSUME StoreInv, EvalInv, TypeInv, RunnerIsWaitedFor, WaitedForIsLatest, EvaluatesCurrent,
           NEW g \in Generations, Buildable(g), build(g), manager = "select",
           UNCHANGED <<manager, evalVars>>
    PROVE  RunnerIsWaitedFor' /\ WaitedForIsLatest'
<1>1. PICK s \in FreeSlots :
        /\ latestBuild' = s
        /\ buildRun' = [buildRun EXCEPT ![s] = TRUE]
        /\ buildWait' = [buildWait EXCEPT ![s] = "started"]
        /\ buildGen' = [buildGen EXCEPT ![s] = g]
  BY DEF build
<1>2. s \in Slots
  BY DEF FreeSlots
<1>3. evalWait' = "off" /\ \A t \in Slots : buildWait[t] = "off" /\ ~buildRun[t]
  BY BuildStartsAlone DEF evalVars
<1>4. /\ buildRun \in [Slots -> BOOLEAN] /\ buildGen \in [Slots -> Opt(Generations)]
      /\ buildWait \in [Slots -> {"off", "started", "receive", "blocked", "record"}]
  BY DEF TypeInv, TypeOK
<1>5. /\ \A t \in Slots : buildWait'[t] = IF t = s THEN "started" ELSE "off"
      /\ buildGen'[s] = g /\ buildRun'[s]
      /\ \A t \in Slots : buildRun'[t] => t = s
  BY <1>1, <1>2, <1>3, <1>4
<1>6. last'["BuildStarted"] = g
  BY DEF build, GenerationBuildStart, Mark, Markers
<1>7. RunnerIsWaitedFor'
  BY <1>5 DEF RunnerIsWaitedFor, build
<1>8. WaitedForIsLatest'
  BY <1>1, <1>3, <1>5, <1>6 DEF WaitedForIsLatest, build
<1> QED BY <1>7, <1>8

\* Every step preserves TaskInv.
LEMMA TaskStep == StoreInv /\ EvalInv /\ TypeInv /\ TaskInv /\ [Next]_vars => TaskInv'
<1> SUFFICES ASSUME StoreInv, EvalInv, TypeInv, TaskInv, [Next]_vars, ~disturbed' PROVE
        /\ Quiet' /\ RunnerIsWaitedFor' /\ WaitedForIsLatest' /\ EvaluatesCurrent'
        /\ AnnouncedIsBuilt' /\ (deployable \subseteq realised)'
  BY DEF TaskInv
<1> DEFINE Goal ==
        /\ Quiet' /\ RunnerIsWaitedFor' /\ WaitedForIsLatest' /\ EvaluatesCurrent'
        /\ AnnouncedIsBuilt' /\ (deployable \subseteq realised)'
<1>T. StoreTypes /\ TaskTypes /\ BuildTypes /\ CallerTypes
  BY TypeParts
<1>D. ~disturbed
  <2>1. ASSUME NEW c \in Clients, Suspend(c) PROVE FALSE
    BY <2>1 DEF Suspend
  <2> QED BY <2>1 DEF Next, Manager, Tasks, NewGeneration, Eval, EvalStopped, BuildStopped,
        ClearBuilding, StartEval, ReceiveEvaluationDone, SubmitBuild, ReceiveBuildDone, EvalEnds,
        EvalWaits, EvalBlocks, EvalRecords, BuildEnds, BuildWaits, BuildBlocks, BuildRecords,
        Suspending, SuspendBuildStopped, SuspendClearBuilding, SuspendSet, Resume, clientVars, vars
<1>I. /\ Quiet /\ RunnerIsWaitedFor /\ WaitedForIsLatest /\ EvaluatesCurrent
      /\ AnnouncedIsBuilt /\ deployable \subseteq realised
  BY <1>D DEF TaskInv
<1> USE DEF channelVars, evalVars, managerVars, clientVars, storeVars, buildVars
<1>Q. UNCHANGED <<isSuspended, client>> => Quiet'
  BY <1>I DEF Quiet
<1>R. UNCHANGED <<buildRun, buildWait, buildStarted>> => RunnerIsWaitedFor'
  BY <1>I DEF RunnerIsWaitedFor
<1>W. /\ UNCHANGED <<buildRun, buildWait, latestBuild, last, buildGen, buildatorErr, realised>>
      /\ UNCHANGED isBuilding \/ manager = "clearBuilding"
      /\ UNCHANGED evalWait
      /\ \/ manager' \notin {"clearBuilding", "startEval"} \/ manager = "clearBuilding"
         \/ BuildsWaitedFor
      => WaitedForIsLatest'
  BY <1>I DEF WaitedForIsLatest, BuildsWaitedFor
<1>E. UNCHANGED <<evalWait, evalGen, GenerationUuid, evalStatus>> => EvaluatesCurrent'
  BY <1>I DEF EvaluatesCurrent
<1>A. UNCHANGED <<BuildDone, BuildErr>> /\ realised \subseteq realised' => AnnouncedIsBuilt'
  BY <1>I DEF AnnouncedIsBuilt
<1>1. ASSUME NEW g \in Generations, NewGeneration(g) PROVE Goal
  BY <1>1, <1>I, <1>Q, <1>R, <1>W, <1>E, <1>A DEF NewGeneration
<1>2. CASE Eval
  BY <1>2, <1>I, <1>Q, <1>R, <1>W, <1>E, <1>A DEF Eval
<1>3. CASE EvalStopped
  BY <1>3, <1>I, <1>Q, <1>R, <1>W, <1>E, <1>A DEF EvalStopped
<1>4. CASE BuildStopped
  BY <1>4, <1>I, <1>Q, <1>R, <1>W, <1>E, <1>A DEF BuildStopped
<1>5. CASE ClearBuilding
  BY <1>5, <1>I, <1>Q, <1>R, <1>W, <1>E, <1>A DEF ClearBuilding
<1>6. CASE StartEval
  <2>1. Quiet' /\ RunnerIsWaitedFor' /\ AnnouncedIsBuilt' /\ (deployable \subseteq realised)'
    BY <1>6, <1>I, <1>Q, <1>R, <1>A DEF StartEval, GenerationEvalStarted
  <2>2. \A s \in Slots : buildWait'[s] = "off"
    BY <1>6, <1>I DEF StartEval, WaitedForIsLatest
  <2>3. EvaluatesCurrent'
    <3>1. CASE evaluating \in stored
      <4>1. evaluating \in Generations /\ evalStatus'[evaluating] = "evaluating"
        BY <1>6, <1>T, <3>1 DEF StartEval, GenerationEvalStarted, StoreTypes
      <4> QED BY <1>6, <3>1, <4>1 DEF StartEval, EvaluatesCurrent
    <3>2. CASE evaluating \notin stored
      BY <1>6, <1>E, <3>2 DEF StartEval
    <3> QED BY <3>1, <3>2
  <2> QED BY <2>1, <2>2, <2>3 DEF WaitedForIsLatest
<1>7. CASE ReceiveEvaluationDone
  BY <1>7, <1>I, <1>Q, <1>R, <1>W, <1>E, <1>A DEF ReceiveEvaluationDone
<1>8. CASE SubmitBuild
  <2>1. CASE NoBuild
    BY <1>8, <2>1, <1>I, <1>Q, <1>R, <1>W, <1>E, <1>A DEF SubmitBuild, NoBuild
  <2>2. CASE Buildable(toBuild) /\ build(toBuild)
    <3>1. toBuild \in Generations
      BY <1>8, <1>T DEF SubmitBuild, CallerTypes, Opt
    <3>2. RunnerIsWaitedFor' /\ WaitedForIsLatest'
      BY <1>8, <1>I, <2>2, <3>1, BuildTask DEF SubmitBuild
    <3> QED BY <1>8, <1>I, <2>2, <3>2, <1>Q, <1>E, <1>A DEF SubmitBuild, build, GenerationBuildStart
  <2> QED BY <1>8, <2>1, <2>2 DEF SubmitBuild
<1>9. CASE ReceiveBuildDone
  <2>1. (deployable \subseteq realised)'
    BY <1>9, <1>I DEF ReceiveBuildDone, AnnouncedIsBuilt
  <2>2. AnnouncedIsBuilt'
    BY <1>9 DEF ReceiveBuildDone, AnnouncedIsBuilt
  <2> QED BY <1>9, <2>1, <2>2, <1>Q, <1>R, <1>W, <1>E DEF ReceiveBuildDone
<1>10. CASE EvalEnds \/ EvalWaits \/ EvalBlocks
  <2>1. evalWait # "off" /\ UNCHANGED <<evalGen, GenerationUuid, evalStatus>>
    BY <1>10 DEF EvalEnds, EvalWaits, EvalBlocks, EvalInv
  <2>2. EvaluatesCurrent'
    BY <1>I, <2>1 DEF EvaluatesCurrent
  <2>3. UNCHANGED buildVars
    BY <1>10 DEF EvalEnds, EvalWaits, EvalBlocks
  <2>4. \A s \in Slots : buildWait'[s] = "off"
    BY <1>I, <2>1, <2>3 DEF WaitedForIsLatest
  <2>5. WaitedForIsLatest'
    BY <2>4 DEF WaitedForIsLatest
  <2> QED BY <1>10, <2>2, <2>3, <2>5, <1>I, <1>Q, <1>R, <1>A DEF EvalEnds, EvalWaits, EvalBlocks
<1>11. CASE EvalRecords
  <2>1. EvaluatesCurrent' /\ realised \subseteq realised'
    BY <1>11 DEF EvalRecords, EvaluatesCurrent, GenerationEvalFinished
  <2>2. \A s \in Slots : buildWait'[s] = "off"
    BY <1>11, <1>I DEF EvalRecords, WaitedForIsLatest
  <2>3. AnnouncedIsBuilt'
    <3> SUFFICES ASSUME BuildDone' # None PROVE BuildErr'[BuildDone'] \/ BuildDone' \in realised'
      BY DEF AnnouncedIsBuilt
    <3>1. BuildErr \in [Generations -> BOOLEAN] /\ BuildDone \in Opt(Generations)
      BY <1>T DEF StoreTypes, TaskTypes
    <3>2. CASE BuildDone' = BuildDone
      <4>1. BuildErr[BuildDone] \/ BuildDone \in realised
        BY <1>I, <3>2 DEF AnnouncedIsBuilt
      <4>2. BuildErr'[BuildDone] = BuildErr[BuildDone] \/ (BuildDone = evalGen /\ evalPathExists)
              \/ /\ BuildErr'[BuildDone] = (BuildErr[BuildDone] /\ ~evalPathExists)
                 /\ BuildDone = evalGen
        BY <1>11, <3>1, <3>2 DEF EvalRecords, GenerationEvalFinished, Opt
      <4>3. evalPathExists => evalGen \in realised'
        BY <1>11 DEF EvalRecords, GenerationEvalFinished
      <4> QED BY <2>1, <3>2, <4>1, <4>2, <4>3
    <3>3. CASE BuildDone' # BuildDone
      BY <1>11, <3>3 DEF EvalRecords, GenerationEvalFinished, Offer
    <3> QED BY <3>2, <3>3
  <2> QED BY <1>11, <2>1, <2>2, <2>3, <1>I, <1>Q, <1>R DEF EvalRecords, WaitedForIsLatest
<1>12. ASSUME NEW s \in Slots, BuildEnds(s) PROVE Goal
  <2>1. buildWait[s] # "off" /\ s = latestBuild
    BY <1>12, <1>I DEF BuildEnds, RunnerIsWaitedFor, WaitedForIsLatest
  <2>2. \A t \in Slots : ~buildRun'[t]
    <3>1. \A t \in Slots : buildRun[t] => t = s
      BY <1>I, <2>1 DEF RunnerIsWaitedFor, WaitedForIsLatest
    <3> QED BY <1>12, <1>T, <3>1 DEF BuildEnds, BuildTypes
  <2>3. \A t \in Slots : buildWait'[t] # "off" => buildWait[t] # "off"
    BY <1>12, <1>T DEF BuildEnds, BuildTypes
  <2>4. realised \subseteq realised' /\ (buildatorErr' \/ buildGen[s] \in realised')
    BY <1>12 DEF BuildEnds
  <2>5. WaitedForIsLatest'
    BY <1>12, <1>I, <2>1, <2>3, <2>4 DEF BuildEnds, WaitedForIsLatest
  <2> QED BY <1>12, <2>2, <2>4, <2>5, <1>I, <1>Q, <1>E, <1>A DEF BuildEnds, RunnerIsWaitedFor
<1>13. ASSUME NEW s \in Slots, BuildWaits(s) \/ BuildBlocks(s) PROVE Goal
  <2>1. \A t \in Slots : buildWait'[t] # "off" => buildWait[t] # "off"
    BY <1>13, <1>T DEF BuildWaits, BuildBlocks, BuildTypes
  <2>2. RunnerIsWaitedFor'
    BY <1>13, <1>T, <1>I DEF BuildWaits, BuildBlocks, BuildTypes, RunnerIsWaitedFor
  <2>3. WaitedForIsLatest'
    BY <1>13, <1>I, <2>1 DEF BuildWaits, BuildBlocks, WaitedForIsLatest
  <2> QED BY <1>13, <2>2, <2>3, <1>I, <1>Q, <1>E, <1>A DEF BuildWaits, BuildBlocks
<1>14. ASSUME NEW s \in Slots, BuildRecords(s) PROVE Goal
  <2>1. buildWait[s] = "record" /\ s = latestBuild /\ ~buildRun[s] /\ evalWait = "off"
    BY <1>14, <1>I DEF BuildRecords, RunnerIsWaitedFor, WaitedForIsLatest
  <2>2. \A t \in Slots : buildWait'[t] = "off"
    BY <1>14, <1>T, <1>I, <2>1 DEF BuildRecords, BuildTypes, WaitedForIsLatest
  <2>3. RunnerIsWaitedFor'
    BY <1>14, <1>I, <2>1, <2>2, <1>T
       DEF BuildRecords, BuildTypes, RunnerIsWaitedFor, WaitedForIsLatest
  <2>4. EvaluatesCurrent' /\ realised' = realised
    BY <1>14, <2>1 DEF BuildRecords, EvaluatesCurrent, GenerationBuildFinished
  <2>5. buildatorErr \/ buildGen[s] \in realised
    BY <1>I, <2>1 DEF WaitedForIsLatest
  <2>6. buildGen[s] \in Opt(stored)
    BY <1>I, <2>1 DEF WaitedForIsLatest, StoreInv, Markers, Opt
  <2>7. BuildErr \in [Generations -> BOOLEAN] /\ BuildDone \in Opt(Generations)
        /\ stored \subseteq Generations
    BY <1>T DEF StoreTypes, TaskTypes
  <2>8. AnnouncedIsBuilt'
    <3> SUFFICES ASSUME BuildDone' # None PROVE BuildErr'[BuildDone'] \/ BuildDone' \in realised
      BY <2>4 DEF AnnouncedIsBuilt
    <3>1. CASE BuildDone' = buildGen[s]
      <4>1. buildGen[s] \in stored
        BY <2>6, <3>1 DEF Opt
      <4>2. BuildErr'[buildGen[s]] = buildatorErr
        BY <1>14, <2>7, <4>1 DEF BuildRecords, GenerationBuildFinished
      <4> QED BY <2>5, <3>1, <4>2
    <3>2. CASE BuildDone' = BuildDone /\ BuildDone # buildGen[s]
      <4>1. BuildErr[BuildDone] \/ BuildDone \in realised
        BY <1>I, <3>2 DEF AnnouncedIsBuilt
      <4>2. BuildErr'[BuildDone] = BuildErr[BuildDone]
        BY <1>14, <2>7, <3>2 DEF BuildRecords, GenerationBuildFinished, Opt
      <4> QED BY <3>2, <4>1, <4>2
    <3> QED BY <1>14, <3>1, <3>2 DEF BuildRecords, Offer
  <2> QED BY <1>14, <2>2, <2>3, <2>4, <2>8, <1>I, <1>Q DEF BuildRecords, WaitedForIsLatest
<1>15. ASSUME NEW c \in Clients, Suspend(c) \/ Suspending(c) \/ Resume(c) PROVE Goal
  BY <1>15, <1>I DEF Suspend, Suspending, SuspendBuildStopped, SuspendClearBuilding, SuspendSet,
                     Resume, Quiet
<1>16. CASE UNCHANGED vars
  <2>1. WaitedForIsLatest'
    BY <1>16, <1>I DEF vars, WaitedForIsLatest
  <2> QED BY <1>16, <2>1, <1>I, <1>Q, <1>R, <1>E, <1>A DEF vars
<1> QED
  BY <1>1, <1>2, <1>3, <1>4, <1>5, <1>6, <1>7, <1>8, <1>9, <1>10, <1>11, <1>12, <1>13, <1>14,
     <1>15, <1>16
     DEF Next, Manager, Tasks

\* TaskInv holds in every reachable state.
LEMMA TaskAlways == Spec => []TaskInv
<1>1. Init => TaskInv
  BY DEF Init, TaskInv, Quiet, RunnerIsWaitedFor, WaitedForIsLatest, EvaluatesCurrent,
         AnnouncedIsBuilt
<1> QED
  BY <1>1, TaskStep, StoreAlways, EvalAlways, TypeAlways, PTL DEF Spec

\* As long as nobody has suspended the builder it runs a single task, however many commits
\* arrive while it evaluates and builds.
THEOREM OneTask == Spec => []SingleTask
<1>1. EvalInv /\ TaskInv => SingleTask
  BY DEF EvalInv, TaskInv, RunnerIsWaitedFor, WaitedForIsLatest, SingleTask
<1> QED
  BY <1>1, EvalAlways, TaskAlways, PTL

\* As long as nobody has suspended the builder, what it hands over for deployment has been
\* built: the error of a build is neither lost nor attributed to another generation.
THEOREM OnlyBuiltIsDeployable == Spec => []DeploysBuilt
<1>1. TaskInv => DeploysBuilt
  BY DEF TaskInv, DeploysBuilt
<1> QED
  BY <1>1, TaskAlways, PTL

=============================================================================
