--------------------------- MODULE ManagerProofs ---------------------------
(***************************************************************************)
(* Proofs about Manager, for every number of generations, every choice of  *)
(* those that are meant for another machine and every set of clients.      *)
(***************************************************************************)
EXTENDS Manager, TLAPS

Numbers == Uuids \union {None}

\* The states of the loop while Eval stops the tasks, with the new generation in the store,
\* or while NewGeneration appends it.
Stopping == {"stopEval", "stopBuild", "clearBuilding", "startEval"}
Preempting == Stopping \union {"append"}

\* The types of the variables.
Types ==
    /\ created \in 0..MaxGenerations
    /\ stored \subseteq Uuids /\ read \subseteq Uuids
    /\ marked \in [Markers -> Numbers]
    /\ evalStatus \in [Uuids -> {"init", "evaluating", "evaluated", "failed"}]
    /\ buildStatus \in [Uuids -> {"init", "building", "built", "failed"}]
    /\ BuildErr \in [Uuids -> BOOLEAN]
    /\ builds \in [Uuids -> Nat]
    /\ fate \in [Uuids -> {"none", "dropped", "skipped", "deployed", "overwritten"}]
    /\ GenerationUuid \in Numbers /\ evaluating \in Numbers
    /\ EvaluationDone \in Numbers /\ BuildDone \in Numbers
    /\ buildWaiting \in Numbers /\ deployWaiting \in Numbers
    /\ argument \in Numbers
    /\ GenerationToDeploy \in Numbers /\ deployed \in Numbers /\ latest \in Numbers
    /\ handed \in Numbers
    /\ loop \in {"select", "submitBuild", "submitDeploy"} \union Preempting

\* Along the way of the generations, the older ones are ahead of the newer ones.
BuildOrder ==
    /\ EvaluationDone <= GenerationUuid /\ buildWaiting <= GenerationUuid
    /\ EvaluationDone # None => buildWaiting <= EvaluationDone
    /\ loop = "submitBuild" =>
        /\ argument \in Uuids /\ buildWaiting <= argument /\ argument <= GenerationUuid
        /\ EvaluationDone # None => argument <= EvaluationDone

DeployOrder ==
    /\ BuildDone <= GenerationUuid /\ deployWaiting <= GenerationUuid /\ handed <= GenerationUuid
    /\ BuildDone # None => deployWaiting <= BuildDone /\ handed <= BuildDone
    /\ deployWaiting # None => handed <= deployWaiting
    /\ loop = "submitDeploy" =>
        /\ argument \in Uuids /\ deployWaiting <= argument /\ handed <= argument
        /\ argument <= GenerationUuid
        /\ BuildDone # None => argument <= BuildDone
    /\ GenerationToDeploy <= handed /\ deployed <= handed /\ latest <= handed

Offers ==
    /\ buildOffered => buildWaiting # None
    /\ deployOffered => deployWaiting # None

\* The new generation comes after all others.
Newest ==
    /\ GenerationUuid <= created
    /\ loop \in Preempting => argument \in Uuids /\ argument = created /\ GenerationUuid < argument
    /\ \A h \in Uuids : GenerationUuid < h => buildStatus[h] = "init"

\* What runs is the current generation, one evaluation or builds that may overlap, and its
\* status says so.
Running ==
    /\ evaluating # None =>
        /\ evaluating = GenerationUuid /\ BuildsWaitedFor
        /\ evalStatus[evaluating] = "evaluating" /\ buildStatus[evaluating] = "init"
    /\ \A h \in Uuids : builds[h] > 0 => h = GenerationUuid /\ buildStatus[h] # "init"
    /\ isBuilding => ~BuildsWaitedFor
    /\ \A h \in Uuids : buildStatus[h] = "built" => ~BuildErr[h]

\* The markers point into the store, one of them to the current generation and none to a
\* newer one; what NewGeneration has read contains the store.
Store ==
    /\ \A k \in Markers : marked[k] # None => marked[k] \in stored
    /\ \A k \in Markers : marked[k] <= GenerationUuid
    /\ marked["EvalStarted"] = GenerationUuid
    /\ loop = "append" => stored \subseteq read

\* Once Eval has seen the tasks end, none runs but a build that a Resume has started; its
\* start has collected the new generation.
Stops ==
    /\ loop \in Stopping \ {"stopEval"} => evaluating = None
    /\ loop \in {"clearBuilding", "startEval"} /\ argument \in stored => BuildsWaitedFor

Inv ==
    /\ Types /\ BuildOrder /\ DeployOrder /\ Offers /\ Newest /\ Running /\ Store /\ Stops
    /\ NothingForgotten

\* A marked generation of the store stays there, the markers point into it, and what is not
\* marked is collected.
LEMMA MarkKeeps ==
    ASSUME Types, Store, NEW g \in stored, NEW keys \in SUBSET Markers, Mark(keys, g)
    PROVE  /\ stored' \subseteq stored
           /\ marked' \in [Markers -> Numbers]
           /\ \A k \in Markers : marked'[k] # None => marked'[k] \in stored'
           /\ \A k \in Markers : marked'[k] \in {g, marked[k]}
           /\ marked'["EvalStarted"] =
                IF "EvalStarted" \in keys THEN g ELSE marked["EvalStarted"]
           /\ \A h \in stored' : h = g \/ h <= GenerationUuid
<1>1. g \in Numbers
  BY DEF Types, Numbers
<1>2. marked' \in [Markers -> Numbers]
  BY <1>1 DEF Mark, Types
<1>3. ASSUME NEW k \in Markers, marked'[k] # None PROVE marked'[k] \in stored'
  BY <1>3 DEF Mark, Store
<1>4. \A k \in Markers : marked'[k] \in {g, marked[k]}
  BY DEF Mark
<1>5. \A h \in stored' : h = g \/ h <= GenerationUuid
  BY <1>4 DEF Mark, Store
<1> QED
  BY <1>2, <1>3, <1>4, <1>5 DEF Mark, Markers

\* The current generation is in the store.
LEMMA CurrentIsStored == Inv /\ GenerationUuid # None => GenerationUuid \in stored
  BY DEF Inv, Store, Markers

\* The end of an evaluation preserves the invariant.
LEMMA EvalEndsKeeps ==
    ASSUME Inv, NEW status \in {"evaluated", "failed"}, NEW exists \in BOOLEAN,
           EvalEnds(status, exists)
    PROVE  Inv'
<1>a. /\ Types /\ BuildOrder /\ DeployOrder /\ Offers /\ Newest /\ Running /\ Store /\ Stops
      /\ NothingForgotten
  BY DEF Inv
<1> USE <1>a, ManagerAssumption
    DEF Uuids, None, Numbers, Stopping, Preempting, EvalEnds, Offer, Fate, BuilderStep,
        builderVars, storeVars, buildVars, channelVars,
        buildConfirmerVars, deployConfirmerVars, loopVars, deployerVars
<1>b. evaluating = GenerationUuid /\ evaluating \in Uuids /\ evaluating \in stored
  BY CurrentIsStored DEF Running, Types
<1>c. PICK keys \in SUBSET Markers : "EvalStarted" \notin keys /\ Mark(keys, GenerationUuid)
  BY <1>b DEF Markers
<1>d. /\ stored' \subseteq stored /\ marked' \in [Markers -> Numbers]
      /\ \A k \in Markers : marked'[k] # None => marked'[k] \in stored'
      /\ \A k \in Markers : marked'[k] \in {GenerationUuid, marked[k]}
      /\ marked'["EvalStarted"] = marked["EvalStarted"]
      /\ \A h \in stored' : h <= GenerationUuid
  <2>1. GenerationUuid \in stored /\ GenerationUuid <= GenerationUuid
    BY <1>b DEF Types
  <2> QED
    BY <1>c, <2>1, MarkKeeps
<1>1. Types'
  <2>1. CASE exists
    <3>1. BuildErr' = [BuildErr EXCEPT ![evaluating] = FALSE]
      BY <2>1
    <3>2. BuildErr' \in [Uuids -> BOOLEAN]
      BY <3>1, <1>b, Zenon DEF Types
    <3>3. fate' \in [Uuids -> {"none", "dropped", "skipped", "deployed", "overwritten"}]
      BY <2>1, <1>b DEF Types
    <3> QED
      BY <2>1, <3>2, <3>3, <1>b, <1>d DEF Types
  <2>2. CASE ~exists
    <3>1. fate' \in [Uuids -> {"none", "dropped", "skipped", "deployed", "overwritten"}]
      BY <2>2, <1>b DEF Types
    <3> QED
      BY <2>2, <3>1, <1>b, <1>d DEF Types
  <2> QED
    BY <2>1, <2>2
<1>2. (BuildOrder /\ DeployOrder)'
  BY <1>b, <1>d DEF Types, BuildOrder, DeployOrder, Newest, Running
<1>3. (Offers /\ Newest)'
  BY <1>b, <1>d DEF Types, Offers, BuildOrder, DeployOrder, Newest, Running
<1>4. Running'
  BY <1>b, <1>d DEF Types, Newest, Running, Stops, BuildsWaitedFor
<1>5. (Store /\ Stops)'
  BY <1>b, <1>d DEF Types, Newest, Running, Store, Stops, Markers, BuildsWaitedFor
<1>6. NothingForgotten'
  BY <1>b, <1>d DEF Types, NothingForgotten, BuildOrder, DeployOrder, Newest, Running, Offers,
        BuildsWaitedFor
<1> QED
  BY <1>1, <1>2, <1>3, <1>4, <1>5, <1>6 DEF Inv

\* So does the end of a build,
LEMMA BuildEndsKeeps ==
    ASSUME Inv, NEW g \in Uuids, NEW status \in {"built", "failed"}, BuildEnds(g, status)
    PROVE  Inv'
<1>a. /\ Types /\ BuildOrder /\ DeployOrder /\ Offers /\ Newest /\ Running /\ Store /\ Stops
      /\ NothingForgotten
  BY DEF Inv
<1> USE <1>a, ManagerAssumption
    DEF Uuids, None, Numbers, Stopping, Preempting, BuildEnds, Offer, Fate, BuilderStep,
        builderVars, storeVars, buildVars, channelVars,
        buildConfirmerVars, deployConfirmerVars, loopVars, deployerVars
<1>b. g = GenerationUuid /\ g \in stored /\ builds[g] \in Nat /\ builds[g] > 0
  BY CurrentIsStored DEF Running, Types
<1>c. PICK keys \in SUBSET Markers : "EvalStarted" \notin keys /\ Mark(keys, GenerationUuid)
  BY <1>b DEF Markers
<1>d. /\ stored' \subseteq stored /\ marked' \in [Markers -> Numbers]
      /\ \A k \in Markers : marked'[k] # None => marked'[k] \in stored'
      /\ \A k \in Markers : marked'[k] \in {GenerationUuid, marked[k]}
      /\ marked'["EvalStarted"] = marked["EvalStarted"]
      /\ \A h \in stored' : h <= GenerationUuid
  <2>1. GenerationUuid \in stored /\ GenerationUuid <= GenerationUuid
    BY <1>b DEF Types
  <2> QED
    BY <1>c, <2>1, MarkKeeps
<1>1. Types'
  <2>1. builds' \in [Uuids -> Nat]
    <3>1. builds[g] - 1 \in Nat
      BY <1>b
    <3> QED
      BY <3>1, <1>b DEF Types
  <2>2. buildStatus' \in [Uuids -> {"init", "building", "built", "failed"}]
    BY <1>b DEF Types
  <2>3. BuildErr' \in [Uuids -> BOOLEAN]
    <3>1. BuildErr' = [BuildErr EXCEPT ![g] = (status = "failed")]
      BY <1>b
    <3> QED
      BY <3>1, <1>b, Zenon DEF Types
  <2>4. fate' \in [Uuids -> {"none", "dropped", "skipped", "deployed", "overwritten"}]
    BY <1>b DEF Types
  <2>5. evalStatus' \in [Uuids -> {"init", "evaluating", "evaluated", "failed"}]
    BY DEF Types
  <2>6. loop' \in {"select", "submitBuild", "submitDeploy"} \union Preempting
    BY DEF Types
  <2> QED
    BY <2>1, <2>2, <2>3, <2>4, <2>5, <2>6, <1>b, <1>d DEF Types
<1>2. (BuildOrder /\ DeployOrder)'
  BY <1>b, <1>d DEF Types, BuildOrder, DeployOrder, Newest, Running
<1>3. (Offers /\ Newest)'
  BY <1>b, <1>d DEF Types, Offers, BuildOrder, DeployOrder, Newest, Running
<1>4. Running'
  <2>1. evaluating = None /\ evaluating' = None
    BY <1>b DEF Types, Running, BuildsWaitedFor
  <2>2. \A h \in Uuids : builds'[h] > 0 => builds[h] > 0 /\ buildStatus'[h] # "init"
    BY <1>b DEF Types, Running
  <2>3. ASSUME NEW h \in Uuids, buildStatus'[h] = "built" PROVE ~BuildErr'[h]
    <3>1. CASE h = g
      <4>1. BuildErr'[g] = (status = "failed") /\ status = "built"
        BY <1>b, <2>3, <3>1 DEF Types
      <4> QED
        BY <3>1, <4>1
    <3>2. CASE h # g
      BY <1>b, <2>3, <3>2 DEF Types, Running
    <3> QED
      BY <3>1, <3>2
  <2> QED
    BY <2>1, <2>2, <2>3 DEF Running
<1>5. (Store /\ Stops)'
  BY <1>b, <1>d DEF Types, Newest, Running, Store, Stops, Markers, BuildsWaitedFor
<1>6. NothingForgotten'
  BY <1>b, <1>d DEF Types, NothingForgotten, BuildOrder, DeployOrder, Newest, Running, Offers,
        BuildsWaitedFor
<1> QED
  BY <1>1, <1>2, <1>3, <1>4, <1>5, <1>6 DEF Inv

\* a Suspend that stops the builds,
LEMMA SuspendKeeps ==
    ASSUME Inv, NEW c \in Clients, Suspend(c)
    PROVE  Inv'
<1>a. /\ Types /\ BuildOrder /\ DeployOrder /\ Offers /\ Newest /\ Running /\ Store /\ Stops
      /\ NothingForgotten
  BY DEF Inv
<1> USE <1>a, ManagerAssumption
    DEF Uuids, None, Numbers, Stopping, Preempting, Suspend, BuilderStep,
        builderVars, storeVars, buildVars, channelVars,
        buildConfirmerVars, deployConfirmerVars, loopVars, deployerVars
<1>1. Types'
  BY DEF Types
<1>2. (BuildOrder /\ DeployOrder)'
  BY DEF Types, BuildOrder, DeployOrder, Newest, Running
<1>3. (Offers /\ Newest)'
  BY DEF Types, Offers, BuildOrder, DeployOrder, Newest, Running
<1>4. Running'
  BY DEF Types, Newest, Running, Stops, BuildsWaitedFor
<1>5. (Store /\ Stops)'
  BY DEF Types, Newest, Running, Store, Stops, Markers, BuildsWaitedFor
<1>6. NothingForgotten'
  BY DEF Types, NothingForgotten, BuildOrder, DeployOrder, Newest, Running, Offers,
        BuildsWaitedFor
<1> QED
  BY <1>1, <1>2, <1>3, <1>4, <1>5, <1>6 DEF Inv

\* waits for them,
LEMMA SuspendBuildStoppedKeeps ==
    ASSUME Inv, NEW c \in Clients, SuspendBuildStopped(c)
    PROVE  Inv'
<1>a. /\ Types /\ BuildOrder /\ DeployOrder /\ Offers /\ Newest /\ Running /\ Store /\ Stops
      /\ NothingForgotten
  BY DEF Inv
<1> USE <1>a, ManagerAssumption
    DEF Uuids, None, Numbers, Stopping, Preempting, SuspendBuildStopped, BuilderStep,
        builderVars, storeVars, buildVars, channelVars,
        buildConfirmerVars, deployConfirmerVars, loopVars, deployerVars
<1>1. Types'
  BY DEF Types
<1>2. (BuildOrder /\ DeployOrder)'
  BY DEF Types, BuildOrder, DeployOrder, Newest, Running
<1>3. (Offers /\ Newest)'
  BY DEF Types, Offers, BuildOrder, DeployOrder, Newest, Running
<1>4. Running'
  BY DEF Types, Newest, Running, Stops, BuildsWaitedFor
<1>5. (Store /\ Stops)'
  BY DEF Types, Newest, Running, Store, Stops, Markers, BuildsWaitedFor
<1>6. NothingForgotten'
  BY DEF Types, NothingForgotten, BuildOrder, DeployOrder, Newest, Running, Offers,
        BuildsWaitedFor
<1> QED
  BY <1>1, <1>2, <1>3, <1>4, <1>5, <1>6 DEF Inv

\* resets the flag
LEMMA SuspendClearBuildingKeeps ==
    ASSUME Inv, NEW c \in Clients, SuspendClearBuilding(c)
    PROVE  Inv'
<1>a. /\ Types /\ BuildOrder /\ DeployOrder /\ Offers /\ Newest /\ Running /\ Store /\ Stops
      /\ NothingForgotten
  BY DEF Inv
<1> USE <1>a, ManagerAssumption
    DEF Uuids, None, Numbers, Stopping, Preempting, SuspendClearBuilding, BuilderStep,
        builderVars, storeVars, buildVars, channelVars,
        buildConfirmerVars, deployConfirmerVars, loopVars, deployerVars
<1>1. Types'
  BY DEF Types
<1>2. (BuildOrder /\ DeployOrder)'
  BY DEF Types, BuildOrder, DeployOrder, Newest, Running
<1>3. (Offers /\ Newest)'
  BY DEF Types, Offers, BuildOrder, DeployOrder, Newest, Running
<1>4. Running'
  BY DEF Types, Newest, Running, Stops, BuildsWaitedFor
<1>5. (Store /\ Stops)'
  BY DEF Types, Newest, Running, Store, Stops, Markers, BuildsWaitedFor
<1>6. NothingForgotten'
  BY DEF Types, NothingForgotten, BuildOrder, DeployOrder, Newest, Running, Offers,
        BuildsWaitedFor
<1> QED
  BY <1>1, <1>2, <1>3, <1>4, <1>5, <1>6 DEF Inv

\* and suspends the builder,
LEMMA SuspendSetKeeps ==
    ASSUME Inv, NEW c \in Clients, SuspendSet(c)
    PROVE  Inv'
<1>a. /\ Types /\ BuildOrder /\ DeployOrder /\ Offers /\ Newest /\ Running /\ Store /\ Stops
      /\ NothingForgotten
  BY DEF Inv
<1> USE <1>a, ManagerAssumption
    DEF Uuids, None, Numbers, Stopping, Preempting, SuspendSet, BuilderStep,
        builderVars, storeVars, buildVars, channelVars,
        buildConfirmerVars, deployConfirmerVars, loopVars, deployerVars
<1>1. Types'
  BY DEF Types
<1>2. (BuildOrder /\ DeployOrder)'
  BY DEF Types, BuildOrder, DeployOrder, Newest, Running
<1>3. (Offers /\ Newest)'
  BY DEF Types, Offers, BuildOrder, DeployOrder, Newest, Running
<1>4. Running'
  BY DEF Types, Newest, Running, Stops, BuildsWaitedFor
<1>5. (Store /\ Stops)'
  BY DEF Types, Newest, Running, Store, Stops, Markers, BuildsWaitedFor
<1>6. NothingForgotten'
  BY DEF Types, NothingForgotten, BuildOrder, DeployOrder, Newest, Running, Offers,
        BuildsWaitedFor
<1> QED
  BY <1>1, <1>2, <1>3, <1>4, <1>5, <1>6 DEF Inv

\* a Resume, which builds the current generation,
LEMMA ResumeKeeps ==
    ASSUME Inv, NEW c \in Clients, Resume(c)
    PROVE  Inv'
<1>a. /\ Types /\ BuildOrder /\ DeployOrder /\ Offers /\ Newest /\ Running /\ Store /\ Stops
      /\ NothingForgotten
  BY DEF Inv
<1> USE <1>a, ManagerAssumption
    DEF Uuids, None, Numbers, Stopping, Preempting, Resume, Build, BuilderStep,
        builderVars, storeVars, buildVars, channelVars,
        buildConfirmerVars, deployConfirmerVars, loopVars, deployerVars
<1>b. GenerationUuid # None => GenerationUuid \in stored
  BY CurrentIsStored
<1>c. \/ UNCHANGED <<storeVars, buildVars, fate>>
      \/ /\ GenerationUuid \in stored /\ Mark({"BuildStarted"}, GenerationUuid)
         /\ builds' = [builds EXCEPT ![GenerationUuid] = @ + 1]
         /\ fate' = [fate EXCEPT ![GenerationUuid] = "none"]
         /\ buildStatus' = [buildStatus EXCEPT ![GenerationUuid] = "building"]
         /\ UNCHANGED BuildErr
  OBVIOUS
<1>d. /\ stored' \subseteq stored /\ marked' \in [Markers -> Numbers]
      /\ \A k \in Markers : marked'[k] # None => marked'[k] \in stored'
      /\ \A k \in Markers : marked'[k] \in {GenerationUuid, marked[k]}
      /\ marked'["EvalStarted"] = marked["EvalStarted"]
      /\ UNCHANGED <<stored, builds>> \/ \A h \in stored' : h <= GenerationUuid
  <2>1. CASE UNCHANGED <<storeVars, buildVars, fate>>
    BY <2>1 DEF Types, Store
  <2>2. CASE GenerationUuid \in stored /\ Mark({"BuildStarted"}, GenerationUuid)
    <3>1. GenerationUuid <= GenerationUuid
      BY DEF Types
    <3> QED
      BY <2>2, <3>1, MarkKeeps DEF Markers
  <2> QED
    BY <1>c, <2>1, <2>2
<1>1. Types'
  <2>1. builds' \in [Uuids -> Nat]
    BY <1>b, <1>c DEF Types
  <2>2. buildStatus' \in [Uuids -> {"init", "building", "built", "failed"}]
    BY <1>c DEF Types
  <2>3. fate' \in [Uuids -> {"none", "dropped", "skipped", "deployed", "overwritten"}]
    BY <1>c DEF Types
  <2>4. BuildErr' = BuildErr
    BY <1>c
  <2> QED
    BY <2>1, <2>2, <2>3, <2>4, <1>d DEF Types
<1>2. (BuildOrder /\ DeployOrder)'
  BY <1>b, <1>d DEF Types, BuildOrder, DeployOrder, Newest, Running
<1>3. (Offers /\ Newest)'
  BY <1>b, <1>d DEF Types, Offers, BuildOrder, DeployOrder, Newest, Running
<1>4. Running'
  BY <1>b, <1>d DEF Types, Newest, Running, Stops, BuildsWaitedFor
<1>5. (Store /\ Stops)'
  BY <1>b, <1>d DEF Types, Newest, Running, Store, Stops, Markers, BuildsWaitedFor
<1>6. NothingForgotten'
  BY <1>b, <1>d DEF Types, NothingForgotten, BuildOrder, DeployOrder, Newest, Running, Offers,
        BuildsWaitedFor
<1> QED
  BY <1>1, <1>2, <1>3, <1>4, <1>5, <1>6 DEF Inv

\* the reading of the generations,
LEMMA NewCommitKeeps ==
    ASSUME Inv, NewCommit
    PROVE  Inv'
<1>a. /\ Types /\ BuildOrder /\ DeployOrder /\ Offers /\ Newest /\ Running /\ Store /\ Stops
      /\ NothingForgotten
  BY DEF Inv
<1> USE <1>a, ManagerAssumption
    DEF Uuids, None, Numbers, Stopping, Preempting, NewCommit, Goes, LoopStep,
        builderVars, storeVars, buildVars, channelVars,
        buildConfirmerVars, deployConfirmerVars, loopVars, deployerVars
<1>1. Types'
  BY DEF Types
<1>2. (BuildOrder /\ DeployOrder)'
  BY DEF Types, BuildOrder, DeployOrder, Newest, Running
<1>3. (Offers /\ Newest)'
  BY DEF Types, Offers, BuildOrder, DeployOrder, Newest, Running
<1>4. Running'
  BY DEF Types, Newest, Running, Stops, BuildsWaitedFor
<1>5. (Store /\ Stops)'
  BY DEF Types, Newest, Running, Store, Stops, Markers, BuildsWaitedFor
<1>6. NothingForgotten'
  BY DEF Types, NothingForgotten, BuildOrder, DeployOrder, Newest, Running, Offers,
        BuildsWaitedFor
<1> QED
  BY <1>1, <1>2, <1>3, <1>4, <1>5, <1>6 DEF Inv

\* the appending of the new one,
LEMMA NewGenerationKeeps ==
    ASSUME Inv, NewGeneration
    PROVE  Inv'
<1>a. /\ Types /\ BuildOrder /\ DeployOrder /\ Offers /\ Newest /\ Running /\ Store /\ Stops
      /\ NothingForgotten
  BY DEF Inv
<1> USE <1>a, ManagerAssumption
    DEF Uuids, None, Numbers, Stopping, Preempting, NewGeneration, Goes, LoopStep,
        builderVars, storeVars, buildVars, channelVars,
        buildConfirmerVars, deployConfirmerVars, loopVars, deployerVars
<1>1. Types'
  <2>1. argument \in Uuids
    BY DEF Newest
  <2>2. stored' \subseteq Uuids /\ read' \subseteq Uuids
    BY <2>1 DEF Types
  <2> QED
    BY <2>2 DEF Types
<1>2. (BuildOrder /\ DeployOrder)'
  BY DEF Types, BuildOrder, DeployOrder, Newest, Running
<1>3. (Offers /\ Newest)'
  BY DEF Types, Offers, BuildOrder, DeployOrder, Newest, Running
<1>4. Running'
  BY DEF Types, Newest, Running, Stops, BuildsWaitedFor
<1>5. (Store /\ Stops)'
  BY DEF Types, Newest, Running, Store, Stops, Markers, BuildsWaitedFor
<1>6. NothingForgotten'
  BY DEF Types, NothingForgotten, BuildOrder, DeployOrder, Newest, Running, Offers,
        BuildsWaitedFor
<1> QED
  BY <1>1, <1>2, <1>3, <1>4, <1>5, <1>6 DEF Inv

\* the end of the evaluation that Eval waits for,
LEMMA EvalStoppedKeeps ==
    ASSUME Inv, EvalStopped
    PROVE  Inv'
<1>a. /\ Types /\ BuildOrder /\ DeployOrder /\ Offers /\ Newest /\ Running /\ Store /\ Stops
      /\ NothingForgotten
  BY DEF Inv
<1> USE <1>a, ManagerAssumption
    DEF Uuids, None, Numbers, Stopping, Preempting, EvalStopped, Goes, LoopStep,
        builderVars, storeVars, buildVars, channelVars,
        buildConfirmerVars, deployConfirmerVars, loopVars, deployerVars
<1>1. Types'
  BY DEF Types
<1>2. (BuildOrder /\ DeployOrder)'
  BY DEF Types, BuildOrder, DeployOrder, Newest, Running
<1>3. (Offers /\ Newest)'
  BY DEF Types, Offers, BuildOrder, DeployOrder, Newest, Running
<1>4. Running'
  BY DEF Types, Newest, Running, Stops, BuildsWaitedFor
<1>5. (Store /\ Stops)'
  BY DEF Types, Newest, Running, Store, Stops, Markers, BuildsWaitedFor
<1>6. NothingForgotten'
  BY DEF Types, NothingForgotten, BuildOrder, DeployOrder, Newest, Running, Offers,
        BuildsWaitedFor
<1> QED
  BY <1>1, <1>2, <1>3, <1>4, <1>5, <1>6 DEF Inv

\* the end of the builds,
LEMMA BuildStoppedKeeps ==
    ASSUME Inv, BuildStopped
    PROVE  Inv'
<1>a. /\ Types /\ BuildOrder /\ DeployOrder /\ Offers /\ Newest /\ Running /\ Store /\ Stops
      /\ NothingForgotten
  BY DEF Inv
<1> USE <1>a, ManagerAssumption
    DEF Uuids, None, Numbers, Stopping, Preempting, BuildStopped, Goes, LoopStep,
        builderVars, storeVars, buildVars, channelVars,
        buildConfirmerVars, deployConfirmerVars, loopVars, deployerVars
<1>1. Types'
  BY DEF Types
<1>2. (BuildOrder /\ DeployOrder)'
  BY DEF Types, BuildOrder, DeployOrder, Newest, Running
<1>3. (Offers /\ Newest)'
  BY DEF Types, Offers, BuildOrder, DeployOrder, Newest, Running
<1>4. Running'
  BY DEF Types, Newest, Running, Stops, BuildsWaitedFor
<1>5. (Store /\ Stops)'
  BY DEF Types, Newest, Running, Store, Stops, Markers, BuildsWaitedFor
<1>6. NothingForgotten'
  BY DEF Types, NothingForgotten, BuildOrder, DeployOrder, Newest, Running, Offers,
        BuildsWaitedFor
<1> QED
  BY <1>1, <1>2, <1>3, <1>4, <1>5, <1>6 DEF Inv

\* the reset of the flag,
LEMMA ClearBuildingKeeps ==
    ASSUME Inv, ClearBuilding
    PROVE  Inv'
<1>a. /\ Types /\ BuildOrder /\ DeployOrder /\ Offers /\ Newest /\ Running /\ Store /\ Stops
      /\ NothingForgotten
  BY DEF Inv
<1> USE <1>a, ManagerAssumption
    DEF Uuids, None, Numbers, Stopping, Preempting, ClearBuilding, Goes, LoopStep,
        builderVars, storeVars, buildVars, channelVars,
        buildConfirmerVars, deployConfirmerVars, loopVars, deployerVars
<1>1. Types'
  BY DEF Types
<1>2. (BuildOrder /\ DeployOrder)'
  BY DEF Types, BuildOrder, DeployOrder, Newest, Running
<1>3. (Offers /\ Newest)'
  BY DEF Types, Offers, BuildOrder, DeployOrder, Newest, Running
<1>4. Running'
  BY DEF Types, Newest, Running, Stops, BuildsWaitedFor
<1>5. (Store /\ Stops)'
  BY DEF Types, Newest, Running, Store, Stops, Markers, BuildsWaitedFor
<1>6. NothingForgotten'
  BY DEF Types, NothingForgotten, BuildOrder, DeployOrder, Newest, Running, Offers,
        BuildsWaitedFor
<1> QED
  BY <1>1, <1>2, <1>3, <1>4, <1>5, <1>6 DEF Inv

\* the start of the evaluation,
LEMMA StartEvalKeeps ==
    ASSUME Inv, StartEval
    PROVE  Inv'
<1>a. /\ Types /\ BuildOrder /\ DeployOrder /\ Offers /\ Newest /\ Running /\ Store /\ Stops
      /\ NothingForgotten
  BY DEF Inv
<1> USE <1>a, ManagerAssumption
    DEF Uuids, None, Numbers, Stopping, Preempting, StartEval, Goes, LoopStep,
        builderVars, storeVars, buildVars, channelVars,
        buildConfirmerVars, deployConfirmerVars, loopVars, deployerVars
<1>b. /\ marked' \in [Markers -> Numbers] /\ stored' \subseteq stored
      /\ \A k \in Markers : marked'[k] # None => marked'[k] \in stored'
      /\ \A k \in Markers : marked'[k] \in {GenerationUuid', marked[k]}
      /\ marked'["EvalStarted"] = GenerationUuid'
  BY MarkKeeps DEF Markers, Types, Store
<1>1. Types'
  BY <1>b DEF Types
<1>2. (BuildOrder /\ DeployOrder)'
  BY <1>b DEF Types, BuildOrder, DeployOrder, Newest, Running
<1>3. (Offers /\ Newest)'
  BY <1>b DEF Types, Offers, BuildOrder, DeployOrder, Newest, Running
<1>4. Running'
  BY <1>b DEF Types, Newest, Running, Stops, BuildsWaitedFor
<1>5. (Store /\ Stops)'
  BY <1>b DEF Types, Newest, Running, Store, Stops, Markers, BuildsWaitedFor
<1>6. NothingForgotten'
  BY <1>b DEF Types, NothingForgotten, BuildOrder, DeployOrder, Newest, Running, Offers,
        BuildsWaitedFor
<1> QED
  BY <1>1, <1>2, <1>3, <1>4, <1>5, <1>6 DEF Inv

\* the reception of an evaluation,
LEMMA ReceiveEvaluationDoneKeeps ==
    ASSUME Inv, ReceiveEvaluationDone
    PROVE  Inv'
<1>a. /\ Types /\ BuildOrder /\ DeployOrder /\ Offers /\ Newest /\ Running /\ Store /\ Stops
      /\ NothingForgotten
  BY DEF Inv
<1> USE <1>a, ManagerAssumption
    DEF Uuids, None, Numbers, Stopping, Preempting, ReceiveEvaluationDone, Goes, LoopStep,
        builderVars, storeVars, buildVars, channelVars,
        buildConfirmerVars, deployConfirmerVars, loopVars, deployerVars
<1>b. GenerationUuid # None => GenerationUuid \in stored
  BY CurrentIsStored
<1>1. Types'
  BY <1>b DEF Types
<1>2. (BuildOrder /\ DeployOrder)'
  BY <1>b DEF Types, BuildOrder, DeployOrder, Newest, Running
<1>3. (Offers /\ Newest)'
  BY <1>b DEF Types, Offers, BuildOrder, DeployOrder, Newest, Running
<1>4. Running'
  BY <1>b DEF Types, Newest, Running, Stops, BuildsWaitedFor
<1>5. (Store /\ Stops)'
  BY <1>b DEF Types, Newest, Running, Store, Stops, Markers, BuildsWaitedFor
<1>6. NothingForgotten'
  BY <1>b DEF Types, NothingForgotten, BuildOrder, DeployOrder, Newest, Running, Offers,
        BuildsWaitedFor
<1> QED
  BY <1>1, <1>2, <1>3, <1>4, <1>5, <1>6 DEF Inv

\* its submission to the build confirmer,
LEMMA BuildConfirmerSubmitKeeps ==
    ASSUME Inv, BuildConfirmerSubmit
    PROVE  Inv'
<1>a. /\ Types /\ BuildOrder /\ DeployOrder /\ Offers /\ Newest /\ Running /\ Store /\ Stops
      /\ NothingForgotten
  BY DEF Inv
<1> USE <1>a, ManagerAssumption
    DEF Uuids, None, Numbers, Stopping, Preempting, BuildConfirmerSubmit,
        BuildConfirmer!Put, Goes, LoopStep,
        builderVars, storeVars, buildVars, channelVars,
        buildConfirmerVars, deployConfirmerVars, loopVars, deployerVars
<1>1. Types'
  BY DEF Types
<1>2. (BuildOrder /\ DeployOrder)'
  BY DEF Types, BuildOrder, DeployOrder, Newest, Running
<1>3. (Offers /\ Newest)'
  BY DEF Types, Offers, BuildOrder, DeployOrder, Newest, Running
<1>4. Running'
  BY DEF Types, Newest, Running, Stops, BuildsWaitedFor
<1>5. (Store /\ Stops)'
  BY DEF Types, Newest, Running, Store, Stops, Markers, BuildsWaitedFor
<1>6. NothingForgotten'
  BY DEF Types, NothingForgotten, BuildOrder, DeployOrder, Newest, Running, Offers,
        BuildsWaitedFor
<1> QED
  BY <1>1, <1>2, <1>3, <1>4, <1>5, <1>6 DEF Inv

\* the start of a confirmed build,
LEMMA SubmitBuildKeeps ==
    ASSUME Inv, SubmitBuild
    PROVE  Inv'
<1>a. /\ Types /\ BuildOrder /\ DeployOrder /\ Offers /\ Newest /\ Running /\ Store /\ Stops
      /\ NothingForgotten
  BY DEF Inv
<1> USE <1>a, ManagerAssumption
    DEF Uuids, None, Numbers, Stopping, Preempting, SubmitBuild,
        Build, BuildConfirmer!Take, Goes, LoopStep,
        builderVars, storeVars, buildVars, channelVars,
        buildConfirmerVars, deployConfirmerVars, loopVars, deployerVars
<1>b. GenerationUuid # None => GenerationUuid \in stored
  BY CurrentIsStored
<1>c. \/ UNCHANGED <<storeVars, buildVars, fate>>
      \/ /\ GenerationUuid \in stored /\ Mark({"BuildStarted"}, GenerationUuid)
         /\ builds' = [builds EXCEPT ![GenerationUuid] = @ + 1]
         /\ fate' = [fate EXCEPT ![GenerationUuid] = "none"]
         /\ buildStatus' = [buildStatus EXCEPT ![GenerationUuid] = "building"]
         /\ UNCHANGED BuildErr
  OBVIOUS
<1>d. /\ stored' \subseteq stored /\ marked' \in [Markers -> Numbers]
      /\ \A k \in Markers : marked'[k] # None => marked'[k] \in stored'
      /\ \A k \in Markers : marked'[k] \in {GenerationUuid, marked[k]}
      /\ marked'["EvalStarted"] = marked["EvalStarted"]
      /\ UNCHANGED <<stored, builds>> \/ \A h \in stored' : h <= GenerationUuid
  <2>1. CASE UNCHANGED <<storeVars, buildVars, fate>>
    BY <2>1 DEF Types, Store
  <2>2. CASE GenerationUuid \in stored /\ Mark({"BuildStarted"}, GenerationUuid)
    <3>1. GenerationUuid <= GenerationUuid
      BY DEF Types
    <3> QED
      BY <2>2, <3>1, MarkKeeps DEF Markers
  <2> QED
    BY <1>c, <2>1, <2>2
<1>1. Types'
  <2>1. builds' \in [Uuids -> Nat]
    BY <1>b, <1>c DEF Types
  <2>2. buildStatus' \in [Uuids -> {"init", "building", "built", "failed"}]
    BY <1>c DEF Types
  <2>3. fate' \in [Uuids -> {"none", "dropped", "skipped", "deployed", "overwritten"}]
    BY <1>c DEF Types
  <2>4. BuildErr' = BuildErr
    BY <1>c
  <2> QED
    BY <2>1, <2>2, <2>3, <2>4, <1>d DEF Types
<1>2. (BuildOrder /\ DeployOrder)'
  BY <1>b, <1>d DEF Types, BuildOrder, DeployOrder, Newest, Running
<1>3. (Offers /\ Newest)'
  BY <1>b, <1>d DEF Types, Offers, BuildOrder, DeployOrder, Newest, Running
<1>4. Running'
  BY <1>b, <1>d DEF Types, Newest, Running, Stops, BuildsWaitedFor
<1>5. (Store /\ Stops)'
  BY <1>b, <1>d DEF Types, Newest, Running, Store, Stops, Markers, BuildsWaitedFor
<1>6. NothingForgotten'
  BY <1>b, <1>d DEF Types, NothingForgotten, BuildOrder, DeployOrder, Newest, Running, Offers,
        BuildsWaitedFor
<1> QED
  BY <1>1, <1>2, <1>3, <1>4, <1>5, <1>6 DEF Inv

\* the reception of a build,
LEMMA ReceiveBuildDoneKeeps ==
    ASSUME Inv, ReceiveBuildDone
    PROVE  Inv'
<1>a. /\ Types /\ BuildOrder /\ DeployOrder /\ Offers /\ Newest /\ Running /\ Store /\ Stops
      /\ NothingForgotten
  BY DEF Inv
<1> USE <1>a, ManagerAssumption
    DEF Uuids, None, Numbers, Stopping, Preempting, ReceiveBuildDone, Goes, LoopStep,
        builderVars, storeVars, buildVars, channelVars,
        buildConfirmerVars, deployConfirmerVars, loopVars, deployerVars
<1>b. GenerationUuid # None => GenerationUuid \in stored
  BY CurrentIsStored
<1>1. Types'
  <2>1. fate' \in [Uuids -> {"none", "dropped", "skipped", "deployed", "overwritten"}]
    BY DEF Types
  <2>2. argument' \in Numbers
    BY DEF Types
  <2>3. loop' \in {"select", "submitBuild", "submitDeploy"}
    OBVIOUS
  <2> QED
    BY <2>1, <2>2, <2>3 DEF Types
<1>2. (BuildOrder /\ DeployOrder)'
  BY <1>b DEF Types, BuildOrder, DeployOrder, Newest, Running
<1>3. (Offers /\ Newest)'
  BY <1>b DEF Types, Offers, BuildOrder, DeployOrder, Newest, Running
<1>4. Running'
  BY <1>b DEF Types, Newest, Running, Stops, BuildsWaitedFor
<1>5. (Store /\ Stops)'
  BY <1>b DEF Types, Newest, Running, Store, Stops, Markers, BuildsWaitedFor
<1>6. NothingForgotten'
  BY <1>b DEF Types, NothingForgotten, BuildOrder, DeployOrder, Newest, Running, Offers,
        BuildsWaitedFor
<1> QED
  BY <1>1, <1>2, <1>3, <1>4, <1>5, <1>6 DEF Inv

\* its submission to the deploy confirmer,
LEMMA DeployConfirmerSubmitKeeps ==
    ASSUME Inv, DeployConfirmerSubmit
    PROVE  Inv'
<1>a. /\ Types /\ BuildOrder /\ DeployOrder /\ Offers /\ Newest /\ Running /\ Store /\ Stops
      /\ NothingForgotten
  BY DEF Inv
<1> USE <1>a, ManagerAssumption
    DEF Uuids, None, Numbers, Stopping, Preempting, DeployConfirmerSubmit,
        DeployConfirmer!Put, Goes, LoopStep,
        builderVars, storeVars, buildVars, channelVars,
        buildConfirmerVars, deployConfirmerVars, loopVars, deployerVars
<1>b. GenerationUuid # None => GenerationUuid \in stored
  BY CurrentIsStored
<1>1. Types'
  BY <1>b DEF Types
<1>2. (BuildOrder /\ DeployOrder)'
  BY <1>b DEF Types, BuildOrder, DeployOrder, Newest, Running
<1>3. (Offers /\ Newest)'
  BY <1>b DEF Types, Offers, BuildOrder, DeployOrder, Newest, Running
<1>4. Running'
  BY <1>b DEF Types, Newest, Running, Stops, BuildsWaitedFor
<1>5. (Store /\ Stops)'
  BY <1>b DEF Types, Newest, Running, Store, Stops, Markers, BuildsWaitedFor
<1>6. NothingForgotten'
  BY <1>b DEF Types, NothingForgotten, BuildOrder, DeployOrder, Newest, Running, Offers,
        BuildsWaitedFor
<1> QED
  BY <1>1, <1>2, <1>3, <1>4, <1>5, <1>6 DEF Inv

\* its submission to the deployer,
LEMMA SubmitDeploymentKeeps ==
    ASSUME Inv, SubmitDeployment
    PROVE  Inv'
<1>a. /\ Types /\ BuildOrder /\ DeployOrder /\ Offers /\ Newest /\ Running /\ Store /\ Stops
      /\ NothingForgotten
  BY DEF Inv
<1> USE <1>a, ManagerAssumption
    DEF Uuids, None, Numbers, Stopping, Preempting, SubmitDeployment,
        DeployConfirmer!Take, Goes, LoopStep,
        builderVars, storeVars, buildVars, channelVars,
        buildConfirmerVars, deployConfirmerVars, loopVars, deployerVars
<1>b. GenerationUuid # None => GenerationUuid \in stored
  BY CurrentIsStored
<1>1. Types'
  BY <1>b DEF Types
<1>2. (BuildOrder /\ DeployOrder)'
  BY <1>b DEF Types, BuildOrder, DeployOrder, Newest, Running
<1>3. (Offers /\ Newest)'
  BY <1>b DEF Types, Offers, BuildOrder, DeployOrder, Newest, Running
<1>4. Running'
  BY <1>b DEF Types, Newest, Running, Stops, BuildsWaitedFor
<1>5. (Store /\ Stops)'
  BY <1>b DEF Types, Newest, Running, Store, Stops, Markers, BuildsWaitedFor
<1>6. NothingForgotten'
  BY <1>b DEF Types, NothingForgotten, BuildOrder, DeployOrder, Newest, Running, Offers,
        BuildsWaitedFor
<1> QED
  BY <1>1, <1>2, <1>3, <1>4, <1>5, <1>6 DEF Inv

\* a confirmation,
LEMMA ConfirmKeeps ==
    ASSUME Inv, Confirm
    PROVE  Inv'
<1>a. /\ Types /\ BuildOrder /\ DeployOrder /\ Offers /\ Newest /\ Running /\ Store /\ Stops
      /\ NothingForgotten
  BY DEF Inv
<1> USE <1>a, ManagerAssumption
    DEF Uuids, None, Numbers, Stopping, Preempting, Confirm,
        BuildConfirmer!Grant, DeployConfirmer!Grant,
        builderVars, storeVars, buildVars, channelVars,
        buildConfirmerVars, deployConfirmerVars, loopVars, deployerVars
<1>1. Types'
  BY DEF Types
<1>2. (BuildOrder /\ DeployOrder)'
  BY DEF Types, BuildOrder, DeployOrder, Newest, Running
<1>3. (Offers /\ Newest)'
  BY DEF Types, Offers, BuildOrder, DeployOrder, Newest, Running
<1>4. Running'
  BY DEF Types, Newest, Running, Stops, BuildsWaitedFor
<1>5. (Store /\ Stops)'
  BY DEF Types, Newest, Running, Store, Stops, Markers, BuildsWaitedFor
<1>6. NothingForgotten'
  BY DEF Types, NothingForgotten, BuildOrder, DeployOrder, Newest, Running, Offers,
        BuildsWaitedFor
<1> QED
  BY <1>1, <1>2, <1>3, <1>4, <1>5, <1>6 DEF Inv

\* a deployment,
LEMMA DeployKeeps ==
    ASSUME Inv, Deploy
    PROVE  Inv'
<1>a. /\ Types /\ BuildOrder /\ DeployOrder /\ Offers /\ Newest /\ Running /\ Store /\ Stops
      /\ NothingForgotten
  BY DEF Inv
<1> USE <1>a, ManagerAssumption
    DEF Uuids, None, Numbers, Stopping, Preempting, Deploy,
        builderVars, storeVars, buildVars, channelVars,
        buildConfirmerVars, deployConfirmerVars, loopVars, deployerVars
<1>1. Types'
  BY DEF Types
<1>2. (BuildOrder /\ DeployOrder)'
  BY DEF Types, BuildOrder, DeployOrder, Newest, Running
<1>3. (Offers /\ Newest)'
  BY DEF Types, Offers, BuildOrder, DeployOrder, Newest, Running
<1>4. Running'
  BY DEF Types, Newest, Running, Stops, BuildsWaitedFor
<1>5. (Store /\ Stops)'
  BY DEF Types, Newest, Running, Store, Stops, Markers, BuildsWaitedFor
<1>6. NothingForgotten'
  BY DEF Types, NothingForgotten, BuildOrder, DeployOrder, Newest, Running, Offers,
        BuildsWaitedFor
<1> QED
  BY <1>1, <1>2, <1>3, <1>4, <1>5, <1>6 DEF Inv

\* the reading of a resubmission
LEMMA DeploymentLatestSubmitKeeps ==
    ASSUME Inv, DeploymentLatestSubmit
    PROVE  Inv'
<1>a. /\ Types /\ BuildOrder /\ DeployOrder /\ Offers /\ Newest /\ Running /\ Store /\ Stops
      /\ NothingForgotten
  BY DEF Inv
<1> USE <1>a, ManagerAssumption
    DEF Uuids, None, Numbers, Stopping, Preempting, DeploymentLatestSubmit,
        builderVars, storeVars, buildVars, channelVars,
        buildConfirmerVars, deployConfirmerVars, loopVars, deployerVars
<1>1. Types'
  BY DEF Types
<1>2. (BuildOrder /\ DeployOrder)'
  BY DEF Types, BuildOrder, DeployOrder, Newest, Running
<1>3. (Offers /\ Newest)'
  BY DEF Types, Offers, BuildOrder, DeployOrder, Newest, Running
<1>4. Running'
  BY DEF Types, Newest, Running, Stops, BuildsWaitedFor
<1>5. (Store /\ Stops)'
  BY DEF Types, Newest, Running, Store, Stops, Markers, BuildsWaitedFor
<1>6. NothingForgotten'
  BY DEF Types, NothingForgotten, BuildOrder, DeployOrder, Newest, Running, Offers,
        BuildsWaitedFor
<1> QED
  BY <1>1, <1>2, <1>3, <1>4, <1>5, <1>6 DEF Inv

\* and the resubmission.
LEMMA ForceSubmitKeeps ==
    ASSUME Inv, ForceSubmit
    PROVE  Inv'
<1>a. /\ Types /\ BuildOrder /\ DeployOrder /\ Offers /\ Newest /\ Running /\ Store /\ Stops
      /\ NothingForgotten
  BY DEF Inv
<1> USE <1>a, ManagerAssumption
    DEF Uuids, None, Numbers, Stopping, Preempting, ForceSubmit,
        builderVars, storeVars, buildVars, channelVars,
        buildConfirmerVars, deployConfirmerVars, loopVars, deployerVars
<1>1. Types'
  BY DEF Types
<1>2. (BuildOrder /\ DeployOrder)'
  BY DEF Types, BuildOrder, DeployOrder, Newest, Running
<1>3. (Offers /\ Newest)'
  BY DEF Types, Offers, BuildOrder, DeployOrder, Newest, Running
<1>4. Running'
  BY DEF Types, Newest, Running, Stops, BuildsWaitedFor
<1>5. (Store /\ Stops)'
  BY DEF Types, Newest, Running, Store, Stops, Markers, BuildsWaitedFor
<1>6. NothingForgotten'
  BY DEF Types, NothingForgotten, BuildOrder, DeployOrder, Newest, Running, Offers,
        BuildsWaitedFor
<1> QED
  BY <1>1, <1>2, <1>3, <1>4, <1>5, <1>6 DEF Inv

\* The invariant holds in every reachable state.
LEMMA InvAlways == Spec => []Inv
<1>1. Init => Inv
  <2> SUFFICES ASSUME Init PROVE Inv
    OBVIOUS
  <2> USE ManagerAssumption
      DEF Init, Uuids, None, Numbers, BuildConfirmer!Init, DeployConfirmer!Init
  <2>1. Types
    BY DEF Types, Markers
  <2>2. BuildOrder /\ DeployOrder /\ Offers
    BY DEF BuildOrder, DeployOrder, Offers
  <2>3. Newest /\ Running
    BY DEF Newest, Running, Preempting, Stopping
  <2>4. Store /\ Stops /\ NothingForgotten
    BY DEF Store, Stops, NothingForgotten, Markers, Stopping
  <2> QED
    BY <2>1, <2>2, <2>3, <2>4 DEF Inv
<1>2. Inv /\ [Next]_vars => Inv'
  <2> SUFFICES ASSUME Inv, [Next]_vars PROVE Inv'
    OBVIOUS
  <2>1. CASE Loop
    BY <2>1, NewCommitKeeps, NewGenerationKeeps, EvalStoppedKeeps, BuildStoppedKeeps,
       ClearBuildingKeeps, StartEvalKeeps, ReceiveEvaluationDoneKeeps,
       BuildConfirmerSubmitKeeps, SubmitBuildKeeps, ReceiveBuildDoneKeeps,
       DeployConfirmerSubmitKeeps, SubmitDeploymentKeeps DEF Loop
  <2>2. CASE Tasks
    BY <2>2, EvalEndsKeeps, BuildEndsKeeps DEF Tasks
  <2>3. CASE \E c \in Clients : Suspend(c) \/ Suspending(c) \/ Resume(c)
    BY <2>3, SuspendKeeps, SuspendBuildStoppedKeeps, SuspendClearBuildingKeeps,
       SuspendSetKeeps, ResumeKeeps DEF Suspending
  <2>4. CASE Confirm \/ Deploy \/ DeploymentLatestSubmit \/ ForceSubmit
    BY <2>4, ConfirmKeeps, DeployKeeps, DeploymentLatestSubmitKeeps, ForceSubmitKeeps
  <2>5. CASE UNCHANGED vars
    BY <2>5 DEF Inv, Types, BuildOrder, DeployOrder, Offers, Newest, Running, Store, Stops,
                BuildsWaitedFor, NothingForgotten, vars, builderVars, storeVars, buildVars,
                channelVars, buildConfirmerVars, deployConfirmerVars, loopVars, deployerVars
  <2> QED
    BY <2>1, <2>2, <2>3, <2>4, <2>5 DEF Next
<1> QED
  BY <1>1, <1>2, PTL DEF Spec

\* The current generation is never forgotten on its way to the deployer, whatever
\* preempts, suspends, confirms or resubmits in between, and whatever builds overlap.
THEOREM NoGenerationForgotten == Spec => []NothingForgotten
<1>1. Inv => NothingForgotten
  BY DEF Inv
<1> QED
  BY <1>1, InvAlways, PTL

\* What the manager hands over to the deployer never goes back to an older generation, for
\* every number of clients whose builds overlap with the steps of Eval and of Suspend.
THEOREM HandedOverInOrder == Spec => DeploysInOrder
<1>1. Inv /\ [Next]_vars => [handed' >= handed]_handed
  <2> SUFFICES ASSUME Inv, [Next]_vars, handed' # handed PROVE handed' >= handed
    OBVIOUS
  <2> USE DEF deployerVars
  <2>1. CASE Loop
    <3>1. SubmitDeployment
      BY <2>1 DEF Loop, LoopStep, NewCommit, NewGeneration, EvalStopped, BuildStopped,
                  ClearBuilding, StartEval, ReceiveEvaluationDone, BuildConfirmerSubmit,
                  SubmitBuild, ReceiveBuildDone, DeployConfirmerSubmit
    <3>2. handed' = deployWaiting /\ deployWaiting # None
      BY <3>1 DEF SubmitDeployment, Inv, Offers, DeployConfirmer!Take
    <3> QED
      BY <3>2, ManagerAssumption DEF Inv, DeployOrder, Types, Numbers, Uuids, None
  <2>2. ~Tasks
    BY DEF Tasks, EvalEnds, BuildEnds, BuilderStep
  <2>3. ~ \E c \in Clients : Suspend(c) \/ Suspending(c) \/ Resume(c)
    BY DEF Suspend, Suspending, SuspendBuildStopped, SuspendClearBuilding, SuspendSet, Resume,
           BuilderStep
  <2>4. ~(Confirm \/ Deploy \/ DeploymentLatestSubmit \/ ForceSubmit)
    BY DEF Confirm, Deploy, DeploymentLatestSubmit, ForceSubmit
  <2> QED
    BY <2>1, <2>2, <2>3, <2>4 DEF Next, vars
<1> QED
  BY <1>1, InvAlways, PTL DEF Spec, DeploysInOrder
=============================================================================
