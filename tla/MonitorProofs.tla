--------------------------- MODULE MonitorProofs ---------------------------
(***************************************************************************)
(* Proofs about Monitor, for all capacities of the subscriber's channel    *)
(* and any number of operations, requests, restarts and cut streams.       *)
(*                                                                         *)
(* Each thing that is shown is told by events of some types, which one     *)
(* goroutine publishes.  The inductive invariant is about the last of them *)
(* that is on its way, wherever it is: it tells how things are now.  When  *)
(* there is none and none was missed, what is shown, or will be shown when *)
(* the snapshot arrives, is how things are.                                *)
(***************************************************************************)
EXTENDS Monitor, SequenceTheorems, TLAPS

-----------------------------------------------------------------------------
(* Types.                                                                  *)

TypesOf(p) ==
    CASE p = "builder" -> {"EvalStarted", "EvalFinished", "BuildStarted", "BuildFinished"}
      [] p = "deployer" -> {"DeploymentStarted", "DeploymentFinished"}
      [] p = "manager" -> {"RebootRequired"}
      [] p = "handler" -> {"Suspend", "Resume"}
      [] p = "fetcher" -> {"Fetched"}

Types == UNION {TypesOf(p) : p \in Publishers}

EventsOf(p) == [type: TypesOf(p), ref: Nat]
Events == [type: Types, ref: Nat]

GenerationType == [n: Nat, eval: {"none", "evaluating", "evaluated", "failed"},
                   build: {"none", "init", "building", "built", "failed"}]
DeploymentType == [n: Nat, status: {"none", "init", "running", "done", "failed"}]

BuilderType == [evaluating: BOOLEAN, building: BOOLEAN, suspended: BOOLEAN, generation: Nat]
DeployerType == [deploying: BOOLEAN, suspended: BOOLEAN, deployment: Nat]

\* Records with the fields of the builder's and the deployer's state.
BuilderFields(b) ==
    b = [evaluating |-> b.evaluating, building |-> b.building, suspended |-> b.suspended,
         generation |-> b.generation]
DeployerFields(d) ==
    d = [deploying |-> d.deploying, suspended |-> d.suspended, deployment |-> d.deployment]

\* The builder: an evaluation and a build are of the current generation, and not at the
\* same time.
BuilderInv ==
    /\ builder \in BuilderType
    /\ generations \in Seq(GenerationType)
    /\ builder.generation \in 0..Len(generations)
    /\ builder.evaluating => /\ builder.generation > 0 /\ ~builder.building
                             /\ generations[builder.generation].eval = "evaluating"
    /\ builder.building => builder.generation > 0

DeployerInv ==
    /\ deployer \in DeployerType
    /\ deployments \in Seq(DeploymentType)
    /\ deployer.deployment \in 0..Len(deployments)
    /\ runner \in {"created", "running"} => deployer.deployment > 0
    /\ deployer.deploying <=> runner \in {"created", "running", "command"}

FlagInv ==
    suspended \in BOOLEAN /\ needToReboot \in BOOLEAN /\ isFetching \in BOOLEAN

BrokerInv ==
    /\ publishing \in [Publishers -> Seq(Events)]
    /\ \A p \in Publishers : publishing[p] \in Seq(EventsOf(p))
    /\ publishCh \in Seq(Events) /\ Len(publishCh) <= 1
    /\ channel \in Seq(Events)
    /\ subscribed \in BOOLEAN /\ missed \in BOOLEAN
    /\ ~subscribed => channel = <<>>

\* The terminal follows the stream; the state loop has read the manager's flags, and the
\* builder, for it.
Streams == events = "streaming" /\ connection = "open"
FlagsRead == events \in {"wait", "snapshot"}
BuilderRead == events = "snapshot" \/ (events = "wait" /\ stateLoop = "deployer")

\* The stream: a handler that waits for a snapshot, or has it, is the one that the
\* state loop answers, and the snapshot has the parts that were read.
StreamInv ==
    /\ observer \in {"watch", "metrics"}
    /\ observer = "metrics" \/ ~serving => events = "none"
    /\ ~serving => ~subscribed
    /\ observer = "metrics" => client = "connecting"
    /\ client = "connecting" => connection # "open"
    /\ events = "start" => ~subscribed
    /\ events \in {"snapshot", "streaming"} => stateLoop = "select"
    /\ events = "wait" => stateLoop \in {"builder", "deployer"}
    /\ BuilderRead => BuilderFields(state.builder)
    /\ events = "snapshot" =>
            /\ state = [reboot |-> state.reboot, suspended |-> state.suspended,
                        builder |-> state.builder, deployer |-> state.deployer,
                        fetching |-> state.fetching]
            /\ DeployerFields(state.deployer)

\* The terminal and the metrics keep their fields.
ShownInv ==
    /\ view = [connected |-> view.connected, reboot |-> view.reboot, suspended |-> view.suspended,
               fetching |-> view.fetching, builder |-> view.builder, deployer |-> view.deployer]
    /\ BuilderFields(view.builder) /\ DeployerFields(view.deployer)
    /\ metrics = [suspended |-> metrics.suspended, reboot |-> metrics.reboot,
                  evalFailed |-> metrics.evalFailed, buildFailed |-> metrics.buildFailed,
                  deploymentFailed |-> metrics.deploymentFailed,
                  deploymentInfo |-> metrics.deploymentInfo]
    /\ Streams => view.connected

TypeInv == BuilderInv /\ DeployerInv /\ FlagInv /\ BrokerInv /\ StreamInv /\ ShownInv

-----------------------------------------------------------------------------
(* The events that tell something.                                         *)

\* A list has an event of some types.
Has(s, K) == \E i \in 1..Len(s) : s[i].type \in K

\* If so, the last one is in G.
LastIn(s, K, G) ==
    \A i \in 1..Len(s) :
        s[i].type \in K /\ (\A j \in 1..Len(s) : j > i => s[j].type \notin K) => s[i] \in G

\* Of the events of types K on their way in a, b and c the last one, which is furthest back,
\* is in G; if there is none and none was missed, now.
Settled(a, b, c, lost, K, G, now) ==
    /\ LastIn(a, K, G)
    /\ ~Has(a, K) => LastIn(b, K, G)
    /\ ~Has(a, K) /\ ~Has(b, K) /\ ~lost => LastIn(c, K, G)
    /\ ~Has(a, K) /\ ~Has(b, K) /\ ~Has(c, K) /\ ~lost => now

\* The events of goroutine p that are on their way.
Tells(p, K, G, now) == Settled(publishing[p], publishCh, channel, missed, K, G, now)

Current == Generation(builder.generation)
Latest == Deployment(deployer.deployment)

\* The events Suspend and Resume.
SuspensionTold == {e \in Events : (e.type = "Suspend") = suspended}
SuspensionShown ==
    /\ observer = "metrics" => metrics.suspended = suspended
    /\ FlagsRead => state.suspended = suspended
    /\ Streams => view.suspended = suspended

SuspensionSettled == Tells("handler", {"Suspend", "Resume"}, SuspensionTold, SuspensionShown)

\* The events that tell the flag isEvaluating, those that tell isBuilding, and all that
\* refer to a generation.
EvaluatingTold == {e \in Events : (e.type = "EvalStarted") = builder.evaluating}
EvaluatingShown ==
    /\ BuilderRead => state.builder.evaluating = builder.evaluating
    /\ Streams => view.builder.evaluating = builder.evaluating

EvaluatingSettled ==
    Tells("builder", {"EvalStarted", "EvalFinished"}, EvaluatingTold, EvaluatingShown)

BuildingTold == {e \in Events : (e.type = "BuildStarted") = builder.building}
BuildingShown ==
    /\ BuilderRead => state.builder.building = builder.building
    /\ Streams => view.builder.building = builder.building

BuildingSettled ==
    Tells("builder", {"BuildStarted", "BuildFinished"}, BuildingTold, BuildingShown)

GenerationTold == {e \in Events : e.ref = builder.generation}
GenerationShown ==
    /\ BuilderRead => state.builder.generation = Current
    /\ Streams => view.builder.generation = Current

GenerationSettled ==
    Tells("builder", TypesOf("builder"), GenerationTold, GenerationShown)

\* The gauges of evaluations and builds, whose events the metrics read when they have ended.
EvalGaugeTold ==
    {e \in Events : Current.eval \in {"evaluated", "failed"} => e.ref = builder.generation}
EvalGaugeShown ==
    observer = "metrics" /\ Current.eval \in {"evaluated", "failed"} =>
        metrics.evalFailed = (Current.eval = "failed")

EvalGaugeSettled == Tells("builder", {"EvalFinished"}, EvalGaugeTold, EvalGaugeShown)

BuildGaugeTold ==
    {e \in Events : Current.build \in {"built", "failed"} => e.ref = builder.generation}
BuildGaugeShown ==
    observer = "metrics" /\ Current.build \in {"built", "failed"} =>
        metrics.buildFailed = (Current.build = "failed")

BuildGaugeSettled == Tells("builder", {"BuildFinished"}, BuildGaugeTold, BuildGaugeShown)

\* The gauge of the last deployment.
InfoTold ==
    {e \in Events : Latest.status \in {"none", "done", "failed"} => e.ref = deployer.deployment}
InfoShown ==
    observer = "metrics" /\ serving /\ Latest.status \in {"none", "done", "failed"} =>
        /\ metrics.deploymentInfo = Latest.status
        /\ deployer.deployment > restored =>
              metrics.deploymentFailed = (Latest.status = "failed")

InfoSettled == Tells("deployer", {"DeploymentFinished"}, InfoTold, InfoShown)

\* The deployment in the terminal.  A deployment that was created is not yet told, and one
\* is told to have ended while the post deployment command runs.
DeploymentTold ==
    {e \in Events : runner # "created" => /\ e.ref = deployer.deployment
                                          /\ (e.type = "DeploymentStarted") = (runner = "running")}
DeploymentShown ==
    runner # "created" /\ ~stale =>
        /\ events = "snapshot" => /\ state.deployer.deploying = (runner = "running")
                                  /\ state.deployer.deployment = deployer.deployment
        /\ Streams => /\ view.deployer.deploying = (runner = "running")
                                   /\ view.deployer.deployment = Latest

DeploymentSettled ==
    Tells("deployer", TypesOf("deployer"), DeploymentTold, DeploymentShown)

\* A fetch that has ended, and a need to reboot.
FetchShown ==
    /\ events = "snapshot" => (state.fetching => isFetching)
    /\ Streams => (view.fetching => isFetching)

FetchSettled == Tells("fetcher", {"Fetched"}, Events, FetchShown)

RebootShown ==
    /\ FlagsRead => (needToReboot => state.reboot)
    /\ Streams => (needToReboot => view.reboot)

RebootSettled == Tells("manager", {"RebootRequired"}, Events, RebootShown)

MonitorInv ==
    /\ TypeInv
    /\ SuspensionSettled /\ FetchSettled /\ RebootSettled
    /\ EvaluatingSettled /\ BuildingSettled /\ GenerationSettled
    /\ EvalGaugeSettled /\ BuildGaugeSettled
    /\ InfoSettled /\ DeploymentSettled

-----------------------------------------------------------------------------
(* How what is settled stays settled.                                      *)

\* Nothing moves, and things only change as the events on their way tell.
LEMMA Unmoved ==
    ASSUME NEW a, NEW b, NEW c, NEW lost, NEW K, NEW G, NEW H, NEW now, NEW then,
           Settled(a, b, c, lost, K, G, now), G \subseteq H, now => then
    PROVE  Settled(a, b, c, lost, K, H, then)
BY DEF Settled, LastIn

\* A goroutine has events to publish: the last of them tells how things are now, or they
\* are about something else.
LEMMA Emitted ==
    ASSUME NEW b, NEW c, NEW lost, NEW K, NEW G, NEW H, NEW now, NEW then, NEW s,
           Settled(<<>>, b, c, lost, K, G, now),
           LastIn(s, K, H), Has(s, K) \/ (G \subseteq H /\ (now => then))
    PROVE  Settled(s, b, c, lost, K, H, then)
<1>1. ~Has(<<>>, K)
  BY DEF Has
<1> QED BY <1>1 DEF Settled, LastIn

\* It publishes the first of them.
LEMMA Published ==
    ASSUME NEW a \in Seq(Events), a # <<>>, NEW c, NEW lost, NEW K, NEW G, NEW now,
           Settled(a, <<>>, c, lost, K, G, now)
    PROVE  Settled(Tail(a), <<Head(a)>>, c, lost, K, G, now)
<1>1. /\ Len(Tail(a)) = Len(a) - 1 /\ Len(a) \in Nat \ {0} /\ Head(a) = a[1]
      /\ \A i \in 1..Len(Tail(a)) : Tail(a)[i] = a[i + 1]
  OBVIOUS
<1>2. Len(<<Head(a)>>) = 1 /\ <<Head(a)>>[1] = a[1]
  BY <1>1
<1>3. Has(a, K) <=> Has(Tail(a), K) \/ Has(<<Head(a)>>, K)
  <2>1. ASSUME NEW i \in 1..Len(a), a[i].type \in K, i # 1 PROVE Has(Tail(a), K)
    <3>1. i - 1 \in 1..Len(Tail(a)) /\ Tail(a)[i - 1] = a[i]
      BY <1>1, <2>1
    <3> QED BY <2>1, <3>1 DEF Has
  <2>2. ASSUME NEW i \in 1..Len(Tail(a)), Tail(a)[i].type \in K PROVE Has(a, K)
    <3>1. i + 1 \in 1..Len(a) /\ a[i + 1] = Tail(a)[i]
      BY <1>1
    <3> QED BY <2>2, <3>1 DEF Has
  <2>3. Has(<<Head(a)>>, K) <=> a[1].type \in K
    BY <1>2 DEF Has
  <2>4. a[1].type \in K => Has(a, K)
    BY <1>1 DEF Has
  <2> QED BY <2>1, <2>2, <2>3, <2>4 DEF Has
<1>4. LastIn(Tail(a), K, G)
  <2> SUFFICES ASSUME NEW i \in 1..Len(Tail(a)), Tail(a)[i].type \in K,
                      \A j \in 1..Len(Tail(a)) : j > i => Tail(a)[j].type \notin K
               PROVE  Tail(a)[i] \in G
    BY DEF LastIn
  <2>1. i + 1 \in 1..Len(a) /\ a[i + 1] = Tail(a)[i]
    BY <1>1
  <2>2. ASSUME NEW j \in 1..Len(a), j > i + 1 PROVE a[j].type \notin K
    <3>1. j - 1 \in 1..Len(Tail(a)) /\ j - 1 > i /\ Tail(a)[j - 1] = a[j]
      BY <1>1, <2>2
    <3> QED BY <3>1
  <2> QED BY <2>1, <2>2 DEF Settled, LastIn
<1>5. ~Has(Tail(a), K) => LastIn(<<Head(a)>>, K, G)
  <2> SUFFICES ASSUME ~Has(Tail(a), K), a[1].type \in K PROVE a[1] \in G
    BY <1>2 DEF LastIn
  <2>1. ASSUME NEW j \in 1..Len(a), j > 1 PROVE a[j].type \notin K
    <3>1. j - 1 \in 1..Len(Tail(a)) /\ Tail(a)[j - 1] = a[j]
      BY <1>1, <2>1
    <3> QED BY <3>1 DEF Has
  <2> QED BY <1>1, <2>1 DEF Settled, LastIn
<1>6. ~Has(<<>>, K)
  BY DEF Has
<1> QED BY <1>3, <1>4, <1>5, <1>6 DEF Settled

\* Another goroutine publishes an event about something else.
LEMMA OtherPublished ==
    ASSUME NEW e, NEW a, NEW c, NEW lost, NEW K, NEW G, NEW now, e.type \notin K,
           Settled(a, <<>>, c, lost, K, G, now)
    PROVE  Settled(a, <<e>>, c, lost, K, G, now)
<1>1. Len(<<e>>) = 1 /\ <<e>>[1] = e
  OBVIOUS
<1>2. ~Has(<<e>>, K) /\ LastIn(<<e>>, K, G) /\ ~Has(<<>>, K)
  BY <1>1 DEF Has, LastIn
<1> QED BY <1>2 DEF Settled

\* The broker appends an event to the subscriber's channel.
LEMMA Forwarded ==
    ASSUME NEW b \in Seq(Events), Len(b) = 1, NEW c \in Seq(Events),
           NEW a, NEW lost, NEW K, NEW G, NEW now,
           Settled(a, b, c, lost, K, G, now)
    PROVE  Settled(a, <<>>, c \o b, lost, K, G, now)
<1> DEFINE d == c \o b
<1>1. /\ Len(c) \in Nat /\ Len(d) = Len(c) + 1 /\ d[Len(d)] = b[1]
      /\ \A i \in 1..Len(c) : d[i] = c[i]
  <2>1. Len(d) = Len(c) + Len(b)
    BY ConcatProperties
  <2>2. \A i \in 1..(Len(c) + Len(b)) : d[i] = IF i <= Len(c) THEN c[i] ELSE b[i - Len(c)]
    BY ConcatProperties
  <2>3. Len(c) \in Nat
    OBVIOUS
  <2> HIDE DEF d
  <2> QED BY <2>1, <2>2, <2>3
<1> HIDE DEF d
<1>2. ~Has(<<>>, K) /\ LastIn(<<>>, K, G)
  BY DEF Has, LastIn
<1>3. Has(b, K) <=> b[1].type \in K
  BY DEF Has
<1>4. Has(d, K) <=> Has(c, K) \/ Has(b, K)
  BY <1>1, <1>3 DEF Has
<1>5. ASSUME ~Has(a, K), ~lost PROVE LastIn(d, K, G)
  <2>1. CASE Has(b, K)
    <3>1. b[1] \in G
      BY <1>3, <1>5, <2>1 DEF Settled, LastIn
    <3>2. ASSUME NEW i \in 1..Len(d), \A j \in 1..Len(d) : j > i => d[j].type \notin K
          PROVE  i = Len(d)
      BY <1>1, <1>3, <2>1, <3>2
    <3> QED BY <1>1, <3>1, <3>2 DEF LastIn
  <2>2. CASE ~Has(b, K)
    <3>1. LastIn(c, K, G) /\ b[1].type \notin K
      BY <1>3, <1>5, <2>2 DEF Settled
    <3> QED BY <1>1, <3>1 DEF LastIn
  <2> QED BY <2>1, <2>2
<1> QED BY <1>2, <1>4, <1>5 DEF Settled, d

\* The subscriber's channel is full.
LEMMA Dropped ==
    ASSUME NEW a, NEW b, NEW c, NEW lost, NEW K, NEW G, NEW now,
           Settled(a, b, c, lost, K, G, now)
    PROVE  Settled(a, <<>>, c, TRUE, K, G, now)
<1>1. ~Has(<<>>, K) /\ LastIn(<<>>, K, G)
  BY DEF Has, LastIn
<1> QED BY <1>1 DEF Settled

\* The subscriber receives an event.
LEMMA Received ==
    ASSUME NEW c \in Seq(Events), c # <<>>,
           NEW a, NEW b, NEW lost, NEW K, NEW G, NEW now, NEW then,
           Settled(a, b, c, lost, K, G, now),
           Head(c).type \in K /\ Head(c) \in G => then,
           Head(c).type \notin K /\ now => then
    PROVE  Settled(a, b, Tail(c), lost, K, G, then)
<1>1. /\ Len(Tail(c)) = Len(c) - 1 /\ Len(c) \in Nat \ {0} /\ Head(c) = c[1]
      /\ \A i \in 1..Len(Tail(c)) : Tail(c)[i] = c[i + 1]
  OBVIOUS
<1>2. ASSUME LastIn(c, K, G) PROVE LastIn(Tail(c), K, G)
  <2> SUFFICES ASSUME NEW i \in 1..Len(Tail(c)), Tail(c)[i].type \in K,
                      \A j \in 1..Len(Tail(c)) : j > i => Tail(c)[j].type \notin K
               PROVE  Tail(c)[i] \in G
    BY DEF LastIn
  <2>1. i + 1 \in 1..Len(c) /\ c[i + 1] = Tail(c)[i]
    BY <1>1
  <2>2. ASSUME NEW j \in 1..Len(c), j > i + 1 PROVE c[j].type \notin K
    <3>1. j - 1 \in 1..Len(Tail(c)) /\ j - 1 > i /\ Tail(c)[j - 1] = c[j]
      BY <1>1, <2>2
    <3> QED BY <3>1
  <2> QED BY <1>2, <2>1, <2>2 DEF LastIn
<1>3. ASSUME ~Has(a, K), ~Has(b, K), ~Has(Tail(c), K), ~lost PROVE then
  <2>1. ASSUME NEW j \in 1..Len(c), j > 1 PROVE c[j].type \notin K
    <3>1. j - 1 \in 1..Len(Tail(c)) /\ Tail(c)[j - 1] = c[j]
      BY <1>1, <2>1
    <3> QED BY <1>3, <3>1 DEF Has
  <2>2. CASE c[1].type \in K
    <3>1. c[1] \in G
      BY <1>1, <1>3, <2>1, <2>2 DEF Settled, LastIn
    <3> QED BY <1>1, <2>2, <3>1
  <2>3. CASE c[1].type \notin K
    <3>1. ~Has(c, K)
      BY <1>1, <2>1, <2>3 DEF Has
    <3> QED BY <1>1, <1>3, <2>3, <3>1 DEF Settled
  <2> QED BY <2>2, <2>3
<1> QED BY <1>2, <1>3 DEF Settled

\* The channel is emptied, and nothing is shown.
LEMMA Emptied ==
    ASSUME NEW a, NEW b, NEW c, NEW lost, NEW K, NEW G, NEW now, NEW lost2, NEW then,
           Settled(a, b, c, lost, K, G, now), then
    PROVE  Settled(a, b, <<>>, lost2, K, G, then)
<1>1. LastIn(<<>>, K, G)
  BY DEF LastIn
<1> QED BY <1>1 DEF Settled

\* Nothing is on its way.
LEMMA Empty ==
    ASSUME NEW lost, NEW K, NEW G, NEW then, then
    PROVE  Settled(<<>>, <<>>, <<>>, lost, K, G, then)
BY DEF LastIn, Settled

-----------------------------------------------------------------------------
(* The types.                                                              *)

\* The initial state.
LEMMA TypeInit == Init => TypeInv
<1> SUFFICES ASSUME Init PROVE TypeInv
  OBVIOUS
<1>1. BuilderInv /\ DeployerInv
  BY DEF Init, NoDeployer, BuilderInv, DeployerInv, BuilderType, DeployerType
<1>2. BrokerInv
  <2>1. \A S : <<>> \in Seq(S)
    OBVIOUS
  <2>2. Len(<<>>) = 0
    OBVIOUS
  <2>3. /\ publishing \in [Publishers -> Seq(Events)]
        /\ \A p \in Publishers : publishing[p] \in Seq(EventsOf(p))
    BY <2>1 DEF Init
  <2>4. publishCh \in Seq(Events) /\ Len(publishCh) <= 1 /\ channel \in Seq(Events)
    BY <2>1, <2>2 DEF Init
  <2>5. subscribed \in BOOLEAN /\ missed \in BOOLEAN /\ (~subscribed => channel = <<>>)
    BY DEF Init
  <2> QED BY <2>3, <2>4, <2>5 DEF BrokerInv
<1>3. FlagInv /\ StreamInv
  BY DEF Init, FlagInv, StreamInv, BuilderRead
<1>4. ShownInv
  BY DEF Init, ShownInv, NoView, NoMetrics, BuilderFields, DeployerFields, Streams
<1> QED BY <1>1, <1>2, <1>3, <1>4 DEF TypeInv

\* A generation gets another status.
LEMMA GenerationUpdated ==
    ASSUME BuilderInv, NEW n \in 1..Len(generations), NEW x \in GenerationType,
           generations' = [generations EXCEPT ![n] = x]
    PROVE  /\ generations' \in Seq(GenerationType) /\ Len(generations') = Len(generations)
           /\ generations'[n] = x
<1>1. generations \in Seq(GenerationType)
  BY DEF BuilderInv
<1> QED BY <1>1

\* What the steps of the builder do to the current generation.
LEMMA EvalStartsIs ==
    ASSUME BuilderInv, EvalStarts
    PROVE  /\ BuilderInv'
           /\ builder'.evaluating /\ ~builder'.building /\ ~builder.building
           /\ Current'.eval = "evaluating" /\ Current'.build = "init"
           /\ builder'.generation \in Nat
           /\ publishing["builder"] = <<>>
           /\ Emits("builder", <<Event("EvalStarted", builder'.generation)>>)
<1> DEFINE n == Len(generations) + 1
           x == [n |-> n, eval |-> "evaluating", build |-> "init"]
<1>1. generations \in Seq(GenerationType) /\ Len(generations) \in Nat
  BY DEF BuilderInv
<1>2. x \in GenerationType
  BY <1>1 DEF GenerationType
<1>3. generations' = Append(generations, x)
  BY DEF EvalStarts, BuilderStep
<1>4. generations' \in Seq(GenerationType) /\ Len(generations') = n /\ generations'[n] = x
  BY <1>1, <1>2, <1>3, AppendProperties
<1>5. builder' = [builder EXCEPT !.evaluating = TRUE, !.generation = n] /\ ~builder.building
  BY DEF EvalStarts, BuilderStep
<1>6. n \in Nat
  BY <1>1
<1> HIDE DEF n
<1>7. /\ builder' \in BuilderType /\ builder'.generation = n /\ builder'.evaluating
      /\ ~builder'.building
  BY <1>5, <1>6 DEF BuilderInv, BuilderType
<1>8. x.eval = "evaluating" /\ x.build = "init"
  OBVIOUS
<1> HIDE DEF x
<1>9. Current' = x
  BY <1>1, <1>4, <1>7 DEF Current, Generation, n
<1>10. BuilderInv'
  BY <1>1, <1>4, <1>7, <1>8 DEF BuilderInv, n
<1>11. /\ publishing["builder"] = <<>>
       /\ Emits("builder", <<Event("EvalStarted", builder'.generation)>>)
  BY <1>7 DEF EvalStarts, BuilderStep, Runs, n
<1> QED BY <1>5, <1>7, <1>8, <1>9, <1>10, <1>11, <1>6

\* An evaluation ends.
LEMMA EvalEndsIs ==
    ASSUME BuilderInv, NEW status \in {"evaluated", "failed"}, NEW exists \in BOOLEAN,
           EvalEnds(status, exists)
    PROVE  /\ BuilderInv'
           /\ ~builder'.evaluating /\ ~builder'.building /\ ~builder.building
           /\ builder'.generation = builder.generation /\ builder.generation \in Nat
           /\ Current'.eval = status
           /\ Current'.build = IF exists THEN "built" ELSE Current.build
           /\ publishing["builder"] = <<>>
           /\ Emits("builder", <<Event("EvalFinished", builder.generation)>> \o
                 IF exists THEN <<Event("BuildStarted", builder.generation),
                                  Event("BuildFinished", builder.generation)>>
                           ELSE <<>>)
<1> DEFINE n == builder.generation
           g == generations[n]
           x == [g EXCEPT !.eval = status, !.build = IF exists THEN "built" ELSE @]
<1>1. n \in 1..Len(generations) /\ g \in GenerationType /\ ~builder.building /\ n \in Nat /\ n # 0
  BY DEF EvalEnds, BuilderInv, BuilderType
<1>2. /\ x \in GenerationType /\ x.eval = status
      /\ x.build = IF exists THEN "built" ELSE g.build
  BY <1>1 DEF GenerationType
<1>3. generations' = [generations EXCEPT ![n] = x]
  BY DEF EvalEnds, BuilderStep
<1>4. builder' = [builder EXCEPT !.evaluating = FALSE]
  BY DEF EvalEnds, BuilderStep
<1>5. /\ builder' \in BuilderType /\ builder'.generation = n /\ ~builder'.evaluating
      /\ ~builder'.building
  BY <1>1, <1>4 DEF BuilderInv, BuilderType
<1>6. Current = g
  BY <1>1 DEF Current, Generation
<1> HIDE DEF x
<1>7. /\ generations' \in Seq(GenerationType) /\ Len(generations') = Len(generations)
      /\ generations'[n] = x
  BY <1>1, <1>2, <1>3, GenerationUpdated
<1>8. Current' = x
  BY <1>1, <1>5, <1>7 DEF Current, Generation
<1>9. BuilderInv'
  BY <1>1, <1>5, <1>7 DEF BuilderInv
<1> HIDE DEF g
<1> QED BY <1>1, <1>2, <1>5, <1>6, <1>8, <1>9 DEF EvalEnds, BuilderStep, Runs

\* A build starts, by itself or when the builder is resumed.
LEMMA BuildStartsIs ==
    ASSUME BuilderInv, BuildStarts \/ (ResumeBuilder /\ HasToBeBuilt(builder.generation))
    PROVE  /\ BuilderInv'
           /\ ~builder'.evaluating /\ ~builder.evaluating /\ builder'.building
           /\ builder'.generation = builder.generation /\ builder.generation \in Nat
           /\ Current'.eval = Current.eval /\ Current'.build = "building"
           /\ publishing["builder"] = <<>>
           /\ Emits("builder", <<Event("BuildStarted", builder.generation)>>)
<1> DEFINE n == builder.generation
           g == generations[n]
           x == [g EXCEPT !.build = "building"]
<1>1. HasToBeBuilt(n)
  BY DEF BuildStarts
<1>2. /\ n \in 1..Len(generations) /\ g \in GenerationType /\ n \in Nat /\ n # 0
      /\ ~builder.evaluating
  BY <1>1 DEF HasToBeBuilt, Generation, NoGeneration, BuilderInv, BuilderType
<1>3. x \in GenerationType /\ x.eval = g.eval /\ x.build = "building"
  BY <1>2 DEF GenerationType
<1>4. generations' = [generations EXCEPT ![n] = x]
  BY <1>1 DEF BuildStarts, BuilderStep, ResumeBuilder
<1>5. \/ builder' = [builder EXCEPT !.building = TRUE]
      \/ builder' = [[builder EXCEPT !.suspended = FALSE] EXCEPT !.building = TRUE]
  BY <1>1 DEF BuildStarts, BuilderStep, ResumeBuilder
<1>6. /\ builder' \in BuilderType /\ builder'.generation = n /\ ~builder'.evaluating
      /\ builder'.building
  BY <1>2, <1>5 DEF BuilderInv, BuilderType
<1>7. Current = g
  BY <1>2 DEF Current, Generation
<1> HIDE DEF x
<1>8. /\ generations' \in Seq(GenerationType) /\ Len(generations') = Len(generations)
      /\ generations'[n] = x
  BY <1>2, <1>3, <1>4, GenerationUpdated
<1>9. Current' = x
  BY <1>2, <1>6, <1>8 DEF Current, Generation
<1>10. BuilderInv'
  BY <1>2, <1>6, <1>8 DEF BuilderInv
<1>11. publishing["builder"] = <<>> /\ Emits("builder", <<Event("BuildStarted", n)>>)
  BY <1>1 DEF BuildStarts, BuilderStep, ResumeBuilder, Runs
<1> HIDE DEF g
<1> QED BY <1>2, <1>3, <1>6, <1>7, <1>9, <1>10, <1>11

\* A build ends.
LEMMA BuildEndsIs ==
    ASSUME BuilderInv, NEW status \in {"built", "failed"}, BuildEnds(status)
    PROVE  /\ BuilderInv'
           /\ ~builder'.evaluating /\ ~builder.evaluating /\ ~builder'.building
           /\ builder'.generation = builder.generation /\ builder.generation \in Nat
           /\ Current'.eval = Current.eval /\ Current'.build = status
           /\ publishing["builder"] = <<>>
           /\ Emits("builder", <<Event("BuildFinished", builder.generation)>>)
<1> DEFINE n == builder.generation
           g == generations[n]
           x == [g EXCEPT !.build = status]
<1>1. /\ n \in 1..Len(generations) /\ g \in GenerationType /\ n \in Nat /\ n # 0
      /\ ~builder.evaluating
  BY DEF BuildEnds, BuilderInv, BuilderType
<1>2. x \in GenerationType /\ x.eval = g.eval /\ x.build = status
  BY <1>1 DEF GenerationType
<1>3. generations' = [generations EXCEPT ![n] = x] /\ builder' = [builder EXCEPT !.building = FALSE]
  BY DEF BuildEnds, BuilderStep
<1>4. /\ builder' \in BuilderType /\ builder'.generation = n /\ ~builder'.evaluating
      /\ ~builder'.building
  BY <1>1, <1>3 DEF BuilderInv, BuilderType
<1>5. Current = g
  BY <1>1 DEF Current, Generation
<1> HIDE DEF x
<1>6. /\ generations' \in Seq(GenerationType) /\ Len(generations') = Len(generations)
      /\ generations'[n] = x
  BY <1>1, <1>2, <1>3, GenerationUpdated
<1>7. Current' = x
  BY <1>1, <1>4, <1>6 DEF Current, Generation
<1>8. BuilderInv'
  BY <1>1, <1>4, <1>6 DEF BuilderInv
<1> HIDE DEF g
<1> QED BY <1>1, <1>2, <1>4, <1>5, <1>7, <1>8 DEF BuildEnds, BuilderStep, Runs

\* The builder is suspended or resumed without a build.
LEMMA SuspensionIs ==
    ASSUME BuilderInv,
           SuspendBuilder \/ (ResumeBuilder /\ ~HasToBeBuilt(builder.generation))
    PROVE  /\ BuilderInv' /\ UNCHANGED <<generations, publishing, Current>>
           /\ builder'.evaluating = builder.evaluating /\ builder'.building = builder.building
           /\ builder'.generation = builder.generation
<1>1. \E s \in BOOLEAN : builder' = [builder EXCEPT !.suspended = s]
  BY DEF SuspendBuilder, ResumeBuilder
<1>2. UNCHANGED <<generations, publishing>>
  BY DEF SuspendBuilder, ResumeBuilder
<1>3. /\ builder' \in BuilderType /\ builder'.evaluating = builder.evaluating
      /\ builder'.building = builder.building /\ builder'.generation = builder.generation
  BY <1>1 DEF BuilderInv, BuilderType
<1>4. BuilderInv'
  BY <1>2, <1>3 DEF BuilderInv
<1> QED BY <1>2, <1>3, <1>4 DEF Current, Generation

\* What the steps of the deployer do to the last deployment.
LEMMA DeployStartsIs ==
    ASSUME DeployerInv, DeployStarts
    PROVE  DeployerInv' /\ Latest'.status = "init" /\ runner' = "created"
<1> DEFINE n == Len(deployments) + 1
           x == [n |-> n, status |-> "init"]
<1>1. deployments \in Seq(DeploymentType) /\ Len(deployments) \in Nat /\ n \in Nat /\ n > 0
  BY DEF DeployerInv
<1>2. x \in DeploymentType /\ x.status = "init"
  BY <1>1 DEF DeploymentType
<1>3. deployments' = Append(deployments, x) /\ runner' = "created"
  BY DEF DeployStarts, RunnerStep
<1>4. deployments' \in Seq(DeploymentType) /\ Len(deployments') = n /\ deployments'[n] = x
  BY <1>1, <1>2, <1>3, AppendProperties
<1>5. deployer' = [deployer EXCEPT !.deploying = TRUE, !.deployment = n]
  BY <1>4 DEF DeployStarts
<1> HIDE DEF n, x
<1>6. /\ deployer' \in DeployerType /\ deployer'.deployment = n /\ deployer'.deploying
  BY <1>1, <1>5 DEF DeployerInv, DeployerType
<1>7. Latest' = x
  BY <1>1, <1>4, <1>6 DEF Latest, Deployment
<1>8. DeployerInv'
  BY <1>1, <1>3, <1>4, <1>6 DEF DeployerInv
<1> QED BY <1>2, <1>3, <1>7, <1>8

\* A deployment starts to run or finishes.
LEMMA DeploymentUpdateIs ==
    ASSUME DeployerInv, NEW type, NEW status \in {"running", "done", "failed"},
           \/ DeploymentStarted /\ status = "running" /\ type = "DeploymentStarted"
           \/ DeploymentFinished(status) /\ type = "DeploymentFinished"
    PROVE  /\ DeployerInv' /\ Latest'.status = status
           /\ UNCHANGED deployer /\ deployer.deployment \in Nat
           /\ runner' = (IF type = "DeploymentStarted" THEN "running" ELSE "command")
           /\ publishing["deployer"] = <<>>
           /\ Emits("deployer", <<Event(type, deployer.deployment)>>)
<1> DEFINE n == deployer.deployment
           d == deployments[n]
           x == [d EXCEPT !.status = status]
<1>1. /\ deployments' = [deployments EXCEPT ![n] = x] /\ UNCHANGED deployer
      /\ runner \in {"created", "running"} /\ publishing["deployer"] = <<>>
      /\ runner' = (IF type = "DeploymentStarted" THEN "running" ELSE "command")
      /\ Emits("deployer", <<Event(type, n)>>)
  BY DEF DeploymentStarted, DeploymentFinished, RunnerStep, Runs, DeploymentUpdate
<1>2. n \in 1..Len(deployments) /\ n \in Nat /\ d \in DeploymentType /\ n # 0
  BY <1>1 DEF DeployerInv, DeployerType
<1>3. x \in DeploymentType /\ x.status = status
  BY <1>2 DEF DeploymentType
<1>4. deployments \in Seq(DeploymentType)
  BY DEF DeployerInv
<1> HIDE DEF x
<1>5. /\ deployments' \in Seq(DeploymentType) /\ Len(deployments') = Len(deployments)
      /\ deployments'[n] = x
  BY <1>1, <1>2, <1>3, <1>4
<1>6. Latest' = x
  BY <1>1, <1>2, <1>5 DEF Latest, Deployment
<1>7. DeployerInv'
  BY <1>1, <1>2, <1>5 DEF DeployerInv
<1> QED BY <1>1, <1>2, <1>3, <1>6, <1>7

\* The deployer's other steps.
LEMMA DeployerFlagIs ==
    ASSUME DeployerInv, DeployEnds \/ UpdateDeployer
    PROVE  /\ DeployerInv' /\ UNCHANGED <<deployments, Latest>>
           /\ deployer'.deployment = deployer.deployment
<1>1. /\ \E f, s \in BOOLEAN : deployer' \in {[deployer EXCEPT !.suspended = s],
                                              [deployer EXCEPT !.deploying = FALSE]}
      /\ UNCHANGED deployments
  BY DEF DeployEnds, UpdateDeployer, Handles
<1>2. deployer' \in DeployerType /\ deployer'.deployment = deployer.deployment
  BY <1>1 DEF DeployerInv, DeployerType
<1>3. CASE UpdateDeployer
  <2>1. deployer'.deploying = deployer.deploying /\ UNCHANGED runner
    BY <1>3 DEF UpdateDeployer, Handles, DeployerInv, DeployerType
  <2> QED BY <1>1, <1>2, <2>1 DEF DeployerInv, Latest, Deployment
<1>4. CASE DeployEnds
  <2>1. ~deployer'.deploying /\ runner' = "notify"
    BY <1>4 DEF DeployEnds, RunnerStep, DeployerInv, DeployerType
  <2> QED BY <1>1, <1>2, <2>1 DEF DeployerInv, Latest, Deployment
<1> QED BY <1>3, <1>4

\* A step of comin's parts: what the subscribers see is left alone.
Apart ==
    UNCHANGED <<serving, publishCh, observer, subscribed, channel, missed, stateLoop, state, events,
                connection, stale, client, view, metrics>>

\* The steps of comin's parts are apart.
LEMMA PartsAreApart ==
    ASSUME \/ Builder \/ Deployer \/ FetchStarts \/ FetchEnds \/ Handler
           \/ \E op \in {"suspend", "resume"}, watch \in BOOLEAN : Request(op, watch)
    PROVE  Apart
<1> USE DEF Apart, brokerVars, streamVars, clientVars
<1>1. CASE Builder
  BY <1>1 DEF Builder, EvalStarts, EvalEnds, BuildStarts, BuildEnds, BuilderStep
<1>2. CASE Deployer
  BY <1>2 DEF Deployer, DeployStarts, DeploymentStarted, DeploymentFinished, DeployEnds,
              ManagerReceives, RunnerStep
<1>3. CASE FetchStarts \/ FetchEnds
  BY <1>3 DEF FetchStarts, FetchEnds, FetcherStep
<1>4. CASE Handler
  BY <1>4 DEF Handler, Refused, SuspendBuilder, ResumeBuilder, UpdateDeployer, UpdateManagerFlag,
              Return, Handles
<1>5. CASE \E op \in {"suspend", "resume"}, watch \in BOOLEAN : Request(op, watch)
  BY <1>5 DEF Request
<1> QED BY <1>1, <1>2, <1>3, <1>4, <1>5

\* A step of the broker, of the stream, of the terminal or of the metrics: what is watched
\* is left alone.
Watches ==
    \/ \E p \in Publishers : Publish(p)
    \/ Forward \/ Stream \/ SendFails
    \/ Connect \/ ConnectFails \/ StreamFails \/ Quit
    \/ MetricsSubscribe \/ MetricsReceive

\* Those who watch only watch.
LEMMA WatchersOnlyWatch ==
    ASSUME Watches
    PROVE  UNCHANGED <<serving, builder, generations, deployer, runner, deployments, suspended,
                       needToReboot, isFetching, Current, Latest>>
<1>1. UNCHANGED <<serving, builder, generations, deployer, runner, deployments, suspended,
                  needToReboot, isFetching>>
  BY DEF Watches, Publish, Forward, Stream, EventsSubscribe, StateRequest, BuilderState,
         DeployerState, StateStep, ReceiveState, ReceiveEvent, Receive, SendFails, Connect,
         ConnectFails, StreamFails, Quit, ClientStep, MetricsSubscribe, MetricsReceive, partVars
<1> QED BY <1>1 DEF Current, Latest, Generation, Deployment

\* The steps, by what they change.
LEMMA Steps ==
    ASSUME [Next]_vars
    PROVE  \/ Builder \/ Deployer \/ FetchStarts \/ FetchEnds \/ Handler
           \/ \E op \in {"suspend", "resume"}, watch \in BOOLEAN : Request(op, watch)
           \/ Watches \/ Stop \/ Start \/ UNCHANGED vars
BY DEF Next, Watches

\* The builder's and the deployer's part.
LEMMA PartTypes ==
    ASSUME BuilderInv, DeployerInv, FlagInv, [Next]_vars
    PROVE  BuilderInv' /\ DeployerInv' /\ FlagInv'
<1>1. ASSUME UNCHANGED <<builder, generations>> PROVE BuilderInv'
  BY <1>1 DEF BuilderInv
<1>2. ASSUME UNCHANGED <<deployer, runner, deployments>> PROVE DeployerInv'
  BY <1>2 DEF DeployerInv
<1>3. ASSUME UNCHANGED <<suspended, needToReboot, isFetching>> PROVE FlagInv'
  BY <1>3 DEF FlagInv
<1>4. CASE Builder
  <2>1. UNCHANGED <<deployer, runner, deployments, suspended, needToReboot, isFetching>>
    BY <1>4 DEF Builder, EvalStarts, EvalEnds, BuildStarts, BuildEnds, BuilderStep
  <2>2. BuilderInv'
    BY <1>4, EvalStartsIs, EvalEndsIs, BuildStartsIs, BuildEndsIs DEF Builder
  <2> QED BY <1>2, <1>3, <2>1, <2>2
<1>5. CASE Deployer
  <2>1. UNCHANGED <<builder, generations>> /\ FlagInv'
    BY <1>5 DEF Deployer, DeployStarts, DeploymentStarted, DeploymentFinished, DeployEnds,
                ManagerReceives, DeploymentUpdate, RunnerStep, FlagInv
  <2>2. CASE DeployStarts \/ DeployEnds
    BY <1>1, <2>1, <2>2, DeployStartsIs, DeployerFlagIs
  <2>3. CASE DeploymentStarted
    BY <1>1, <2>1, <2>3, DeploymentUpdateIs
  <2>4. ASSUME NEW status \in {"done", "failed"}, DeploymentFinished(status)
        PROVE  BuilderInv' /\ DeployerInv' /\ FlagInv'
    BY <1>1, <2>1, <2>4, DeploymentUpdateIs
  <2>5. CASE ManagerReceives
    <3>1. UNCHANGED <<deployer, deployments>> /\ runner = "notify" /\ runner' = "idle"
      BY <2>5 DEF ManagerReceives, RunnerStep
    <3>2. DeployerInv'
      BY <3>1 DEF DeployerInv
    <3> QED BY <1>1, <2>1, <3>2
  <2> QED BY <1>5, <2>2, <2>3, <2>4, <2>5 DEF Deployer
<1>6. CASE FetchStarts \/ FetchEnds
  BY <1>1, <1>2, <1>6 DEF FetchStarts, FetchEnds, FetcherStep, FlagInv
<1>7. CASE Handler
  <2>1. CASE SuspendBuilder \/ ResumeBuilder
    <3>1. UNCHANGED <<deployer, runner, deployments, suspended, needToReboot, isFetching>>
      BY <2>1 DEF SuspendBuilder, ResumeBuilder, Handles
    <3> QED BY <1>2, <1>3, <2>1, <3>1, SuspensionIs, BuildStartsIs
  <2>2. CASE UpdateDeployer
    <3>1. UNCHANGED <<builder, generations, suspended, needToReboot, isFetching>>
      BY <2>2 DEF UpdateDeployer, Handles
    <3> QED BY <1>1, <1>3, <2>2, <3>1, DeployerFlagIs
  <2>3. CASE Refused \/ UpdateManagerFlag \/ Return
    <3>1. /\ UNCHANGED <<builder, generations, deployer, runner, deployments, needToReboot,
                          isFetching>>
          /\ suspended' \in {suspended, TRUE, FALSE}
      BY <2>3 DEF Refused, UpdateManagerFlag, Return, Handles, partVars
    <3>2. FlagInv'
      BY <3>1 DEF FlagInv
    <3> QED BY <1>1, <1>2, <3>1, <3>2
  <2> QED BY <1>7, <2>1, <2>2, <2>3 DEF Handler
<1>8. CASE \E op \in {"suspend", "resume"}, watch \in BOOLEAN : Request(op, watch)
  BY <1>1, <1>2, <1>3, <1>8 DEF Request, partVars
<1>9. CASE Watches
  BY <1>1, <1>2, <1>3, <1>9, WatchersOnlyWatch
<1>10. CASE Stop
  <2>1. builder' = [evaluating |-> FALSE, building |-> FALSE, suspended |-> FALSE, generation |-> 0]
    BY <1>10 DEF Stop
  <2>2. builder' \in BuilderType /\ builder'.generation = 0 /\ ~builder'.evaluating
        /\ ~builder'.building
    BY <2>1 DEF BuilderType
  <2>3. UNCHANGED generations /\ generations \in Seq(GenerationType)
    BY <1>10 DEF Stop, BuilderInv
  <2>4. BuilderInv'
    BY <2>2, <2>3 DEF BuilderInv
  <2>5. FlagInv'
    BY <1>10 DEF Stop, FlagInv
  <2>6. /\ deployer' = [deployer EXCEPT !.deploying = FALSE] \/ deployer' = NoDeployer
        /\ runner' = "idle" /\ UNCHANGED deployments
    BY <1>10 DEF Stop
  <2>7. /\ deployer' \in DeployerType /\ ~deployer'.deploying
        /\ deployer'.deployment \in {0, deployer.deployment}
    <3>1. NoDeployer \in DeployerType /\ ~NoDeployer.deploying /\ NoDeployer.deployment = 0
      BY DEF DeployerType, NoDeployer
    <3>2. CASE deployer' = [deployer EXCEPT !.deploying = FALSE]
      BY <3>2 DEF DeployerInv, DeployerType
    <3>3. CASE deployer' = NoDeployer
      BY <3>1, <3>3
    <3> QED BY <2>6, <3>2, <3>3
  <2>8. deployer'.deployment \in 0..Len(deployments)
    BY <2>7 DEF DeployerInv
  <2>9. DeployerInv'
    BY <2>6, <2>7, <2>8 DEF DeployerInv
  <2> QED BY <2>4, <2>5, <2>9
<1>11. CASE Start
  BY <1>1, <1>2, <1>11 DEF Start, FlagInv
<1>12. CASE UNCHANGED vars
  BY <1>1, <1>2, <1>3, <1>12 DEF vars, partVars
<1> QED BY <1>4, <1>5, <1>6, <1>7, <1>8, <1>9, <1>10, <1>11, <1>12, Steps

\* The types of the events.
LEMMA EventTypes ==
    /\ \A n \in Nat : \A t \in {"EvalStarted", "EvalFinished", "BuildStarted", "BuildFinished"} :
          Event(t, n) \in EventsOf("builder")
    /\ \A n \in Nat : \A t \in {"DeploymentStarted", "DeploymentFinished"} :
          Event(t, n) \in EventsOf("deployer")
    /\ Event("RebootRequired", 0) \in EventsOf("manager")
    /\ Event("Suspend", 0) \in EventsOf("handler") /\ Event("Resume", 0) \in EventsOf("handler")
    /\ Event("Fetched", 0) \in EventsOf("fetcher")
    /\ \A p \in Publishers : TypesOf(p) \subseteq Types /\ EventsOf(p) \subseteq Events
<1>1. /\ TypesOf("builder") = {"EvalStarted", "EvalFinished", "BuildStarted", "BuildFinished"}
      /\ TypesOf("deployer") = {"DeploymentStarted", "DeploymentFinished"}
      /\ TypesOf("manager") = {"RebootRequired"}
      /\ TypesOf("handler") = {"Suspend", "Resume"}
      /\ TypesOf("fetcher") = {"Fetched"}
  BY DEF TypesOf
<1>2. \A p \in Publishers : TypesOf(p) \subseteq Types
  BY DEF Types
<1>3. \A p \in Publishers : EventsOf(p) \subseteq Events
  BY <1>2 DEF EventsOf, Events
<1> QED BY <1>1, <1>2, <1>3 DEF Event, EventsOf

\* Different goroutines publish different types.
LEMMA TypesDiffer ==
    ASSUME NEW p \in Publishers, NEW q \in Publishers, p # q
    PROVE  TypesOf(p) \intersect TypesOf(q) = {}
BY DEF Publishers, TypesOf

\* A goroutine has events to publish.
LEMMA EmitsIs ==
    ASSUME BrokerInv, NEW p \in Publishers, NEW s \in Seq(EventsOf(p)), Emits(p, s)
    PROVE  /\ publishing' \in [Publishers -> Seq(Events)]
           /\ \A q \in Publishers : publishing'[q] \in Seq(EventsOf(q))
           /\ publishing'[p] = s
           /\ \A q \in Publishers : q # p => publishing'[q] = publishing[q]
<1>1. s \in Seq(Events)
  <2>1. EventsOf(p) \subseteq Events
    BY EventTypes
  <2>2. s \in [1..Len(s) -> EventsOf(p)] /\ Len(s) \in Nat
    OBVIOUS
  <2>3. s \in [1..Len(s) -> Events]
    BY <2>1, <2>2
  <2> QED BY <2>2, <2>3, SeqDef
<1>2. publishing' = [publishing EXCEPT ![p] = s] /\ publishing \in [Publishers -> Seq(Events)]
  BY DEF Emits, BrokerInv
<1>3. /\ publishing'[p] = s /\ \A q \in Publishers : q # p => publishing'[q] = publishing[q]
      /\ publishing' \in [Publishers -> Seq(Events)]
  BY <1>1, <1>2
<1> QED BY <1>3 DEF BrokerInv

\* The broker publishes.
LEMMA PublishIs ==
    ASSUME BrokerInv, NEW p \in Publishers, Publish(p)
    PROVE  /\ publishing[p] \in Seq(Events) /\ publishing[p] # <<>> /\ publishCh = <<>>
           /\ Head(publishing[p]) \in EventsOf(p)
           /\ publishCh' = <<Head(publishing[p])>>
           /\ publishing'[p] = Tail(publishing[p])
           /\ \A q \in Publishers : q # p => publishing'[q] = publishing[q]
           /\ UNCHANGED <<channel, missed>>
           /\ BrokerInv'
<1>1. /\ publishing[p] \in Seq(EventsOf(p)) /\ publishing[p] \in Seq(Events)
      /\ publishing[p] # <<>> /\ publishCh = <<>>
      /\ publishCh' = <<Head(publishing[p])>> /\ Emits(p, Tail(publishing[p]))
      /\ UNCHANGED <<channel, missed, subscribed>>
  BY DEF Publish, BrokerInv
<1>2. Head(publishing[p]) \in EventsOf(p) /\ Tail(publishing[p]) \in Seq(EventsOf(p))
  BY <1>1
<1>3. Head(publishing[p]) \in Events
  BY <1>2, EventTypes
<1>4. publishCh' \in Seq(Events) /\ Len(publishCh') = 1
  BY <1>1, <1>3
<1>5. /\ publishing' \in [Publishers -> Seq(Events)]
      /\ \A q \in Publishers : publishing'[q] \in Seq(EventsOf(q))
      /\ publishing'[p] = Tail(publishing[p])
      /\ \A q \in Publishers : q # p => publishing'[q] = publishing[q]
  BY <1>1, <1>2, EmitsIs
<1>6. BrokerInv'
  BY <1>1, <1>4, <1>5 DEF BrokerInv
<1> QED BY <1>1, <1>2, <1>5, <1>6

\* The broker forwards.
LEMMA ForwardIs ==
    ASSUME BrokerInv, Forward
    PROVE  /\ Len(publishCh) = 1 /\ publishCh \in Seq(Events) /\ channel \in Seq(Events)
           /\ publishCh' = <<>>
           /\ \/ channel' = channel \o publishCh /\ UNCHANGED missed
              \/ channel' = channel /\ missed' = TRUE
           /\ UNCHANGED publishing
           /\ BrokerInv'
<1>1. publishCh \in Seq(Events) /\ channel \in Seq(Events) /\ Len(publishCh) <= 1
  BY DEF BrokerInv
<1>2. Len(publishCh) = 1
  <2>1. publishCh # <<>> /\ Len(publishCh) \in Nat
    BY <1>1 DEF Forward
  <2>2. Len(publishCh) # 0
    BY <1>1, <2>1, EmptySeq
  <2>3. \A n \in Nat : n # 0 /\ n <= 1 => n = 1
    OBVIOUS
  <2> QED BY <1>1, <2>1, <2>2, <2>3, Zenon
<1>3. publishCh' = <<>> /\ UNCHANGED <<publishing, subscribed>>
  BY DEF Forward
<1>4. \/ channel' = channel \o publishCh /\ missed' = missed /\ subscribed
      \/ channel' = channel /\ missed' = TRUE
  BY DEF Forward, BrokerInv
<1>5. channel' \in Seq(Events) /\ missed' \in BOOLEAN /\ (~subscribed => channel' = <<>>)
  BY <1>1, <1>4, ConcatProperties DEF BrokerInv
<1>6. publishCh' \in Seq(Events) /\ Len(publishCh') = 0
  BY <1>3
<1>7. BrokerInv'
  BY <1>3, <1>5, <1>6 DEF BrokerInv
<1> QED BY <1>1, <1>2, <1>3, <1>4, <1>7

\* The broker's part.
LEMMA BrokerTypes ==
    ASSUME BuilderInv, DeployerInv, BrokerInv, [Next]_vars
    PROVE  BrokerInv'
<1> DEFINE Typed == /\ publishing' \in [Publishers -> Seq(Events)]
                    /\ \A p \in Publishers : publishing'[p] \in Seq(EventsOf(p))
<1>1. ASSUME Apart, Typed PROVE BrokerInv'
  BY <1>1 DEF BrokerInv, Apart
<1>2. ASSUME UNCHANGED publishing PROVE Typed
  BY <1>2 DEF BrokerInv
<1>3. ASSUME NEW p \in Publishers, NEW s \in Seq(EventsOf(p)), Emits(p, s) PROVE Typed
  BY <1>3, EmitsIs
<1>4. \A S : <<>> \in Seq(S)
  OBVIOUS
<1>5. \A S : \A x \in S : <<x>> \in Seq(S)
  OBVIOUS
<1>6. /\ "builder" \in Publishers /\ "deployer" \in Publishers /\ "manager" \in Publishers
      /\ "handler" \in Publishers /\ "fetcher" \in Publishers
  BY DEF Publishers
<1> HIDE DEF Typed
<1>7. CASE Builder
  <2> SUFFICES Typed
    BY <1>1, <1>7, PartsAreApart
  <2>1. CASE EvalStarts
    <3>1. /\ builder'.generation \in Nat
          /\ Emits("builder", <<Event("EvalStarted", builder'.generation)>>)
      BY <2>1, EvalStartsIs
    <3>2. <<Event("EvalStarted", builder'.generation)>> \in Seq(EventsOf("builder"))
      BY <1>5, <3>1, EventTypes
    <3> QED BY <1>3, <1>6, <3>1, <3>2
  <2>2. ASSUME NEW status \in {"evaluated", "failed"}, NEW exists \in BOOLEAN,
               EvalEnds(status, exists)
        PROVE  Typed
    <3> DEFINE n == builder.generation
               s == IF exists THEN <<Event("BuildStarted", n), Event("BuildFinished", n)>>
                              ELSE <<>>
               t == <<Event("EvalFinished", n)>> \o s
    <3>1. n \in Nat /\ Emits("builder", t)
      BY <2>2, EvalEndsIs
    <3>2. /\ Event("EvalFinished", n) \in EventsOf("builder")
          /\ Event("BuildStarted", n) \in EventsOf("builder")
          /\ Event("BuildFinished", n) \in EventsOf("builder")
      BY <3>1, EventTypes
    <3>3. /\ s \in Seq(EventsOf("builder"))
          /\ <<Event("EvalFinished", n)>> \in Seq(EventsOf("builder"))
      BY <1>4, <1>5, <3>2
    <3> HIDE DEF s
    <3>4. t \in Seq(EventsOf("builder"))
      BY <3>3, ConcatProperties
    <3> HIDE DEF t
    <3> QED BY <1>3, <1>6, <3>1, <3>4
  <2>3. CASE BuildStarts
    <3>1. /\ builder.generation \in Nat
          /\ Emits("builder", <<Event("BuildStarted", builder.generation)>>)
      BY <2>3, BuildStartsIs
    <3>2. <<Event("BuildStarted", builder.generation)>> \in Seq(EventsOf("builder"))
      BY <1>5, <3>1, EventTypes
    <3> QED BY <1>3, <1>6, <3>1, <3>2
  <2>4. ASSUME NEW status \in {"built", "failed"}, BuildEnds(status) PROVE Typed
    <3>1. /\ builder.generation \in Nat
          /\ Emits("builder", <<Event("BuildFinished", builder.generation)>>)
      BY <2>4, BuildEndsIs
    <3>2. <<Event("BuildFinished", builder.generation)>> \in Seq(EventsOf("builder"))
      BY <1>5, <3>1, EventTypes
    <3> QED BY <1>3, <1>6, <3>1, <3>2
  <2> QED BY <1>7, <2>1, <2>2, <2>3, <2>4 DEF Builder
<1>8. CASE Deployer
  <2> SUFFICES Typed
    BY <1>1, <1>8, PartsAreApart
  <2>1. CASE DeployStarts \/ DeployEnds
    BY <1>2, <2>1 DEF DeployStarts, DeployEnds
  <2>2. ASSUME NEW type, NEW status \in {"running", "done", "failed"},
               \/ DeploymentStarted /\ status = "running" /\ type = "DeploymentStarted"
               \/ DeploymentFinished(status) /\ type = "DeploymentFinished"
        PROVE  Typed
    <3>1. /\ deployer.deployment \in Nat
          /\ Emits("deployer", <<Event(type, deployer.deployment)>>)
      BY <2>2, DeploymentUpdateIs
    <3>2. type \in {"DeploymentStarted", "DeploymentFinished"}
      BY <2>2
    <3>3. <<Event(type, deployer.deployment)>> \in Seq(EventsOf("deployer"))
      BY <1>5, <3>1, <3>2, EventTypes
    <3> QED BY <1>3, <1>6, <3>1, <3>3
  <2>3. CASE ManagerReceives
    <3>1. \/ Emits("manager", <<Event("RebootRequired", 0)>>)
          \/ Emits("manager", <<>>)
      BY <2>3 DEF ManagerReceives
    <3>2. /\ <<Event("RebootRequired", 0)>> \in Seq(EventsOf("manager"))
          /\ <<>> \in Seq(EventsOf("manager"))
      BY <1>4, <1>5, EventTypes
    <3> QED BY <1>3, <1>6, <3>1, <3>2
  <2> QED BY <1>8, <2>1, <2>2, <2>3 DEF Deployer
<1>9. CASE FetchStarts \/ FetchEnds
  <2>1. \/ Emits("fetcher", <<Event("Fetched", 0)>>)
        \/ Emits("fetcher", <<>>)
    BY <1>9 DEF FetchStarts, FetchEnds, FetcherStep
  <2>2. <<Event("Fetched", 0)>> \in Seq(EventsOf("fetcher")) /\ <<>> \in Seq(EventsOf("fetcher"))
    BY <1>4, <1>5, EventTypes
  <2> QED BY <1>1, <1>3, <1>6, <1>9, <2>1, <2>2, PartsAreApart
<1>10. CASE Handler
  <2> SUFFICES Typed
    BY <1>1, <1>10, PartsAreApart
  <2>1. CASE Refused \/ SuspendBuilder \/ UpdateDeployer \/ Return
    BY <1>2, <2>1 DEF Refused, SuspendBuilder, UpdateDeployer, Return
  <2>2. CASE ResumeBuilder /\ HasToBeBuilt(builder.generation)
    <3>1. /\ builder.generation \in Nat
          /\ Emits("builder", <<Event("BuildStarted", builder.generation)>>)
      BY <2>2, BuildStartsIs
    <3>2. <<Event("BuildStarted", builder.generation)>> \in Seq(EventsOf("builder"))
      BY <1>5, <3>1, EventTypes
    <3> QED BY <1>3, <1>6, <3>1, <3>2
  <2>3. CASE ResumeBuilder /\ ~HasToBeBuilt(builder.generation)
    BY <1>2, <2>3, SuspensionIs
  <2>4. CASE UpdateManagerFlag
    <3>1. Emits("handler", <<Event("Suspend", 0)>>) \/ Emits("handler", <<Event("Resume", 0)>>)
      BY <2>4 DEF UpdateManagerFlag
    <3>2. /\ <<Event("Suspend", 0)>> \in Seq(EventsOf("handler"))
          /\ <<Event("Resume", 0)>> \in Seq(EventsOf("handler"))
      BY <1>5, EventTypes
    <3> QED BY <1>3, <1>6, <3>1, <3>2
  <2> QED BY <1>10, <2>1, <2>2, <2>3, <2>4 DEF Handler
<1>11. CASE \E op \in {"suspend", "resume"}, watch \in BOOLEAN : Request(op, watch)
  BY <1>1, <1>2, <1>11, PartsAreApart DEF Request
<1>12. CASE Watches
  <2>1. CASE \E p \in Publishers : Publish(p)
    BY <2>1, PublishIs
  <2>2. CASE Forward
    BY <2>2, ForwardIs
  <2>3. CASE \/ ReceiveEvent \/ MetricsReceive
    <3>1. /\ UNCHANGED <<publishing, publishCh, subscribed, missed>> /\ channel # <<>>
          /\ channel' = Tail(channel)
      BY <2>3 DEF ReceiveEvent, Receive, MetricsReceive
    <3>2. channel' \in Seq(Events) /\ subscribed
      BY <3>1 DEF BrokerInv
    <3> QED BY <3>1, <3>2 DEF BrokerInv
  <2>4. CASE Connect \/ SendFails
    <3>1. /\ UNCHANGED <<publishing, publishCh, missed>> /\ channel' = <<>>
          /\ subscribed' = FALSE
      BY <2>4 DEF Connect, SendFails
    <3> QED BY <1>4, <3>1 DEF BrokerInv
  <2>5. CASE EventsSubscribe \/ MetricsSubscribe
    <3>1. /\ UNCHANGED <<publishing, publishCh, channel>>
          /\ subscribed' = TRUE /\ missed' \in {missed, FALSE}
      BY <2>5 DEF EventsSubscribe, MetricsSubscribe
    <3> QED BY <3>1 DEF BrokerInv
  <2>6. CASE \/ StateRequest \/ BuilderState \/ DeployerState \/ ReceiveState
             \/ ConnectFails \/ StreamFails \/ Quit
    <3>1. UNCHANGED <<publishing, publishCh, channel, subscribed, missed>>
      BY <2>6 DEF StateRequest, BuilderState, DeployerState, StateStep, ReceiveState, Receive,
                  ConnectFails, StreamFails, Quit, ClientStep, brokerVars
    <3> QED BY <3>1 DEF BrokerInv
  <2> QED BY <1>12, <2>1, <2>2, <2>3, <2>4, <2>5, <2>6 DEF Watches, Stream
<1>13. CASE Stop
  <2>1. /\ publishing' = [p \in Publishers |-> <<>>] /\ publishCh' = <<>> /\ channel' = <<>>
        /\ subscribed' = FALSE /\ missed' = FALSE
    BY <1>13 DEF Stop
  <2>2. /\ publishing' \in [Publishers -> Seq(Events)]
        /\ \A p \in Publishers : publishing'[p] \in Seq(EventsOf(p))
    BY <1>4, <2>1
  <2>3. publishCh' \in Seq(Events) /\ Len(publishCh') <= 1 /\ channel' \in Seq(Events)
    BY <1>4, <2>1
  <2>4. subscribed' \in BOOLEAN /\ missed' \in BOOLEAN
    BY <2>1
  <2> QED BY <2>1, <2>2, <2>3, <2>4 DEF BrokerInv
<1>14. CASE Start \/ UNCHANGED vars
  <2>1. UNCHANGED <<publishing, publishCh, channel, subscribed, missed>>
    BY <1>14 DEF Start, vars, brokerVars
  <2> QED BY <2>1 DEF BrokerInv
<1> QED BY <1>7, <1>8, <1>9, <1>10, <1>11, <1>12, <1>13, <1>14, Steps

\* The stream's part.
LEMMA StreamTypes ==
    ASSUME BuilderInv, DeployerInv, BrokerInv, StreamInv, [Next]_vars
    PROVE  StreamInv'
<1>1. ASSUME Apart PROVE StreamInv'
  BY <1>1 DEF StreamInv, Apart, BuilderRead
<1>2. ASSUME \/ \E p \in Publishers : Publish(p)
             \/ Forward \/ MetricsSubscribe \/ MetricsReceive
      PROVE  StreamInv'
  BY <1>2 DEF StreamInv, BuilderRead, Publish, Forward, MetricsSubscribe, MetricsReceive,
              streamVars, clientVars
<1>3. CASE EventsSubscribe
  BY <1>3 DEF StreamInv, BuilderRead, EventsSubscribe, clientVars
<1>4. CASE StateRequest
  BY <1>4 DEF StreamInv, BuilderRead, StateRequest, StateStep, clientVars, brokerVars
<1>5. CASE BuilderState
  <2>1. BuilderFields(state'.builder)
    BY <1>5 DEF BuilderState, BuilderInv, BuilderType, BuilderFields
  <2> QED BY <1>5, <2>1 DEF StreamInv, BuilderRead, BuilderState, StateStep, clientVars, brokerVars
<1>6. CASE DeployerState
  <2>1. /\ state'.builder = state.builder /\ state'.deployer = deployer
        /\ state' = [reboot |-> state'.reboot, suspended |-> state'.suspended,
                     builder |-> state'.builder, deployer |-> state'.deployer,
                     fetching |-> state'.fetching]
    BY <1>6 DEF DeployerState
  <2>2. DeployerFields(state'.deployer)
    BY <2>1 DEF DeployerInv, DeployerType, DeployerFields
  <2>3. BuilderFields(state.builder) => BuilderFields(state'.builder)
    BY <2>1
  <2>4. /\ stateLoop = "deployer" /\ stateLoop' = "select" /\ serving
        /\ events' = IF events = "wait" THEN "snapshot" ELSE events
        /\ UNCHANGED <<serving, observer, subscribed, connection, client>>
    BY <1>6 DEF DeployerState, StateStep, clientVars, brokerVars
  <2> QED BY <2>1, <2>2, <2>3, <2>4 DEF StreamInv, BuilderRead
<1>7. CASE ReceiveState \/ ReceiveEvent
  <2>1. /\ events \in {"snapshot", "streaming"} /\ events' = "streaming"
        /\ UNCHANGED <<serving, observer, subscribed, stateLoop, connection, client>>
    BY <1>7 DEF ReceiveState, ReceiveEvent, Receive
  <2> QED BY <2>1 DEF StreamInv, BuilderRead
<1>8. CASE SendFails
  BY <1>8 DEF StreamInv, BuilderRead, SendFails, clientVars
<1>9. CASE Connect
  BY <1>9 DEF StreamInv, BuilderRead, Connect
<1>10. CASE ConnectFails \/ StreamFails
  BY <1>10 DEF StreamInv, BuilderRead, ConnectFails, StreamFails, ClientStep, brokerVars
<1>11. CASE Quit
  BY <1>11 DEF StreamInv, BuilderRead, Quit, brokerVars
<1>12. CASE Stop
  BY <1>12 DEF StreamInv, BuilderRead, Stop, clientVars
<1>13. CASE Start
  BY <1>13 DEF StreamInv, BuilderRead, Start, clientVars, streamVars, brokerVars
<1>14. CASE UNCHANGED vars
  BY <1>14 DEF StreamInv, BuilderRead, vars, clientVars, streamVars, brokerVars
<1> QED BY <1>1, <1>2, <1>3, <1>4, <1>5, <1>6, <1>7, <1>8, <1>9, <1>10, <1>11, <1>12, <1>13, <1>14,
           Steps, PartsAreApart DEF Watches, Stream

\* What the terminal's model is after a message for event e.
Updated(u, e) ==
    /\ u = [connected |-> u.connected, reboot |-> u.reboot, suspended |-> u.suspended,
            fetching |-> u.fetching, builder |-> u.builder, deployer |-> u.deployer]
    /\ BuilderFields(u.builder) /\ DeployerFields(u.deployer)
    /\ u.suspended = IF e.type \in TypesOf("handler") THEN e.type = "Suspend" ELSE view.suspended
    /\ u.reboot = IF e.type \in TypesOf("manager") THEN TRUE ELSE view.reboot
    /\ u.fetching = IF e.type \in TypesOf("fetcher") THEN FALSE ELSE view.fetching
    /\ u.builder.evaluating = IF e.type \in {"EvalStarted", "EvalFinished"}
                              THEN e.type = "EvalStarted" ELSE view.builder.evaluating
    /\ u.builder.building = IF e.type \in {"BuildStarted", "BuildFinished"}
                            THEN e.type = "BuildStarted" ELSE view.builder.building
    /\ u.builder.generation = IF e.type \in TypesOf("builder")
                              THEN Generation(e.ref) ELSE view.builder.generation
    /\ u.deployer.deploying = IF e.type \in TypesOf("deployer")
                              THEN e.type = "DeploymentStarted" ELSE view.deployer.deploying
    /\ u.deployer.deployment = IF e.type \in TypesOf("deployer")
                               THEN Deployment(e.ref) ELSE view.deployer.deployment

\* The types that each goroutine publishes.
LEMMA AllTypes ==
    /\ TypesOf("builder") = {"EvalStarted", "EvalFinished", "BuildStarted", "BuildFinished"}
    /\ TypesOf("deployer") = {"DeploymentStarted", "DeploymentFinished"}
    /\ TypesOf("manager") = {"RebootRequired"}
    /\ TypesOf("handler") = {"Suspend", "Resume"}
    /\ TypesOf("fetcher") = {"Fetched"}
    /\ \A e \in Events : \E p \in Publishers : e.type \in TypesOf(p)
<1>1. /\ TypesOf("builder") = {"EvalStarted", "EvalFinished", "BuildStarted", "BuildFinished"}
      /\ TypesOf("deployer") = {"DeploymentStarted", "DeploymentFinished"}
      /\ TypesOf("manager") = {"RebootRequired"}
      /\ TypesOf("handler") = {"Suspend", "Resume"}
      /\ TypesOf("fetcher") = {"Fetched"}
  BY DEF TypesOf
<1>2. \A e \in Events : \E p \in Publishers : e.type \in TypesOf(p)
  BY DEF Events, Types
<1> QED BY <1>1, <1>2

\* The terminal's model does so.
LEMMA UpdateIs ==
    ASSUME ShownInv, NEW e \in Events
    PROVE  Updated(UpdateManager(view, Message(e)), e)
<1> DEFINE m == Message(e)
           u == UpdateManager(view, m)
           b == view.builder
           d == view.deployer
<1>1. /\ m.type = e.type
      /\ e.type \in TypesOf("builder") => m.generation = Generation(e.ref)
      /\ e.type \in TypesOf("deployer") => m.deployment = Deployment(e.ref)
  BY AllTypes DEF Message
<1>2. /\ view = [connected |-> view.connected, reboot |-> view.reboot, suspended |-> view.suspended,
                 fetching |-> view.fetching, builder |-> b, deployer |-> d]
      /\ BuilderFields(b) /\ DeployerFields(d)
  BY DEF ShownInv
<1> SUFFICES Updated(u, e)
  OBVIOUS
<1> HIDE DEF m
<1>3. CASE e.type \in {"EvalStarted", "EvalFinished"}
  <2>1. u = [view EXCEPT !.builder.evaluating = (e.type = "EvalStarted"),
                         !.builder.generation = Generation(e.ref)]
    BY <1>1, <1>3, AllTypes DEF UpdateManager
  <2> HIDE DEF u
  <2>2. /\ u = [connected |-> view.connected, reboot |-> view.reboot, suspended |-> view.suspended,
                fetching |-> view.fetching, builder |-> u.builder, deployer |-> d]
        /\ u.builder = [b EXCEPT !.evaluating = (e.type = "EvalStarted"),
                                 !.generation = Generation(e.ref)]
    BY <1>2, <2>1
  <2>3. u.builder = [evaluating |-> (e.type = "EvalStarted"), building |-> b.building,
                     suspended |-> b.suspended, generation |-> Generation(e.ref)]
    BY <1>2, <2>2 DEF BuilderFields
  <2>4. BuilderFields(u.builder)
    BY <2>3 DEF BuilderFields
  <2>5. /\ u.reboot = view.reboot /\ u.suspended = view.suspended
        /\ u.fetching = view.fetching /\ u.deployer = d
        /\ u = [connected |-> u.connected, reboot |-> u.reboot, suspended |-> u.suspended,
                fetching |-> u.fetching, builder |-> u.builder, deployer |-> u.deployer]
    BY <2>2
  <2>6. /\ u.builder.evaluating = (e.type = "EvalStarted") /\ u.builder.building = b.building
        /\ u.builder.generation = Generation(e.ref)
    BY <2>3
  <2> QED BY <1>2, <1>3, <2>4, <2>5, <2>6, AllTypes DEF Updated
<1>4. CASE e.type \in {"BuildStarted", "BuildFinished"}
  <2>1. u = [view EXCEPT !.builder.building = (e.type = "BuildStarted"),
                         !.builder.generation = Generation(e.ref)]
    BY <1>1, <1>4, AllTypes DEF UpdateManager
  <2> HIDE DEF u
  <2>2. /\ u = [connected |-> view.connected, reboot |-> view.reboot, suspended |-> view.suspended,
                fetching |-> view.fetching, builder |-> u.builder, deployer |-> d]
        /\ u.builder = [b EXCEPT !.building = (e.type = "BuildStarted"),
                                 !.generation = Generation(e.ref)]
    BY <1>2, <2>1
  <2>3. u.builder = [evaluating |-> b.evaluating, building |-> (e.type = "BuildStarted"),
                     suspended |-> b.suspended, generation |-> Generation(e.ref)]
    BY <1>2, <2>2 DEF BuilderFields
  <2>4. BuilderFields(u.builder)
    BY <2>3 DEF BuilderFields
  <2>5. /\ u.reboot = view.reboot /\ u.suspended = view.suspended
        /\ u.fetching = view.fetching /\ u.deployer = d
        /\ u = [connected |-> u.connected, reboot |-> u.reboot, suspended |-> u.suspended,
                fetching |-> u.fetching, builder |-> u.builder, deployer |-> u.deployer]
    BY <2>2
  <2>6. /\ u.builder.evaluating = b.evaluating /\ u.builder.building = (e.type = "BuildStarted")
        /\ u.builder.generation = Generation(e.ref)
    BY <2>3
  <2> QED BY <1>2, <1>4, <2>4, <2>5, <2>6, AllTypes DEF Updated
<1>5. CASE e.type \in TypesOf("deployer")
  <2>1. u = [view EXCEPT !.deployer.deploying = (e.type = "DeploymentStarted"),
                         !.deployer.deployment = Deployment(e.ref)]
    BY <1>1, <1>5, AllTypes DEF UpdateManager, DeploymentMessage
  <2> HIDE DEF u
  <2>2. /\ u = [connected |-> view.connected, reboot |-> view.reboot, suspended |-> view.suspended,
                fetching |-> view.fetching, builder |-> b, deployer |-> u.deployer]
        /\ u.deployer = [d EXCEPT !.deploying = (e.type = "DeploymentStarted"),
                                  !.deployment = Deployment(e.ref)]
    BY <1>2, <2>1
  <2>3. u.deployer = [deploying |-> (e.type = "DeploymentStarted"),
                      suspended |-> d.suspended, deployment |-> Deployment(e.ref)]
    BY <1>2, <2>2 DEF DeployerFields
  <2>4. DeployerFields(u.deployer)
    BY <2>3 DEF DeployerFields
  <2>5. /\ u.reboot = view.reboot /\ u.suspended = view.suspended
        /\ u.fetching = view.fetching /\ u.builder = b
        /\ u = [connected |-> u.connected, reboot |-> u.reboot, suspended |-> u.suspended,
                fetching |-> u.fetching, builder |-> u.builder, deployer |-> u.deployer]
    BY <2>2
  <2>6. /\ u.deployer.deploying = (e.type = "DeploymentStarted")
        /\ u.deployer.deployment = Deployment(e.ref)
    BY <2>3
  <2> QED BY <1>2, <1>5, <2>4, <2>5, <2>6, AllTypes DEF Updated
<1>6. CASE e.type \in {"Fetched", "Suspend", "Resume", "RebootRequired"}
  <2>1. u = CASE e.type = "Fetched" -> [view EXCEPT !.fetching = FALSE]
              [] e.type \in {"Suspend", "Resume"} ->
                    [view EXCEPT !.suspended = (e.type = "Suspend")]
              [] e.type = "RebootRequired" -> [view EXCEPT !.reboot = TRUE]
    BY <1>1, <1>6, AllTypes DEF UpdateManager
  <2> HIDE DEF u
  <2>2. u = [connected |-> view.connected,
             reboot |-> IF e.type \in TypesOf("manager") THEN TRUE ELSE view.reboot,
             suspended |-> IF e.type \in TypesOf("handler") THEN e.type = "Suspend"
                                                            ELSE view.suspended,
             fetching |-> IF e.type \in TypesOf("fetcher") THEN FALSE ELSE view.fetching,
             builder |-> b, deployer |-> d]
    BY <1>2, <1>6, <2>1, AllTypes
  <2> QED BY <1>2, <1>6, <2>2, AllTypes DEF Updated
<1> QED BY <1>3, <1>4, <1>5, <1>6, AllTypes DEF Publishers

\* What the metrics are after event e.
Gauges(x, e) ==
    /\ x = [suspended |-> x.suspended, reboot |-> x.reboot, evalFailed |-> x.evalFailed,
            buildFailed |-> x.buildFailed, deploymentFailed |-> x.deploymentFailed,
            deploymentInfo |-> x.deploymentInfo]
    /\ x.suspended = IF e.type \in TypesOf("handler") THEN e.type = "Suspend"
                                                      ELSE metrics.suspended
    /\ x.evalFailed = IF e.type = "EvalFinished" THEN Generation(e.ref).eval = "failed"
                                                 ELSE metrics.evalFailed
    /\ x.buildFailed = IF e.type = "BuildFinished" THEN Generation(e.ref).build = "failed"
                                                   ELSE metrics.buildFailed
    /\ x.deploymentFailed = IF e.type = "DeploymentFinished"
                            THEN Deployment(e.ref).status = "failed"
                            ELSE metrics.deploymentFailed
    /\ x.deploymentInfo = IF e.type = "DeploymentFinished" THEN Deployment(e.ref).status
                                                           ELSE metrics.deploymentInfo

\* The metrics do so.
LEMMA MetricsUpdateIs ==
    ASSUME ShownInv, NEW e \in Events
    PROVE  Gauges(MetricsUpdate(metrics, Message(e)), e)
<1> DEFINE m == Message(e)
           x == MetricsUpdate(metrics, m)
<1>1. /\ m.type = e.type
      /\ e.type \in TypesOf("builder") => m.generation = Generation(e.ref)
      /\ e.type \in TypesOf("deployer") => m.deployment = Deployment(e.ref)
  BY AllTypes DEF Message
<1>2. metrics = [suspended |-> metrics.suspended, reboot |-> metrics.reboot,
                 evalFailed |-> metrics.evalFailed, buildFailed |-> metrics.buildFailed,
                 deploymentFailed |-> metrics.deploymentFailed,
                 deploymentInfo |-> metrics.deploymentInfo]
  BY DEF ShownInv
<1> SUFFICES Gauges(x, e)
  OBVIOUS
<1> HIDE DEF m
<1>3. x = CASE e.type = "EvalFinished" ->
                  [metrics EXCEPT !.evalFailed = (Generation(e.ref).eval = "failed")]
            [] e.type = "BuildFinished" ->
                  [metrics EXCEPT !.buildFailed = (Generation(e.ref).build = "failed")]
            [] e.type = "DeploymentFinished" ->
                  [metrics EXCEPT !.deploymentInfo = Deployment(e.ref).status,
                                  !.deploymentFailed = (Deployment(e.ref).status = "failed")]
            [] e.type \in {"Suspend", "Resume"} ->
                  [metrics EXCEPT !.suspended = (e.type = "Suspend")]
            [] e.type = "RebootRequired" -> [metrics EXCEPT !.reboot = TRUE]
            [] OTHER -> metrics
  BY <1>1, AllTypes DEF MetricsUpdate
<1> HIDE DEF x
<1>4. x = [suspended |-> IF e.type \in TypesOf("handler") THEN e.type = "Suspend"
                                                          ELSE metrics.suspended,
           reboot |-> IF e.type = "RebootRequired" THEN TRUE ELSE metrics.reboot,
           evalFailed |-> IF e.type = "EvalFinished" THEN Generation(e.ref).eval = "failed"
                                                     ELSE metrics.evalFailed,
           buildFailed |-> IF e.type = "BuildFinished" THEN Generation(e.ref).build = "failed"
                                                       ELSE metrics.buildFailed,
           deploymentFailed |-> IF e.type = "DeploymentFinished"
                                THEN Deployment(e.ref).status = "failed"
                                ELSE metrics.deploymentFailed,
           deploymentInfo |-> IF e.type = "DeploymentFinished" THEN Deployment(e.ref).status
                                                               ELSE metrics.deploymentInfo]
  BY <1>2, <1>3, AllTypes
<1> QED BY <1>4 DEF Gauges

\* The terminal receives the snapshot.
LEMMA ReceiveStateIs ==
    ASSUME StreamInv, ShownInv, ReceiveState
    PROVE  /\ view' = [connected |-> TRUE, reboot |-> state.reboot, suspended |-> state.suspended,
                       fetching |-> state.fetching, builder |-> state.builder,
                       deployer |-> view'.deployer]
           /\ view'.deployer.deploying = state.deployer.deploying
           /\ view'.deployer.deployment = Deployment(state.deployer.deployment)
           /\ BuilderFields(view'.builder) /\ DeployerFields(view'.deployer)
<1> DEFINE d == state.deployer
           t == [state EXCEPT !.deployer.deployment = Deployment(@)]
           m == [type |-> "State", state |-> t]
<1>1. /\ state = [reboot |-> state.reboot, suspended |-> state.suspended,
                  builder |-> state.builder, deployer |-> d, fetching |-> state.fetching]
      /\ BuilderFields(state.builder) /\ DeployerFields(d)
  BY DEF StreamInv, ReceiveState, BuilderRead
<1>2. /\ t.reboot = state.reboot /\ t.suspended = state.suspended /\ t.builder = state.builder
      /\ t.fetching = state.fetching
      /\ t.deployer = [d EXCEPT !.deployment = Deployment(@)]
  BY <1>1
<1>3. t.deployer = [deploying |-> d.deploying, suspended |-> d.suspended,
                    deployment |-> Deployment(d.deployment)]
  BY <1>1, <1>2 DEF DeployerFields
<1>4. view' = [UpdateManager(view, m) EXCEPT !.connected = TRUE]
  BY DEF ReceiveState, Receive
<1> HIDE DEF t, d
<1>5. UpdateManager(view, m) =
        [view EXCEPT !.reboot = t.reboot, !.suspended = t.suspended, !.builder = t.builder,
                     !.deployer = t.deployer, !.fetching = t.fetching]
  BY DEF UpdateManager
<1> HIDE DEF m
<1>6. view = [connected |-> view.connected, reboot |-> view.reboot, suspended |-> view.suspended,
              fetching |-> view.fetching, builder |-> view.builder, deployer |-> view.deployer]
  BY DEF ShownInv
<1>7. view' = [connected |-> TRUE, reboot |-> t.reboot, suspended |-> t.suspended,
               fetching |-> t.fetching, builder |-> t.builder, deployer |-> t.deployer]
  BY <1>4, <1>5, <1>6
<1>8. view'.builder = state.builder /\ view'.deployer = t.deployer
  BY <1>2, <1>7
<1>9. /\ view'.deployer.deploying = d.deploying
      /\ view'.deployer.deployment = Deployment(d.deployment)
      /\ DeployerFields(view'.deployer)
  BY <1>3, <1>8 DEF DeployerFields
<1>10. BuilderFields(view'.builder)
  BY <1>1, <1>8
<1> QED BY <1>2, <1>7, <1>8, <1>9, <1>10 DEF d

\* The terminal receives an event.
LEMMA ReceiveEventIs ==
    ASSUME BrokerInv, ShownInv, ReceiveEvent
    PROVE  /\ Head(channel) \in Events /\ channel \in Seq(Events) /\ channel # <<>>
           /\ channel' = Tail(channel)
           /\ UNCHANGED <<publishing, publishCh, missed, observer, stale, serving, connection,
                          metrics>>
           /\ events = "streaming" /\ connection = "open" /\ events' = "streaming"
           /\ Updated(view', Head(channel)) /\ view'.connected
<1> DEFINE e == Head(channel)
           u == UpdateManager(view, Message(e))
<1>1. channel \in Seq(Events) /\ channel # <<>>
  BY DEF BrokerInv, ReceiveEvent
<1>2. e \in Events
  BY <1>1
<1>3. /\ channel' = Tail(channel) /\ view' = [u EXCEPT !.connected = TRUE]
      /\ UNCHANGED <<publishing, publishCh, missed, observer, stale, serving, connection, metrics>>
      /\ events = "streaming" /\ connection = "open" /\ events' = "streaming"
  BY DEF ReceiveEvent, Receive
<1> HIDE DEF e
<1>4. Updated(u, e)
  BY <1>2, UpdateIs
<1> HIDE DEF u
<1>5. u = [connected |-> u.connected, reboot |-> u.reboot, suspended |-> u.suspended,
           fetching |-> u.fetching, builder |-> u.builder, deployer |-> u.deployer]
  BY <1>4 DEF Updated
<1>6. view' = [connected |-> TRUE, reboot |-> u.reboot, suspended |-> u.suspended,
               fetching |-> u.fetching, builder |-> u.builder, deployer |-> u.deployer]
  BY <1>3, <1>5
<1>7. /\ view'.connected = TRUE /\ view'.reboot = u.reboot /\ view'.suspended = u.suspended
      /\ view'.fetching = u.fetching /\ view'.builder = u.builder /\ view'.deployer = u.deployer
      /\ view' = [connected |-> view'.connected, reboot |-> view'.reboot,
                  suspended |-> view'.suspended, fetching |-> view'.fetching,
                  builder |-> view'.builder, deployer |-> view'.deployer]
  BY <1>6
<1>8. Updated(view', e)
  BY <1>4, <1>7 DEF Updated
<1> QED BY <1>1, <1>2, <1>3, <1>7, <1>8 DEF e

\* The metrics receive an event.
LEMMA MetricsReceiveIs ==
    ASSUME BrokerInv, ShownInv, MetricsReceive
    PROVE  /\ Head(channel) \in Events /\ channel \in Seq(Events) /\ channel # <<>>
           /\ channel' = Tail(channel) /\ observer = "metrics"
           /\ UNCHANGED <<publishing, publishCh, missed, observer, stale, serving, events,
                          connection, stateLoop, state, view>>
           /\ Gauges(metrics', Head(channel))
<1>1. channel \in Seq(Events) /\ channel # <<>>
  BY DEF BrokerInv, MetricsReceive
<1>2. Head(channel) \in Events
  BY <1>1
<1>3. Gauges(MetricsUpdate(metrics, Message(Head(channel))), Head(channel))
  BY <1>2, MetricsUpdateIs
<1>4. /\ channel' = Tail(channel) /\ observer = "metrics"
      /\ metrics' = MetricsUpdate(metrics, Message(Head(channel)))
      /\ UNCHANGED <<publishing, publishCh, missed, observer, stale, serving, events, connection,
                     stateLoop, state, view>>
  BY DEF MetricsReceive, streamVars, clientVars
<1> QED BY <1>1, <1>2, <1>3, <1>4

\* The terminal's and the metrics' part.
LEMMA ShownTypes ==
    ASSUME BrokerInv, StreamInv, ShownInv, [Next]_vars
    PROVE  ShownInv'
<1>1. ASSUME UNCHANGED <<view, metrics>>, Streams' => Streams PROVE ShownInv'
  BY <1>1 DEF ShownInv
<1>2. ASSUME Apart PROVE ShownInv'
  BY <1>1, <1>2 DEF Apart, Streams
<1>3. CASE \/ \E p \in Publishers : Publish(p)
           \/ Forward \/ MetricsSubscribe \/ EventsSubscribe \/ StateRequest \/ BuilderState
           \/ DeployerState \/ SendFails \/ Connect \/ UNCHANGED vars
  <2>1. UNCHANGED <<view, metrics>>
    BY <1>3 DEF Publish, Forward, MetricsSubscribe, EventsSubscribe, StateRequest, BuilderState,
                DeployerState, StateStep, SendFails, Connect, vars, clientVars
  <2>2. Streams' => Streams
    BY <1>3 DEF Streams, Publish, Forward, MetricsSubscribe, EventsSubscribe, StateRequest,
                BuilderState, DeployerState, StateStep, SendFails, Connect, vars, streamVars
  <2> QED BY <1>1, <2>1, <2>2
<1>4. CASE ConnectFails \/ StreamFails
  <2>1. /\ view' = [view EXCEPT !.connected = FALSE]
        /\ UNCHANGED <<metrics, connection>> /\ connection # "open"
    BY <1>4 DEF ConnectFails, StreamFails, ClientStep, StreamInv
  <2>2. view' = [connected |-> FALSE, reboot |-> view.reboot, suspended |-> view.suspended,
                 fetching |-> view.fetching, builder |-> view.builder, deployer |-> view.deployer]
    BY <2>1 DEF ShownInv
  <2>3. /\ view' = [connected |-> view'.connected, reboot |-> view'.reboot,
                    suspended |-> view'.suspended, fetching |-> view'.fetching,
                    builder |-> view'.builder, deployer |-> view'.deployer]
        /\ view'.builder = view.builder /\ view'.deployer = view.deployer
    BY <2>2
  <2> QED BY <2>1, <2>3 DEF ShownInv, Streams
<1>5. CASE Quit
  <2>1. view' = NoView /\ UNCHANGED metrics /\ connection' = "broken"
    BY <1>5 DEF Quit
  <2>2. /\ view' = [connected |-> view'.connected, reboot |-> view'.reboot,
                    suspended |-> view'.suspended, fetching |-> view'.fetching,
                    builder |-> view'.builder, deployer |-> view'.deployer]
        /\ BuilderFields(view'.builder) /\ DeployerFields(view'.deployer)
    BY <2>1 DEF NoView, BuilderFields, DeployerFields
  <2> QED BY <2>1, <2>2 DEF ShownInv, Streams
<1>6. CASE ReceiveState
  <2>1. UNCHANGED metrics
    BY <1>6 DEF ReceiveState, Receive
  <2>2. /\ view' = [connected |-> view'.connected, reboot |-> view'.reboot,
                    suspended |-> view'.suspended, fetching |-> view'.fetching,
                    builder |-> view'.builder, deployer |-> view'.deployer]
        /\ view'.connected
    BY <1>6, ReceiveStateIs
  <2> QED BY <1>6, <2>1, <2>2, ReceiveStateIs DEF ShownInv
<1>7. CASE ReceiveEvent
  BY <1>7, ReceiveEventIs DEF ShownInv, Updated
<1>8. CASE MetricsReceive
  <2>1. UNCHANGED <<view, events, connection>> /\ Gauges(metrics', Head(channel))
    BY <1>8, MetricsReceiveIs
  <2> QED BY <2>1 DEF ShownInv, Gauges, Streams
<1>9. CASE Stop
  <2>1. UNCHANGED view /\ metrics' = NoMetrics /\ events' = "none"
    BY <1>9 DEF Stop, clientVars
  <2> QED BY <2>1 DEF ShownInv, NoMetrics, Streams
<1>10. CASE Start
  <2>1. /\ UNCHANGED <<view, events, connection>>
        /\ metrics' = [metrics EXCEPT !.deploymentInfo = Deployment(deployer.deployment).status]
    BY <1>10 DEF Start, clientVars, streamVars
  <2>2. metrics' = [suspended |-> metrics.suspended, reboot |-> metrics.reboot,
                    evalFailed |-> metrics.evalFailed, buildFailed |-> metrics.buildFailed,
                    deploymentFailed |-> metrics.deploymentFailed,
                    deploymentInfo |-> Deployment(deployer.deployment).status]
    BY <2>1 DEF ShownInv
  <2>3. metrics' = [suspended |-> metrics'.suspended, reboot |-> metrics'.reboot,
                    evalFailed |-> metrics'.evalFailed, buildFailed |-> metrics'.buildFailed,
                    deploymentFailed |-> metrics'.deploymentFailed,
                    deploymentInfo |-> metrics'.deploymentInfo]
    BY <2>2
  <2> QED BY <2>1, <2>3 DEF ShownInv, Streams
<1> QED BY <1>2, <1>3, <1>4, <1>5, <1>6, <1>7, <1>8, <1>9, <1>10, Steps, PartsAreApart
        DEF Watches, Stream

\* Every step keeps the types.
LEMMA TypeStep == TypeInv /\ [Next]_vars => TypeInv'
BY PartTypes, BrokerTypes, StreamTypes, ShownTypes DEF TypeInv

-----------------------------------------------------------------------------
(* What the steps do to the events of one kind.                            *)

\* The broker's steps.
LEMMA BrokerTells ==
    ASSUME BrokerInv, NEW p \in Publishers, NEW K \in SUBSET TypesOf(p), NEW G, NEW now,
           Tells(p, K, G, now), (\E q \in Publishers : Publish(q)) \/ Forward
    PROVE  Settled(publishing'[p], publishCh', channel', missed', K, G, now)
<1>1. CASE Publish(p)
  BY <1>1, PublishIs, Published DEF Tells
<1>2. ASSUME NEW q \in Publishers, q # p, Publish(q)
      PROVE  Settled(publishing'[p], publishCh', channel', missed', K, G, now)
  <2>1. Head(publishing[q]).type \in TypesOf(q)
    BY <1>2, PublishIs DEF EventsOf
  <2>2. Head(publishing[q]).type \notin K
    BY <1>2, <2>1, TypesDiffer
  <2>3. Settled(publishing[p], <<>>, channel, missed, K, G, now)
    BY <1>2, PublishIs DEF Tells
  <2> QED BY <1>2, <2>2, <2>3, PublishIs, OtherPublished
<1>3. CASE Forward
  <2>1. Settled(publishing[p], publishCh, channel, missed, K, G, now)
    BY DEF Tells
  <2>2. CASE channel' = channel \o publishCh /\ UNCHANGED missed
    BY <1>3, <2>1, <2>2, ForwardIs, Forwarded
  <2>3. CASE channel' = channel /\ missed' = TRUE
    BY <1>3, <2>1, <2>3, ForwardIs, Dropped
  <2> QED BY <1>3, <2>2, <2>3, ForwardIs
<1> QED BY <1>1, <1>2, <1>3

\* A stream begins or ends: nothing is shown.
LEMMA StreamTells ==
    ASSUME BrokerInv, StreamInv, NEW p \in Publishers, NEW K, NEW G, NEW now, NEW then,
           Tells(p, K, G, now), EventsSubscribe \/ SendFails \/ Connect, then
    PROVE  /\ Settled(publishing'[p], publishCh', channel', missed', K, G, then)
           /\ observer = "watch" /\ observer' = "watch" /\ UNCHANGED <<serving, metrics>>
           /\ events' \in {"none", "start", "request"}
<1>1. /\ UNCHANGED <<publishing, publishCh, observer, serving, metrics>>
      /\ events' \in {"none", "start", "request"}
  BY DEF EventsSubscribe, SendFails, Connect
<1>2. channel' = <<>>
  BY DEF EventsSubscribe, SendFails, Connect, StreamInv, BrokerInv
<1>3. observer = "watch"
  BY DEF EventsSubscribe, SendFails, Connect, StreamInv
<1> QED BY <1>1, <1>2, <1>3, Emptied DEF Tells

\* The steps of those who watch: a stream begins or ends, an event arrives, and all others.
Opens == EventsSubscribe \/ SendFails \/ Connect
Arrives == ReceiveEvent \/ MetricsReceive
Moves ==
    \/ \E q \in Publishers : Publish(q)
    \/ Forward \/ StateRequest \/ BuilderState \/ DeployerState \/ ReceiveState
    \/ ConnectFails \/ StreamFails \/ Quit \/ MetricsSubscribe

\* What such a step has to do for the events of one kind to stay settled.
LEMMA WatchTells ==
    ASSUME BrokerInv, StreamInv, ShownInv, NEW p \in Publishers, NEW K \in SUBSET TypesOf(p),
           NEW G, NEW now, NEW then, Tells(p, K, G, now),
           \/ Opens /\ then
           \/ /\ Arrives
              /\ Head(channel).type \in K /\ Head(channel) \in G => then
              /\ Head(channel).type \notin K /\ now => then
           \/ Moves /\ (now => then)
    PROVE  Settled(publishing'[p], publishCh', channel', missed', K, G, then)
<1>1. CASE Opens /\ then
  BY <1>1, StreamTells DEF Opens
<1>2. CASE /\ Arrives
           /\ Head(channel).type \in K /\ Head(channel) \in G => then
           /\ Head(channel).type \notin K /\ now => then
  <2>1. /\ channel \in Seq(Events) /\ channel # <<>> /\ channel' = Tail(channel)
        /\ UNCHANGED <<publishing, publishCh, missed>>
    BY <1>2, ReceiveEventIs, MetricsReceiveIs DEF Arrives
  <2>2. Settled(publishing[p], publishCh, channel, missed, K, G, now)
    BY DEF Tells
  <2>3. Settled(publishing[p], publishCh, Tail(channel), missed, K, G, then)
    BY <1>2, <2>1, <2>2, Received
  <2> QED BY <2>1, <2>3
<1>3. CASE Moves /\ (now => then)
  <2>1. CASE (\E q \in Publishers : Publish(q)) \/ Forward
    <3>1. Settled(publishing'[p], publishCh', channel', missed', K, G, now)
      BY <2>1, BrokerTells
    <3> QED BY <1>3, <3>1, Unmoved
  <2>2. CASE \/ StateRequest \/ BuilderState \/ DeployerState \/ ReceiveState
             \/ ConnectFails \/ StreamFails \/ Quit \/ MetricsSubscribe
    <3>1. UNCHANGED <<publishing, publishCh, channel, missed>>
      BY <2>2 DEF StateRequest, BuilderState, DeployerState, StateStep, ReceiveState, Receive,
                  ConnectFails, StreamFails, Quit, MetricsSubscribe, ClientStep, brokerVars
    <3> QED BY <1>3, <3>1, Unmoved DEF Tells
  <2> QED BY <1>3, <2>1, <2>2 DEF Moves
<1> QED BY <1>1, <1>2, <1>3

\* There are no other steps of theirs.
LEMMA WatchersAre == Watches => Opens \/ Arrives \/ Moves
BY DEF Watches, Stream, Opens, Arrives, Moves

\* A step of comin's parts that publishes nothing of the kind.
LEMMA PartTells ==
    ASSUME NEW p \in Publishers, NEW K, NEW G, NEW H, NEW now, NEW then, Tells(p, K, G, now),
           UNCHANGED <<publishCh, channel, missed>>, publishing'[p] = publishing[p],
           G \subseteq H, now => then
    PROVE  Settled(publishing'[p], publishCh', channel', missed', K, H, then)
BY Unmoved DEF Tells

\* One that does.
LEMMA EmitTells ==
    ASSUME BrokerInv, NEW p \in Publishers, NEW s \in Seq(EventsOf(p)),
           NEW K, NEW G, NEW H, NEW now, NEW then, Tells(p, K, G, now),
           Apart, publishing[p] = <<>>, Emits(p, s),
           LastIn(s, K, H), Has(s, K) \/ (G \subseteq H /\ (now => then))
    PROVE  Settled(publishing'[p], publishCh', channel', missed', K, H, then)
<1>1. UNCHANGED <<publishCh, channel, missed>> /\ publishing'[p] = s
  BY EmitsIs DEF Apart
<1> QED BY <1>1, Emitted DEF Tells

\* A single event.
LEMMA OneEvent ==
    ASSUME NEW e, NEW K, NEW H
    PROVE  /\ LastIn(<<e>>, K, H) <=> (e.type \in K => e \in H)
           /\ Has(<<e>>, K) <=> e.type \in K
<1>1. Len(<<e>>) = 1 /\ <<e>>[1] = e
  OBVIOUS
<1> QED BY <1>1 DEF LastIn, Has

\* The process stops.
LEMMA StopTells ==
    ASSUME Stop, NEW p \in Publishers, NEW K, NEW G, NEW then, then
    PROVE  Settled(publishing'[p], publishCh', channel', missed', K, G, then)
<1>1. publishing'[p] = <<>> /\ publishCh' = <<>> /\ channel' = <<>>
  BY DEF Stop
<1> QED BY <1>1, Empty

\* A step of comin's parts.
Parts ==
    \/ Builder \/ Deployer \/ FetchStarts \/ FetchEnds \/ Handler
    \/ \E op \in {"suspend", "resume"}, watch \in BOOLEAN : Request(op, watch)

DeployerSteps ==
    \/ DeployStarts
    \/ DeploymentStarted
    \/ \E status \in {"done", "failed"} : DeploymentFinished(status)
    \/ DeployEnds \/ ManagerReceives \/ UpdateDeployer

\* What each part does not do, and which events it does not publish.
LEMMA OtherParts ==
    ASSUME BrokerInv, Parts
    PROVE  /\ UpdateManagerFlag \/ UNCHANGED <<suspended, publishing["handler"]>>
           /\ FetchStarts \/ FetchEnds \/ UNCHANGED <<isFetching, publishing["fetcher"]>>
           /\ ManagerReceives \/ UNCHANGED <<needToReboot, publishing["manager"]>>
           /\ \/ Builder \/ SuspendBuilder \/ ResumeBuilder
              \/ UNCHANGED <<builder, generations, publishing["builder"]>>
           /\ \/ DeployerSteps
              \/ UNCHANGED <<deployer, runner, deployments, publishing["deployer"]>>
<1>1. ASSUME NEW p \in Publishers, NEW s, Emits(p, s), NEW q \in Publishers, q # p
      PROVE  publishing'[q] = publishing[q]
  BY <1>1 DEF Emits, BrokerInv
<1>2. /\ "builder" \in Publishers /\ "deployer" \in Publishers /\ "manager" \in Publishers
      /\ "handler" \in Publishers /\ "fetcher" \in Publishers
  BY DEF Publishers
<1>3. CASE Builder
  <2>1. /\ UNCHANGED <<suspended, isFetching, needToReboot, deployer, runner, deployments>>
        /\ \E s : Emits("builder", s)
    BY <1>3 DEF Builder, EvalStarts, EvalEnds, BuildStarts, BuildEnds, BuilderStep
  <2> QED BY <1>1, <1>2, <1>3, <2>1
<1>4. CASE DeployStarts \/ DeployEnds
  <2>1. UNCHANGED <<suspended, isFetching, needToReboot, builder, generations, publishing>>
    BY <1>4 DEF DeployStarts, DeployEnds, RunnerStep
  <2> QED BY <1>4, <2>1 DEF DeployerSteps
<1>5. CASE DeploymentStarted \/ \E status \in {"done", "failed"} : DeploymentFinished(status)
  <2>1. /\ UNCHANGED <<suspended, isFetching, needToReboot, builder, generations>>
        /\ \E s : Emits("deployer", s)
    BY <1>5 DEF DeploymentStarted, DeploymentFinished, DeploymentUpdate, RunnerStep
  <2> QED BY <1>1, <1>2, <1>5, <2>1 DEF DeployerSteps
<1>6. CASE ManagerReceives
  <2>1. /\ UNCHANGED <<suspended, isFetching, builder, generations>>
        /\ \E s : Emits("manager", s)
    BY <1>6 DEF ManagerReceives, RunnerStep
  <2> QED BY <1>1, <1>2, <1>6, <2>1 DEF DeployerSteps
<1>7. CASE FetchStarts \/ FetchEnds
  <2>1. /\ UNCHANGED <<suspended, needToReboot, builder, generations, deployer, runner,
                        deployments>>
        /\ \E s : Emits("fetcher", s)
    BY <1>7 DEF FetchStarts, FetchEnds, FetcherStep
  <2> QED BY <1>1, <1>2, <1>7, <2>1
<1>8. CASE SuspendBuilder \/ ResumeBuilder
  <2>1. /\ UNCHANGED <<suspended, isFetching, needToReboot, deployer, runner, deployments>>
        /\ UNCHANGED publishing \/ \E s : Emits("builder", s)
    BY <1>8 DEF SuspendBuilder, ResumeBuilder, Handles
  <2> QED BY <1>1, <1>2, <1>8, <2>1
<1>9. CASE UpdateDeployer
  <2>1. UNCHANGED <<suspended, isFetching, needToReboot, builder, generations, publishing>>
    BY <1>9 DEF UpdateDeployer, Handles
  <2> QED BY <1>9, <2>1 DEF DeployerSteps
<1>10. CASE UpdateManagerFlag
  <2>1. /\ UNCHANGED <<isFetching, needToReboot, builder, generations, deployer, runner,
                        deployments>>
        /\ \E s : Emits("handler", s)
    BY <1>10 DEF UpdateManagerFlag, Handles
  <2> QED BY <1>1, <1>2, <1>10, <2>1
<1>11. CASE Refused \/ Return
            \/ \E op \in {"suspend", "resume"}, watch \in BOOLEAN : Request(op, watch)
  BY <1>11 DEF Refused, Return, Request, Handles, partVars
<1> QED BY <1>3, <1>4, <1>5, <1>6, <1>7, <1>8, <1>9, <1>10, <1>11 DEF Parts, Deployer, Handler

\* What a step has to do for the events of one kind to stay settled.
LEMMA KindStep ==
    ASSUME TypeInv, [Next]_vars, NEW p \in Publishers, NEW K \in SUBSET TypesOf(p),
           NEW G, NEW H, NEW now, NEW then, Tells(p, K, G, now),
           Watches \/ Start \/ UNCHANGED vars => G \subseteq H,
           Opens \/ Stop => then,
           Moves \/ Start \/ UNCHANGED vars => (now => then),
           Arrives => /\ Head(channel).type \in K /\ Head(channel) \in G => then
                      /\ Head(channel).type \notin K /\ now => then,
           Parts => Settled(publishing'[p], publishCh', channel', missed', K, H, then)
    PROVE  Settled(publishing'[p], publishCh', channel', missed', K, H, then)
<1>1. CASE Watches
  <2>1. Settled(publishing'[p], publishCh', channel', missed', K, G, then)
    BY <1>1, WatchersAre, WatchTells DEF TypeInv
  <2> QED BY <1>1, <2>1, Unmoved
<1>2. CASE Stop
  BY <1>2, StopTells
<1>3. CASE Start \/ UNCHANGED vars
  <2>1. UNCHANGED <<publishing, publishCh, channel, missed>>
    BY <1>3 DEF Start, vars, brokerVars
  <2>2. G \subseteq H /\ (now => then)
    BY <1>3
  <2> QED BY <2>1, <2>2, Unmoved DEF Tells
<1> QED BY <1>1, <1>2, <1>3, Steps DEF Parts

\* What the steps that receive nothing, and the arrival of the snapshot, do to what is shown:
\* the snapshot is taken part by part, and becomes what the terminal shows.
LEMMA MovesShow ==
    ASSUME TypeInv, Moves
    PROVE  /\ UNCHANGED <<serving, observer, metrics>>
           /\ FlagsRead' =>
                 \/ FlagsRead /\ state'.reboot = state.reboot /\ state'.suspended = state.suspended
                 \/ state'.reboot = needToReboot /\ state'.suspended = suspended
           /\ BuilderRead' =>
                 \/ BuilderRead /\ state'.builder = state.builder
                 \/ /\ state'.builder.evaluating = builder.evaluating
                    /\ state'.builder.building = builder.building
                    /\ state'.builder.generation = Current
           /\ events' = "snapshot" =>
                 \/ /\ events = "snapshot" /\ UNCHANGED stale
                    /\ state'.deployer = state.deployer /\ state'.fetching = state.fetching
                 \/ /\ state'.deployer = deployer /\ state'.fetching = isFetching
                    /\ stale' = (runner = "command")
           /\ Streams' =>
                 /\ UNCHANGED stale
                 /\ \/ Streams /\ UNCHANGED view
                    \/ /\ events = "snapshot" /\ FlagsRead /\ BuilderRead
                       /\ view'.reboot = state.reboot /\ view'.suspended = state.suspended
                       /\ view'.fetching = state.fetching /\ view'.builder = state.builder
                       /\ view'.deployer.deploying = state.deployer.deploying
                       /\ view'.deployer.deployment = Deployment(state.deployer.deployment)
<1> USE DEF FlagsRead, BuilderRead, Streams, TypeInv
<1>1. CASE \/ \E q \in Publishers : Publish(q)
           \/ Forward \/ MetricsSubscribe
  <2>1. UNCHANGED <<serving, observer, metrics, state, events, stateLoop, connection, stale, view>>
    BY <1>1 DEF Publish, Forward, MetricsSubscribe, streamVars, clientVars
  <2> QED BY <2>1
<1>2. CASE ConnectFails \/ StreamFails \/ Quit
  <2>1. /\ UNCHANGED <<serving, observer, metrics, state, events, stateLoop, stale>>
        /\ connection' # "open"
    BY <1>2 DEF ConnectFails, StreamFails, Quit, ClientStep, brokerVars, StreamInv
  <2> QED BY <2>1
<1>3. CASE StateRequest
  BY <1>3 DEF StateRequest, StateStep, brokerVars, clientVars
<1>4. CASE BuilderState
  <2>1. state' = [reboot |-> state.reboot, suspended |-> state.suspended,
                  builder |-> [builder EXCEPT !.generation = Current]]
    BY <1>4 DEF BuilderState, Current
  <2>2. /\ state'.builder.evaluating = builder.evaluating
        /\ state'.builder.building = builder.building
        /\ state'.builder.generation = Current
    BY <2>1 DEF BuilderInv, BuilderType
  <2>3. state'.reboot = state.reboot /\ state'.suspended = state.suspended
    BY <2>1
  <2>4. UNCHANGED <<serving, observer, metrics, events, connection, stale, view>>
    BY <1>4 DEF BuilderState, StateStep, brokerVars, clientVars
  <2>5. events # "snapshot"
    BY <1>4 DEF BuilderState, StateStep, StreamInv
  <2> QED BY <2>2, <2>3, <2>4, <2>5
<1>5. CASE DeployerState
  <2>1. /\ state'.reboot = state.reboot /\ state'.suspended = state.suspended
        /\ state'.builder = state.builder /\ state'.deployer = deployer
        /\ state'.fetching = isFetching /\ stale' = (runner = "command")
    BY <1>5 DEF DeployerState
  <2>2. /\ UNCHANGED <<serving, observer, metrics, connection, view>>
        /\ stateLoop = "deployer" /\ stateLoop' = "select"
        /\ events' = IF events = "wait" THEN "snapshot" ELSE events
    BY <1>5 DEF DeployerState, StateStep, brokerVars, clientVars
  <2>3. events \notin {"snapshot", "streaming"}
    BY <2>2 DEF StreamInv
  <2> QED BY <2>1, <2>2, <2>3
<1>6. CASE ReceiveState
  <2>1. /\ UNCHANGED <<serving, observer, metrics, stale>>
        /\ events = "snapshot" /\ events' = "streaming"
    BY <1>6 DEF ReceiveState, Receive
  <2>2. /\ view'.reboot = state.reboot /\ view'.suspended = state.suspended
        /\ view'.fetching = state.fetching /\ view'.builder = state.builder
        /\ view'.deployer.deploying = state.deployer.deploying
        /\ view'.deployer.deployment = Deployment(state.deployer.deployment)
    BY <1>6, ReceiveStateIs
  <2> QED BY <2>1, <2>2
<1> QED BY <1>1, <1>2, <1>3, <1>4, <1>5, <1>6 DEF Moves

\* An event arrives.
LEMMA ArrivalShows ==
    ASSUME TypeInv, Arrives
    PROVE  /\ Head(channel) \in Events /\ ~FlagsRead' /\ ~BuilderRead' /\ events' # "snapshot"
           /\ UNCHANGED <<serving, observer, stale>>
           /\ observer = "metrics" => Gauges(metrics', Head(channel))
           /\ Streams' => Streams /\ Updated(view', Head(channel))
<1> USE DEF FlagsRead, BuilderRead, Streams, TypeInv
<1>1. CASE ReceiveEvent
  <2>1. observer # "metrics"
    BY <1>1, ReceiveEventIs DEF StreamInv
  <2> QED BY <1>1, <2>1, ReceiveEventIs
<1>2. CASE MetricsReceive
  <2>1. events = "none" /\ events' = "none"
    BY <1>2, MetricsReceiveIs DEF StreamInv
  <2> QED BY <1>2, <2>1, MetricsReceiveIs
<1> QED BY <1>1, <1>2 DEF Arrives

\* A stream begins or ends, or the process stops.
LEMMA NothingShown ==
    ASSUME TypeInv, Opens \/ Stop
    PROVE  /\ ~FlagsRead' /\ ~BuilderRead' /\ events' # "snapshot" /\ ~Streams'
           /\ Opens => observer' = "watch"
<1> USE DEF FlagsRead, BuilderRead, Streams, TypeInv
<1>1. CASE Opens
  BY <1>1 DEF Opens, EventsSubscribe, SendFails, Connect, StreamInv
<1>2. CASE Stop /\ ~Opens
  BY <1>2 DEF Stop
<1> QED BY <1>1, <1>2

\* The process starts, or nothing happens.
LEMMA StartShows ==
    ASSUME TypeInv, Start \/ UNCHANGED vars
    PROVE  /\ UNCHANGED <<builder, generations, deployer, runner, deployments, suspended,
                          isFetching, observer, state, events, stateLoop, connection, stale, view,
                          Current, Latest>>
           /\ Start => /\ events = "none" /\ serving' /\ metrics'.deploymentInfo = Latest.status
                       /\ restored' = deployer.deployment
           /\ ~Start => UNCHANGED <<serving, metrics, restored, needToReboot>>
           /\ metrics'.suspended = metrics.suspended
           /\ metrics'.evalFailed = metrics.evalFailed
           /\ metrics'.buildFailed = metrics.buildFailed
<1>1. UNCHANGED <<builder, generations, deployer, runner, deployments, suspended, isFetching,
                  observer, state, events, stateLoop, connection, stale, view>>
  BY DEF Start, vars, partVars, brokerVars, streamVars, clientVars
<1>2. UNCHANGED <<Current, Latest>>
  BY <1>1 DEF Current, Latest, Generation, Deployment
<1>3. CASE Start
  <2>1. /\ metrics' = [metrics EXCEPT !.deploymentInfo = Latest.status] /\ serving'
        /\ events = "none" /\ restored' = deployer.deployment
    BY <1>3 DEF Start, Latest, TypeInv, StreamInv
  <2>2. metrics' = [suspended |-> metrics.suspended, reboot |-> metrics.reboot,
                    evalFailed |-> metrics.evalFailed, buildFailed |-> metrics.buildFailed,
                    deploymentFailed |-> metrics.deploymentFailed,
                    deploymentInfo |-> Latest.status]
    BY <2>1 DEF ShownInv, TypeInv
  <2> QED BY <1>1, <1>2, <1>3, <2>1, <2>2
<1>4. CASE ~Start
  <2>1. UNCHANGED <<serving, metrics, restored, needToReboot>>
    BY <1>4 DEF vars, partVars
  <2> QED BY <1>1, <1>2, <1>4, <2>1
<1> QED BY <1>3, <1>4

\* Only a start changes the deployment that the process has found.
LEMMA RestoredIs ==
    ASSUME Watches \/ Parts \/ UNCHANGED vars
    PROVE  restored' = restored
<1>1. CASE Watches
  BY <1>1 DEF Watches, Stream, Publish, Forward, MetricsSubscribe, MetricsReceive, EventsSubscribe,
              StateRequest, BuilderState, DeployerState, StateStep, ReceiveState, ReceiveEvent,
              Receive, SendFails, Connect, ConnectFails, StreamFails, ClientStep, Quit
<1>2. CASE Parts
  BY <1>2 DEF Parts, Builder, EvalStarts, EvalEnds, BuildStarts, BuildEnds, BuilderStep, Deployer,
              DeployStarts, DeploymentStarted, DeploymentFinished, DeployEnds, ManagerReceives,
              RunnerStep, FetchStarts, FetchEnds, FetcherStep, Handler, Refused, SuspendBuilder,
              ResumeBuilder, UpdateDeployer, UpdateManagerFlag, Handles, Return, Request
<1> QED BY <1>1, <1>2 DEF vars

\* What is left when the process has stopped.
LEMMA StopIs ==
    ASSUME Stop
    PROVE  /\ metrics'.suspended = FALSE /\ suspended' = FALSE /\ serving' = FALSE
           /\ Current'.eval = "none" /\ Current'.build = "none"
<1>1. metrics' = NoMetrics /\ suspended' = FALSE /\ serving' = FALSE
  BY DEF Stop
<1>2. builder'.generation = 0
  BY DEF Stop
<1>3. Current' = NoGeneration
  BY <1>2 DEF Current, Generation
<1> QED BY <1>1, <1>3 DEF NoMetrics, NoGeneration

\* Each of the three is a step of those who watch.
LEMMA MovesWatch == Moves \/ Opens \/ Arrives => Watches
BY DEF Watches, Stream, Opens, Arrives, Moves

\* A step of comin's parts has one event to publish, which tells how things are now.
LEMMA Emission ==
    ASSUME BrokerInv, NEW p \in Publishers, NEW e \in EventsOf(p),
           NEW K, NEW G, NEW H, NEW now, NEW then, Tells(p, K, G, now),
           Parts, publishing[p] = <<>>, Emits(p, <<e>>),
           \/ e.type \in K /\ e \in H
           \/ e.type \notin K /\ G \subseteq H /\ (now => then)
    PROVE  Settled(publishing'[p], publishCh', channel', missed', K, H, then)
<1>1. Apart
  BY PartsAreApart DEF Parts
<1>2. <<e>> \in Seq(EventsOf(p))
  OBVIOUS
<1>3. LastIn(<<e>>, K, H) /\ (Has(<<e>>, K) <=> e.type \in K)
  BY OneEvent
<1> QED BY <1>1, <1>2, <1>3, EmitTells

-----------------------------------------------------------------------------
(* Each kind of events stays settled.                                      *)

\* Suspend and Resume.
LEMMA SuspensionStep ==
    ASSUME TypeInv, SuspensionSettled, [Next]_vars
    PROVE  SuspensionSettled'
<1> DEFINE K == {"Suspend", "Resume"}
           After == Settled(publishing'["handler"], publishCh', channel', missed', K,
                            SuspensionTold', SuspensionShown')
<1> USE DEF SuspensionShown
<1>1. /\ BrokerInv /\ "handler" \in Publishers /\ K \in SUBSET TypesOf("handler")
      /\ Tells("handler", K, SuspensionTold, SuspensionShown)
  BY AllTypes DEF TypeInv, SuspensionSettled, Publishers
<1>2. ASSUME UNCHANGED suspended PROVE SuspensionTold' = SuspensionTold
  BY <1>2 DEF SuspensionTold
<1>3. Watches \/ Start \/ UNCHANGED vars => UNCHANGED suspended
  BY WatchersOnlyWatch, StartShows
<1>4. Opens \/ Stop => SuspensionShown'
  BY NothingShown, StopIs
<1>5. Moves /\ SuspensionShown => SuspensionShown'
  BY <1>3, MovesShow, MovesWatch
<1>6. (Start \/ UNCHANGED vars) /\ SuspensionShown => SuspensionShown'
  BY StartShows DEF Streams, FlagsRead
<1>7. Arrives => /\ Head(channel).type \in K /\ Head(channel) \in SuspensionTold => SuspensionShown'
                 /\ Head(channel).type \notin K /\ SuspensionShown => SuspensionShown'
  BY <1>3, ArrivalShows, MovesWatch, AllTypes DEF SuspensionTold, Updated, Gauges
<1>8. Parts => After
  <2>1. CASE UpdateManagerFlag
    <3>1. PICK e \in {Event("Suspend", 0), Event("Resume", 0)} :
                /\ suspended' = (e.type = "Suspend") /\ Emits("handler", <<e>>)
                /\ publishing["handler"] = <<>>
      BY <2>1 DEF UpdateManagerFlag, Handles, Runs, Event
    <3>2. e \in EventsOf("handler") /\ e \in Events /\ e.type \in K
      BY <1>1, EventTypes DEF Event
    <3>3. e \in SuspensionTold'
      BY <3>1, <3>2 DEF SuspensionTold
    <3> QED BY <1>1, <2>1, <3>1, <3>2, <3>3, Emission DEF Handler, Parts
  <2>2. ASSUME Parts, ~UpdateManagerFlag PROVE After
    <3>1. UNCHANGED <<suspended, publishing["handler"]>> /\ Apart
      BY <1>1, <2>2, OtherParts, PartsAreApart DEF Parts
    <3> QED BY <1>1, <1>2, <3>1, PartTells DEF Apart, FlagsRead, Streams
  <2> QED BY <2>1, <2>2
<1> HIDE DEF K, SuspensionShown
<1>9. After
  BY <1>1, <1>2, <1>3, <1>4, <1>5, <1>6, <1>7, <1>8, KindStep
<1> QED BY <1>9 DEF SuspensionSettled, Tells, K

\* Fetched: the end of a fetch is told, its start is not.
LEMMA FetchStep ==
    ASSUME TypeInv, FetchSettled, [Next]_vars
    PROVE  FetchSettled'
<1> DEFINE K == {"Fetched"}
           After == Settled(publishing'["fetcher"], publishCh', channel', missed', K,
                            Events, FetchShown')
<1> USE DEF FetchShown
<1>1. /\ BrokerInv /\ "fetcher" \in Publishers /\ K \in SUBSET TypesOf("fetcher")
      /\ Tells("fetcher", K, Events, FetchShown)
  BY AllTypes DEF TypeInv, FetchSettled, Publishers
<1>2. Watches \/ Start \/ UNCHANGED vars => UNCHANGED isFetching
  BY WatchersOnlyWatch, StartShows
<1>3. Opens \/ Stop => FetchShown'
  BY NothingShown
<1>4. Moves /\ FetchShown => FetchShown'
  BY <1>2, MovesShow, MovesWatch
<1>5. (Start \/ UNCHANGED vars) /\ FetchShown => FetchShown'
  BY StartShows DEF Streams
<1>6. Arrives => /\ Head(channel).type \in K => FetchShown'
                 /\ Head(channel).type \notin K /\ FetchShown => FetchShown'
  BY <1>2, ArrivalShows, MovesWatch, AllTypes DEF Updated
<1>7. Parts => After
  <2>1. CASE FetchEnds
    <3>1. Emits("fetcher", <<Event("Fetched", 0)>>) /\ publishing["fetcher"] = <<>>
      BY <2>1 DEF FetchEnds, FetcherStep, Runs
    <3>2. /\ Event("Fetched", 0) \in EventsOf("fetcher") /\ Event("Fetched", 0) \in Events
          /\ Event("Fetched", 0).type \in K
      BY <1>1, EventTypes DEF Event
    <3> QED BY <1>1, <2>1, <3>1, <3>2, Emission DEF Parts
  <2>2. CASE FetchStarts
    <3>1. isFetching' = TRUE /\ publishing["fetcher"] = <<>> /\ Emits("fetcher", <<>>)
      BY <2>2 DEF FetchStarts, FetcherStep, Runs
    <3>2. UNCHANGED publishing["fetcher"]
      BY <1>1, <3>1 DEF Emits, BrokerInv
    <3>3. FetchShown'
      BY <3>1
    <3> QED BY <1>1, <2>2, <3>2, <3>3, PartTells, PartsAreApart DEF Apart
  <2>3. ASSUME Parts, ~FetchStarts, ~FetchEnds PROVE After
    <3>1. UNCHANGED <<isFetching, publishing["fetcher"]>> /\ Apart
      BY <1>1, <2>3, OtherParts, PartsAreApart DEF Parts
    <3> QED BY <1>1, <3>1, PartTells DEF Apart, Streams
  <2> QED BY <2>1, <2>2, <2>3
<1> HIDE DEF K, FetchShown
<1>8. After
  BY <1>1, <1>3, <1>4, <1>5, <1>6, <1>7, KindStep
<1>9. Events' = Events
  OBVIOUS
<1> QED BY <1>8, <1>9 DEF FetchSettled, Tells, K

\* RebootRequired: a need to reboot is told, its end is not.
LEMMA RebootStep ==
    ASSUME TypeInv, RebootSettled, [Next]_vars
    PROVE  RebootSettled'
<1> DEFINE K == {"RebootRequired"}
           After == Settled(publishing'["manager"], publishCh', channel', missed', K,
                            Events, RebootShown')
<1> USE DEF RebootShown
<1>1. /\ BrokerInv /\ "manager" \in Publishers /\ K \in SUBSET TypesOf("manager")
      /\ Tells("manager", K, Events, RebootShown)
  BY AllTypes DEF TypeInv, RebootSettled, Publishers
<1>2. Watches => UNCHANGED needToReboot
  BY WatchersOnlyWatch
<1>3. Opens \/ Stop => RebootShown'
  BY NothingShown
<1>4. Moves /\ RebootShown => RebootShown'
  BY <1>2, MovesShow, MovesWatch
<1>5. (Start \/ UNCHANGED vars) /\ RebootShown => RebootShown'
  BY StartShows DEF FlagsRead, Streams
<1>6. Arrives => /\ Head(channel).type \in K => RebootShown'
                 /\ Head(channel).type \notin K /\ RebootShown => RebootShown'
  BY <1>2, ArrivalShows, MovesWatch, AllTypes DEF Updated
<1>7. Parts => After
  <2>1. CASE ManagerReceives /\ needToReboot'
    <3>1. Emits("manager", <<Event("RebootRequired", 0)>>) /\ publishing["manager"] = <<>>
      BY <2>1 DEF ManagerReceives, Runs
    <3>2. /\ Event("RebootRequired", 0) \in EventsOf("manager")
          /\ Event("RebootRequired", 0) \in Events /\ Event("RebootRequired", 0).type \in K
      BY <1>1, EventTypes DEF Event
    <3> QED BY <1>1, <2>1, <3>1, <3>2, Emission DEF Parts, Deployer
  <2>2. CASE ManagerReceives /\ ~needToReboot'
    <3>1. publishing["manager"] = <<>> /\ Emits("manager", <<>>)
      BY <2>2 DEF ManagerReceives, Runs
    <3>2. UNCHANGED publishing["manager"]
      BY <1>1, <3>1 DEF Emits, BrokerInv
    <3>3. RebootShown'
      BY <2>2
    <3> QED BY <1>1, <2>2, <3>2, <3>3, PartTells, PartsAreApart DEF Apart, Deployer
  <2>3. ASSUME Parts, ~ManagerReceives PROVE After
    <3>1. UNCHANGED <<needToReboot, publishing["manager"]>> /\ Apart
      BY <1>1, <2>3, OtherParts, PartsAreApart DEF Parts
    <3> QED BY <1>1, <3>1, PartTells DEF Apart, FlagsRead, Streams
  <2> QED BY <2>1, <2>2, <2>3
<1> HIDE DEF K, RebootShown
<1>8. After
  BY <1>1, <1>3, <1>4, <1>5, <1>6, <1>7, KindStep
<1>9. Events' = Events
  OBVIOUS
<1> QED BY <1>8, <1>9 DEF RebootSettled, Tells, K

\* A list of one event.
LEMMA Singleton ==
    ASSUME NEW S, NEW x \in S
    PROVE  <<x>> \o <<>> = <<x>> /\ <<x>> \in Seq(S)
<1> DEFINE a == <<x>>
<1>1. a \in Seq(S)
  OBVIOUS
<1> HIDE DEF a
<1>2. a \o <<>> = a
  BY <1>1, ConcatEmptySeq
<1> QED BY <1>1, <1>2 DEF a

\* The list of an event and of two more.
LEMMA Concatenated ==
    ASSUME NEW S, NEW x \in S, NEW y \in S, NEW z \in S
    PROVE  \E s \in Seq(S) : /\ s = <<x>> \o <<y, z>>
                            /\ Len(s) = 3 /\ s[1] = x /\ s[2] = y /\ s[3] = z
<1> DEFINE a == <<x>>
           b == <<y, z>>
<1>1. a \in Seq(S) /\ Len(a) = 1 /\ a[1] = x
  OBVIOUS
<1>2. b \in Seq(S) /\ Len(b) = 2 /\ b[1] = y /\ b[2] = z
  OBVIOUS
<1> HIDE DEF a, b
<1>4. /\ a \o b \in Seq(S) /\ Len(a \o b) = Len(a) + Len(b)
      /\ \A i \in 1..(Len(a) + Len(b)) : (a \o b)[i] = IF i <= Len(a) THEN a[i] ELSE b[i - Len(a)]
  BY <1>1, <1>2, ConcatProperties
<1>5. /\ Len(a \o b) = 3 /\ (a \o b)[1] = x /\ (a \o b)[2] = y /\ (a \o b)[3] = z
  BY <1>1, <1>2, <1>4
<1> QED BY <1>4, <1>5 DEF a, b

\* The events of the end of an evaluation, and of the build that it may count for.
LEMMA EvalEndEvents ==
    ASSUME NEW n \in Nat, NEW exists \in BOOLEAN, NEW K, NEW H, NEW s,
           s = <<Event("EvalFinished", n)>> \o
               IF exists THEN <<Event("BuildStarted", n), Event("BuildFinished", n)>> ELSE <<>>
    PROVE  /\ s \in Seq(EventsOf("builder"))
           /\ /\ "EvalFinished" \in K /\ Event("EvalFinished", n) \in H
              /\ exists => "BuildStarted" \notin K /\ "BuildFinished" \notin K
              => LastIn(s, K, H) /\ Has(s, K)
           /\ exists /\ "BuildFinished" \in K /\ Event("BuildFinished", n) \in H
              => LastIn(s, K, H) /\ Has(s, K)
           /\ ~exists /\ "EvalFinished" \notin K => LastIn(s, K, H)
<1> DEFINE x == Event("EvalFinished", n)
           y == Event("BuildStarted", n)
           z == Event("BuildFinished", n)
<1>1. /\ x \in EventsOf("builder") /\ y \in EventsOf("builder") /\ z \in EventsOf("builder")
      /\ x.type = "EvalFinished" /\ y.type = "BuildStarted" /\ z.type = "BuildFinished"
  BY EventTypes DEF Event
<1> HIDE DEF x, y, z
<1>2. CASE exists
  <2>1. s = <<x>> \o <<y, z>>
    BY <1>2 DEF x, y, z
  <2>3. s \in Seq(EventsOf("builder")) /\ Len(s) = 3 /\ s[1] = x /\ s[2] = y /\ s[3] = z
    BY <1>1, <2>1, Concatenated
  <2>4. z.type \in K /\ z \in H => LastIn(s, K, H) /\ Has(s, K)
    BY <2>3 DEF LastIn, Has
  <2>5. x.type \in K /\ x \in H /\ y.type \notin K /\ z.type \notin K =>
           LastIn(s, K, H) /\ Has(s, K)
    BY <2>3 DEF LastIn, Has
  <2> QED BY <1>1, <1>2, <2>3, <2>4, <2>5 DEF x, z
<1>3. CASE ~exists
  <2>1. s = <<x>> \o <<>>
    BY <1>3 DEF x
  <2>2. s = <<x>> /\ <<x>> \in Seq(EventsOf("builder"))
    BY <1>1, <2>1, Singleton
  <2>3. s \in Seq(EventsOf("builder"))
    BY <2>2
  <2> QED BY <1>1, <1>3, <2>2, <2>3, OneEvent DEF x
<1> QED BY <1>2, <1>3

\* The builder's steps, and what they have to do for the events of one kind to stay settled.
LEMMA BuilderTells ==
    ASSUME TypeInv, Parts, NEW K \in SUBSET TypesOf("builder"), NEW G, NEW H, NEW now, NEW then,
           Tells("builder", K, G, now),
           /\ builder'.evaluating = builder.evaluating /\ builder'.building = builder.building
           /\ builder'.generation = builder.generation /\ Current' = Current /\ Apart
           => G \subseteq H /\ (now => then),
           EvalStarts =>
              \/ "EvalStarted" \in K /\ Event("EvalStarted", builder'.generation) \in H
              \/ "EvalStarted" \notin K /\ G \subseteq H /\ (now => then),
           \A status \in {"evaluated", "failed"}, exists \in BOOLEAN : EvalEnds(status, exists) =>
              \/ /\ "EvalFinished" \in K /\ Event("EvalFinished", builder.generation) \in H
                 /\ exists => "BuildStarted" \notin K /\ "BuildFinished" \notin K
              \/ exists /\ "BuildFinished" \in K /\ Event("BuildFinished", builder.generation) \in H
              \/ ~exists /\ "EvalFinished" \notin K /\ G \subseteq H /\ (now => then),
           BuildStarts \/ (ResumeBuilder /\ HasToBeBuilt(builder.generation)) =>
              \/ "BuildStarted" \in K /\ Event("BuildStarted", builder.generation) \in H
              \/ "BuildStarted" \notin K /\ G \subseteq H /\ (now => then),
           \A status \in {"built", "failed"} : BuildEnds(status) =>
              \/ "BuildFinished" \in K /\ Event("BuildFinished", builder.generation) \in H
              \/ "BuildFinished" \notin K /\ G \subseteq H /\ (now => then)
    PROVE  Settled(publishing'["builder"], publishCh', channel', missed', K, H, then)
<1>1. BrokerInv /\ BuilderInv /\ "builder" \in Publishers /\ Apart
  BY PartsAreApart DEF TypeInv, Publishers, Parts
<1>2. \A n, t : Event(t, n).type = t
  BY DEF Event
<1>3. CASE EvalStarts
  <2> DEFINE e == Event("EvalStarted", builder'.generation)
  <2>1. e \in EventsOf("builder") /\ publishing["builder"] = <<>> /\ Emits("builder", <<e>>)
    BY <1>1, <1>3, EvalStartsIs, EventTypes
  <2> QED BY <1>1, <1>2, <1>3, <2>1, Emission
<1>4. CASE BuildStarts \/ (ResumeBuilder /\ HasToBeBuilt(builder.generation))
  <2> DEFINE e == Event("BuildStarted", builder.generation)
  <2>1. e \in EventsOf("builder") /\ publishing["builder"] = <<>> /\ Emits("builder", <<e>>)
    BY <1>1, <1>4, BuildStartsIs, EventTypes
  <2> QED BY <1>1, <1>2, <1>4, <2>1, Emission
<1>5. ASSUME NEW status \in {"built", "failed"}, BuildEnds(status)
      PROVE  Settled(publishing'["builder"], publishCh', channel', missed', K, H, then)
  <2> DEFINE e == Event("BuildFinished", builder.generation)
  <2>1. e \in EventsOf("builder") /\ publishing["builder"] = <<>> /\ Emits("builder", <<e>>)
    BY <1>1, <1>5, BuildEndsIs, EventTypes
  <2> QED BY <1>1, <1>2, <1>5, <2>1, Emission
<1>6. ASSUME NEW status \in {"evaluated", "failed"}, NEW exists \in BOOLEAN,
             EvalEnds(status, exists)
      PROVE  Settled(publishing'["builder"], publishCh', channel', missed', K, H, then)
  <2> DEFINE n == builder.generation
             s == <<Event("EvalFinished", n)>> \o
                  IF exists THEN <<Event("BuildStarted", n), Event("BuildFinished", n)>> ELSE <<>>
  <2>1. n \in Nat /\ publishing["builder"] = <<>> /\ Emits("builder", s)
    BY <1>1, <1>6, EvalEndsIs
  <2> HIDE DEF n
  <2>2. /\ s \in Seq(EventsOf("builder")) /\ LastIn(s, K, H)
        /\ Has(s, K) \/ (G \subseteq H /\ (now => then))
    BY <1>6, <2>1, EvalEndEvents DEF n
  <2> HIDE DEF s
  <2> QED BY <1>1, <2>1, <2>2, EmitTells
<1>7. ASSUME UNCHANGED <<publishing["builder"], Current>>,
             builder'.evaluating = builder.evaluating, builder'.building = builder.building,
             builder'.generation = builder.generation
      PROVE  Settled(publishing'["builder"], publishCh', channel', missed', K, H, then)
  <2>1. G \subseteq H /\ (now => then)
    BY <1>1, <1>7
  <2>2. UNCHANGED <<publishCh, channel, missed>>
    BY <1>1 DEF Apart
  <2>3. publishing'["builder"] = publishing["builder"]
    BY <1>7
  <2> QED BY <2>1, <2>2, <2>3, Unmoved DEF Tells
<1>8. CASE SuspendBuilder \/ (ResumeBuilder /\ ~HasToBeBuilt(builder.generation))
  BY <1>1, <1>7, <1>8, SuspensionIs
<1>9. CASE ~(Builder \/ SuspendBuilder \/ ResumeBuilder)
  <2>1. UNCHANGED <<builder, generations, publishing["builder"]>>
    BY <1>1, <1>9, OtherParts
  <2> QED BY <1>7, <2>1 DEF Current, Generation
<1> QED BY <1>3, <1>4, <1>5, <1>6, <1>8, <1>9 DEF Builder

\* The flags of the builder are Booleans.
LEMMA BuilderFlags ==
    ASSUME TypeInv, [Next]_vars
    PROVE  /\ builder.evaluating \in BOOLEAN /\ builder'.evaluating \in BOOLEAN
           /\ builder.building \in BOOLEAN /\ builder'.building \in BOOLEAN
<1>1. BuilderInv /\ BuilderInv'
  BY PartTypes DEF TypeInv
<1> QED BY <1>1 DEF BuilderInv, BuilderType

\* EvalStarted and EvalFinished, as they tell whether an evaluation runs.
LEMMA EvaluatingStep ==
    ASSUME TypeInv, EvaluatingSettled, [Next]_vars
    PROVE  EvaluatingSettled'
<1> DEFINE K == {"EvalStarted", "EvalFinished"}
           After == Settled(publishing'["builder"], publishCh', channel', missed', K,
                            EvaluatingTold', EvaluatingShown')
<1> USE DEF EvaluatingShown
<1>1. /\ BuilderInv /\ "builder" \in Publishers /\ K \in SUBSET TypesOf("builder")
      /\ Tells("builder", K, EvaluatingTold, EvaluatingShown)
  BY AllTypes DEF TypeInv, EvaluatingSettled, Publishers
<1>2. ASSUME builder'.evaluating = builder.evaluating PROVE EvaluatingTold' = EvaluatingTold
  BY <1>2 DEF EvaluatingTold
<1>3. Watches \/ Start \/ UNCHANGED vars => UNCHANGED builder
  BY WatchersOnlyWatch, StartShows
<1>4. Opens \/ Stop => EvaluatingShown'
  BY NothingShown
<1>5. Moves /\ EvaluatingShown => EvaluatingShown'
  BY <1>3, MovesShow, MovesWatch
<1>6. (Start \/ UNCHANGED vars) /\ EvaluatingShown => EvaluatingShown'
  BY StartShows DEF Streams, BuilderRead
<1>7. Arrives => /\ Head(channel).type \in K /\ Head(channel) \in EvaluatingTold => EvaluatingShown'
                 /\ Head(channel).type \notin K /\ EvaluatingShown => EvaluatingShown'
  BY <1>3, ArrivalShows, MovesWatch, AllTypes DEF EvaluatingTold, Updated
<1>8. Parts => After
  <2> SUFFICES ASSUME Parts PROVE After
    OBVIOUS
  <2>1. ASSUME builder'.evaluating = builder.evaluating
        PROVE  EvaluatingTold \subseteq EvaluatingTold' /\ (EvaluatingShown => EvaluatingShown')
    BY <1>2, <2>1, PartsAreApart DEF Parts, Apart, Streams, BuilderRead
  <2>2. \A t \in {"EvalStarted", "EvalFinished"} : \A n \in Nat :
           builder'.evaluating = (t = "EvalStarted") => Event(t, n) \in EvaluatingTold'
    BY EventTypes, <1>1 DEF EvaluatingTold, Event
  <2> HIDE DEF EvaluatingShown
  <2>3. EvalStarts => Event("EvalStarted", builder'.generation) \in EvaluatingTold'
    BY <1>1, <2>2, EvalStartsIs, BuilderFlags
  <2>4. \A status \in {"evaluated", "failed"}, exists \in BOOLEAN : EvalEnds(status, exists) =>
           Event("EvalFinished", builder.generation) \in EvaluatingTold'
    BY <1>1, <2>2, EvalEndsIs, BuilderFlags
  <2>5. BuildStarts \/ (ResumeBuilder /\ HasToBeBuilt(builder.generation)) =>
           EvaluatingTold \subseteq EvaluatingTold' /\ (EvaluatingShown => EvaluatingShown')
    BY <1>1, <2>1, BuildStartsIs, BuilderFlags
  <2>6. \A status \in {"built", "failed"} : BuildEnds(status) =>
           EvaluatingTold \subseteq EvaluatingTold' /\ (EvaluatingShown => EvaluatingShown')
    BY <1>1, <2>1, BuildEndsIs, BuilderFlags
  <2> QED BY <1>1, <2>1, <2>3, <2>4, <2>5, <2>6, BuilderTells
<1> HIDE DEF K, EvaluatingShown
<1>9. After
  BY <1>1, <1>2, <1>3, <1>4, <1>5, <1>6, <1>7, <1>8, KindStep
<1> QED BY <1>9 DEF EvaluatingSettled, Tells, K

\* BuildStarted and BuildFinished, as they tell whether a build runs.
LEMMA BuildingStep ==
    ASSUME TypeInv, BuildingSettled, [Next]_vars
    PROVE  BuildingSettled'
<1> DEFINE K == {"BuildStarted", "BuildFinished"}
           After == Settled(publishing'["builder"], publishCh', channel', missed', K,
                            BuildingTold', BuildingShown')
<1> USE DEF BuildingShown
<1>1. /\ BuilderInv /\ "builder" \in Publishers /\ K \in SUBSET TypesOf("builder")
      /\ Tells("builder", K, BuildingTold, BuildingShown)
  BY AllTypes DEF TypeInv, BuildingSettled, Publishers
<1>2. ASSUME builder'.building = builder.building PROVE BuildingTold' = BuildingTold
  BY <1>2 DEF BuildingTold
<1>3. Watches \/ Start \/ UNCHANGED vars => UNCHANGED builder
  BY WatchersOnlyWatch, StartShows
<1>4. Opens \/ Stop => BuildingShown'
  BY NothingShown
<1>5. Moves /\ BuildingShown => BuildingShown'
  BY <1>3, MovesShow, MovesWatch
<1>6. (Start \/ UNCHANGED vars) /\ BuildingShown => BuildingShown'
  BY StartShows DEF Streams, BuilderRead
<1>7. Arrives => /\ Head(channel).type \in K /\ Head(channel) \in BuildingTold => BuildingShown'
                 /\ Head(channel).type \notin K /\ BuildingShown => BuildingShown'
  BY <1>3, ArrivalShows, MovesWatch, AllTypes DEF BuildingTold, Updated
<1>8. Parts => After
  <2> SUFFICES ASSUME Parts PROVE After
    OBVIOUS
  <2>1. ASSUME builder'.building = builder.building
        PROVE  BuildingTold \subseteq BuildingTold' /\ (BuildingShown => BuildingShown')
    BY <1>2, <2>1, PartsAreApart DEF Parts, Apart, Streams, BuilderRead
  <2>2. \A t \in {"BuildStarted", "BuildFinished"} : \A n \in Nat :
           builder'.building = (t = "BuildStarted") => Event(t, n) \in BuildingTold'
    BY EventTypes, <1>1 DEF BuildingTold, Event
  <2> HIDE DEF BuildingShown
  <2>3. EvalStarts => BuildingTold \subseteq BuildingTold' /\ (BuildingShown => BuildingShown')
    BY <1>1, <2>1, EvalStartsIs, BuilderFlags
  <2>4. \A status \in {"evaluated", "failed"}, exists \in BOOLEAN : EvalEnds(status, exists) =>
           /\ Event("BuildFinished", builder.generation) \in BuildingTold'
           /\ BuildingTold \subseteq BuildingTold' /\ (BuildingShown => BuildingShown')
    BY <1>1, <2>1, <2>2, EvalEndsIs, BuilderFlags
  <2>5. BuildStarts \/ (ResumeBuilder /\ HasToBeBuilt(builder.generation)) =>
           Event("BuildStarted", builder.generation) \in BuildingTold'
    BY <1>1, <2>2, BuildStartsIs, BuilderFlags
  <2>6. \A status \in {"built", "failed"} : BuildEnds(status) =>
           Event("BuildFinished", builder.generation) \in BuildingTold'
    BY <1>1, <2>2, BuildEndsIs, BuilderFlags
  <2> QED BY <1>1, <2>1, <2>3, <2>4, <2>5, <2>6, BuilderTells
<1> HIDE DEF K, BuildingShown
<1>9. After
  BY <1>1, <1>2, <1>3, <1>4, <1>5, <1>6, <1>7, <1>8, KindStep
<1> QED BY <1>9 DEF BuildingSettled, Tells, K

\* All events of the builder, as they refer to the current generation.
LEMMA GenerationStep ==
    ASSUME TypeInv, GenerationSettled, [Next]_vars
    PROVE  GenerationSettled'
<1> DEFINE K == TypesOf("builder")
           After == Settled(publishing'["builder"], publishCh', channel', missed', K,
                            GenerationTold', GenerationShown')
<1> USE DEF GenerationShown
<1>1. /\ BuilderInv /\ "builder" \in Publishers /\ K \in SUBSET TypesOf("builder")
      /\ Tells("builder", K, GenerationTold, GenerationShown)
  BY DEF TypeInv, GenerationSettled, Publishers
<1>2. ASSUME builder'.generation = builder.generation PROVE GenerationTold' = GenerationTold
  BY <1>2 DEF GenerationTold
<1>3. Watches \/ Start \/ UNCHANGED vars => UNCHANGED <<builder, generations, Current>>
  BY WatchersOnlyWatch, StartShows
<1>4. Opens \/ Stop => GenerationShown'
  BY NothingShown
<1>5. Moves /\ GenerationShown => GenerationShown'
  BY <1>3, MovesShow, MovesWatch
<1>6. (Start \/ UNCHANGED vars) /\ GenerationShown => GenerationShown'
  BY <1>3, StartShows DEF Streams, BuilderRead
<1>7. Arrives => /\ Head(channel).type \in K /\ Head(channel) \in GenerationTold => GenerationShown'
                 /\ Head(channel).type \notin K /\ GenerationShown => GenerationShown'
  BY <1>3, ArrivalShows, MovesWatch DEF GenerationTold, Updated, Current, Generation
<1>8. Parts => After
  <2> SUFFICES ASSUME Parts PROVE After
    OBVIOUS
  <2>1. ASSUME builder'.generation = builder.generation, Current' = Current
        PROVE  GenerationTold \subseteq GenerationTold' /\ (GenerationShown => GenerationShown')
    BY <1>2, <2>1, PartsAreApart DEF Parts, Apart, Streams, BuilderRead
  <2>2. \A t \in K : \A n \in Nat : builder'.generation = n => Event(t, n) \in GenerationTold'
    BY EventTypes, AllTypes, <1>1 DEF GenerationTold, Event
  <2>3. /\ "EvalStarted" \in K /\ "EvalFinished" \in K /\ "BuildStarted" \in K
        /\ "BuildFinished" \in K
    BY AllTypes
  <2> HIDE DEF GenerationShown, K
  <2>4. EvalStarts => Event("EvalStarted", builder'.generation) \in GenerationTold'
    BY <1>1, <2>2, <2>3, EvalStartsIs
  <2>5. \A status \in {"evaluated", "failed"}, exists \in BOOLEAN : EvalEnds(status, exists) =>
           /\ Event("EvalFinished", builder.generation) \in GenerationTold'
           /\ Event("BuildFinished", builder.generation) \in GenerationTold'
    BY <1>1, <2>2, <2>3, EvalEndsIs
  <2>6. BuildStarts \/ (ResumeBuilder /\ HasToBeBuilt(builder.generation)) =>
           Event("BuildStarted", builder.generation) \in GenerationTold'
    BY <1>1, <2>2, <2>3, BuildStartsIs
  <2>7. \A status \in {"built", "failed"} : BuildEnds(status) =>
           Event("BuildFinished", builder.generation) \in GenerationTold'
    BY <1>1, <2>2, <2>3, BuildEndsIs
  <2> QED BY <1>1, <2>1, <2>3, <2>4, <2>5, <2>6, <2>7, BuilderTells
<1> HIDE DEF K, GenerationShown
<1>9. After
  BY <1>1, <1>2, <1>3, <1>4, <1>5, <1>6, <1>7, <1>8, KindStep
<1>10. TypesOf("builder")' = TypesOf("builder")
  OBVIOUS
<1> QED BY <1>9, <1>10 DEF GenerationSettled, Tells, K

\* EvalFinished, as the metrics read how an evaluation has ended.
LEMMA EvalGaugeStep ==
    ASSUME TypeInv, EvalGaugeSettled, [Next]_vars
    PROVE  EvalGaugeSettled'
<1> DEFINE K == {"EvalFinished"}
           After == Settled(publishing'["builder"], publishCh', channel', missed', K,
                            EvalGaugeTold', EvalGaugeShown')
<1> USE DEF EvalGaugeShown
<1>1. /\ BuilderInv /\ "builder" \in Publishers /\ K \in SUBSET TypesOf("builder")
      /\ Tells("builder", K, EvalGaugeTold, EvalGaugeShown)
  BY AllTypes DEF TypeInv, EvalGaugeSettled, Publishers
<1>2. ASSUME builder'.generation = builder.generation, Current'.eval = Current.eval
      PROVE  EvalGaugeTold' = EvalGaugeTold
  BY <1>2 DEF EvalGaugeTold
<1>3. Watches \/ Start \/ UNCHANGED vars => UNCHANGED <<builder, generations, Current>>
  BY WatchersOnlyWatch, StartShows
<1>4. Opens \/ Stop => EvalGaugeShown'
  BY NothingShown, StopIs
<1>5. Moves /\ EvalGaugeShown => EvalGaugeShown'
  BY <1>3, MovesShow, MovesWatch
<1>6. (Start \/ UNCHANGED vars) /\ EvalGaugeShown => EvalGaugeShown'
  BY <1>3, StartShows
<1>7. Arrives => /\ Head(channel).type \in K /\ Head(channel) \in EvalGaugeTold => EvalGaugeShown'
                 /\ Head(channel).type \notin K /\ EvalGaugeShown => EvalGaugeShown'
  BY <1>3, ArrivalShows, MovesWatch DEF EvalGaugeTold, Gauges, Current, Generation
<1>8. Parts => After
  <2> SUFFICES ASSUME Parts PROVE After
    OBVIOUS
  <2>1. ASSUME builder'.generation = builder.generation, Current'.eval = Current.eval
        PROVE  EvalGaugeTold \subseteq EvalGaugeTold' /\ (EvalGaugeShown => EvalGaugeShown')
    BY <1>2, <2>1, PartsAreApart DEF Parts, Apart
  <2>2. ASSUME Current'.eval \notin {"evaluated", "failed"}
        PROVE  EvalGaugeTold \subseteq EvalGaugeTold' /\ EvalGaugeShown'
    BY <2>2 DEF EvalGaugeTold
  <2>3. builder.generation \in Nat /\ builder'.generation = builder.generation =>
           Event("EvalFinished", builder.generation) \in EvalGaugeTold'
    BY <1>1, EventTypes DEF EvalGaugeTold, Event
  <2> HIDE DEF EvalGaugeShown
  <2>4. EvalStarts => EvalGaugeTold \subseteq EvalGaugeTold' /\ (EvalGaugeShown => EvalGaugeShown')
    BY <1>1, <2>2, EvalStartsIs
  <2>5. \A status \in {"evaluated", "failed"}, exists \in BOOLEAN : EvalEnds(status, exists) =>
           Event("EvalFinished", builder.generation) \in EvalGaugeTold'
    BY <1>1, <2>3, EvalEndsIs
  <2>6. BuildStarts \/ (ResumeBuilder /\ HasToBeBuilt(builder.generation)) =>
           EvalGaugeTold \subseteq EvalGaugeTold' /\ (EvalGaugeShown => EvalGaugeShown')
    BY <1>1, <2>1, BuildStartsIs
  <2>7. \A status \in {"built", "failed"} : BuildEnds(status) =>
           EvalGaugeTold \subseteq EvalGaugeTold' /\ (EvalGaugeShown => EvalGaugeShown')
    BY <1>1, <2>1, BuildEndsIs
  <2> QED BY <1>1, <2>1, <2>4, <2>5, <2>6, <2>7, BuilderTells
<1> HIDE DEF K, EvalGaugeShown
<1>9. After
  BY <1>1, <1>2, <1>3, <1>4, <1>5, <1>6, <1>7, <1>8, KindStep
<1> QED BY <1>9 DEF EvalGaugeSettled, Tells, K

\* BuildFinished, as the metrics read how a build has ended.
LEMMA BuildGaugeStep ==
    ASSUME TypeInv, BuildGaugeSettled, [Next]_vars
    PROVE  BuildGaugeSettled'
<1> DEFINE K == {"BuildFinished"}
           After == Settled(publishing'["builder"], publishCh', channel', missed', K,
                            BuildGaugeTold', BuildGaugeShown')
<1> USE DEF BuildGaugeShown
<1>1. /\ BuilderInv /\ "builder" \in Publishers /\ K \in SUBSET TypesOf("builder")
      /\ Tells("builder", K, BuildGaugeTold, BuildGaugeShown)
  BY AllTypes DEF TypeInv, BuildGaugeSettled, Publishers
<1>2. ASSUME builder'.generation = builder.generation, Current'.build = Current.build
      PROVE  BuildGaugeTold' = BuildGaugeTold
  BY <1>2 DEF BuildGaugeTold
<1>3. Watches \/ Start \/ UNCHANGED vars => UNCHANGED <<builder, generations, Current>>
  BY WatchersOnlyWatch, StartShows
<1>4. Opens \/ Stop => BuildGaugeShown'
  BY NothingShown, StopIs
<1>5. Moves /\ BuildGaugeShown => BuildGaugeShown'
  BY <1>3, MovesShow, MovesWatch
<1>6. (Start \/ UNCHANGED vars) /\ BuildGaugeShown => BuildGaugeShown'
  BY <1>3, StartShows
<1>7. Arrives => /\ Head(channel).type \in K /\ Head(channel) \in BuildGaugeTold => BuildGaugeShown'
                 /\ Head(channel).type \notin K /\ BuildGaugeShown => BuildGaugeShown'
  BY <1>3, ArrivalShows, MovesWatch DEF BuildGaugeTold, Gauges, Current, Generation
<1>8. Parts => After
  <2> SUFFICES ASSUME Parts PROVE After
    OBVIOUS
  <2>1. ASSUME builder'.generation = builder.generation, Current'.build = Current.build
        PROVE  BuildGaugeTold \subseteq BuildGaugeTold' /\ (BuildGaugeShown => BuildGaugeShown')
    BY <1>2, <2>1, PartsAreApart DEF Parts, Apart
  <2>2. ASSUME Current'.build \notin {"built", "failed"}
        PROVE  BuildGaugeTold \subseteq BuildGaugeTold' /\ BuildGaugeShown'
    BY <2>2 DEF BuildGaugeTold
  <2>3. builder.generation \in Nat /\ builder'.generation = builder.generation =>
           Event("BuildFinished", builder.generation) \in BuildGaugeTold'
    BY <1>1, EventTypes DEF BuildGaugeTold, Event
  <2> HIDE DEF BuildGaugeShown
  <2>4. EvalStarts =>
           BuildGaugeTold \subseteq BuildGaugeTold' /\ (BuildGaugeShown => BuildGaugeShown')
    BY <1>1, <2>2, EvalStartsIs
  <2>5. \A status \in {"evaluated", "failed"}, exists \in BOOLEAN : EvalEnds(status, exists) =>
           /\ Event("BuildFinished", builder.generation) \in BuildGaugeTold'
           /\ ~exists => /\ BuildGaugeTold \subseteq BuildGaugeTold'
                         /\ BuildGaugeShown => BuildGaugeShown'
    BY <1>1, <2>1, <2>3, EvalEndsIs
  <2>6. BuildStarts \/ (ResumeBuilder /\ HasToBeBuilt(builder.generation)) =>
           BuildGaugeTold \subseteq BuildGaugeTold' /\ (BuildGaugeShown => BuildGaugeShown')
    BY <1>1, <2>2, BuildStartsIs
  <2>7. \A status \in {"built", "failed"} : BuildEnds(status) =>
           Event("BuildFinished", builder.generation) \in BuildGaugeTold'
    BY <1>1, <2>3, BuildEndsIs
  <2> QED BY <1>1, <2>1, <2>4, <2>5, <2>6, <2>7, BuilderTells
<1> HIDE DEF K, BuildGaugeShown
<1>9. After
  BY <1>1, <1>2, <1>3, <1>4, <1>5, <1>6, <1>7, <1>8, KindStep
<1> QED BY <1>9 DEF BuildGaugeSettled, Tells, K

\* The deployer's steps, and what they have to do for the events of one kind to stay settled.
LEMMA DeployerTells ==
    ASSUME TypeInv, Parts, NEW K \in SUBSET TypesOf("deployer"), NEW G, NEW H, NEW now, NEW then,
           Tells("deployer", K, G, now),
           /\ deployer'.deployment = deployer.deployment /\ Latest' = Latest /\ Apart
           /\ (runner' = "created") = (runner = "created")
           /\ (runner' = "running") = (runner = "running")
           => G \subseteq H /\ (now => then),
           DeployStarts => G \subseteq H /\ then,
           DeploymentStarted =>
              \/ "DeploymentStarted" \in K /\ Event("DeploymentStarted", deployer.deployment) \in H
              \/ "DeploymentStarted" \notin K /\ G \subseteq H /\ then,
           \A status \in {"done", "failed"} : DeploymentFinished(status) =>
              /\ "DeploymentFinished" \in K
              /\ Event("DeploymentFinished", deployer.deployment) \in H
    PROVE  Settled(publishing'["deployer"], publishCh', channel', missed', K, H, then)
<1>1. BrokerInv /\ DeployerInv /\ "deployer" \in Publishers /\ Apart
  BY PartsAreApart DEF TypeInv, Publishers, Parts
<1>2. \A n, t : Event(t, n).type = t
  BY DEF Event
<1>3. ASSUME UNCHANGED publishing["deployer"], G \subseteq H, now => then
      PROVE  Settled(publishing'["deployer"], publishCh', channel', missed', K, H, then)
  <2>1. UNCHANGED <<publishCh, channel, missed>>
    BY <1>1 DEF Apart
  <2>2. publishing'["deployer"] = publishing["deployer"]
    BY <1>3
  <2> QED BY <1>3, <2>1, <2>2, Unmoved DEF Tells
<1>4. CASE DeployStarts
  <2>1. UNCHANGED publishing["deployer"]
    BY <1>4 DEF DeployStarts
  <2> QED BY <1>3, <1>4, <2>1
<1>5. CASE DeploymentStarted
  <2> DEFINE e == Event("DeploymentStarted", deployer.deployment)
  <2>1. e \in EventsOf("deployer") /\ publishing["deployer"] = <<>> /\ Emits("deployer", <<e>>)
    BY <1>1, <1>5, DeploymentUpdateIs, EventTypes
  <2> QED BY <1>1, <1>2, <1>5, <2>1, Emission
<1>6. ASSUME NEW status \in {"done", "failed"}, DeploymentFinished(status)
      PROVE  Settled(publishing'["deployer"], publishCh', channel', missed', K, H, then)
  <2> DEFINE e == Event("DeploymentFinished", deployer.deployment)
  <2>1. e \in EventsOf("deployer") /\ publishing["deployer"] = <<>> /\ Emits("deployer", <<e>>)
    BY <1>1, <1>6, DeploymentUpdateIs, EventTypes
  <2> QED BY <1>1, <1>2, <1>6, <2>1, Emission
<1>7. CASE DeployEnds \/ UpdateDeployer
  <2>1. UNCHANGED publishing["deployer"]
    BY <1>7 DEF DeployEnds, UpdateDeployer
  <2>2. deployer'.deployment = deployer.deployment /\ Latest' = Latest
    BY <1>1, <1>7, DeployerFlagIs
  <2>3. /\ (runner' = "created") = (runner = "created")
        /\ (runner' = "running") = (runner = "running")
    BY <1>7 DEF DeployEnds, UpdateDeployer, RunnerStep, Handles
  <2>4. G \subseteq H /\ (now => then)
    BY <1>1, <2>2, <2>3
  <2> QED BY <1>3, <2>1, <2>4
<1>8. CASE ManagerReceives
  <2>1. /\ UNCHANGED <<deployer, deployments>> /\ runner = "notify" /\ runner' = "idle"
        /\ \E s : Emits("manager", s)
    BY <1>8 DEF ManagerReceives, RunnerStep
  <2>2. UNCHANGED publishing["deployer"]
    BY <1>1, <2>1 DEF Emits, BrokerInv, Publishers
  <2>3. Latest' = Latest
    BY <2>1 DEF Latest, Deployment
  <2>4. G \subseteq H /\ (now => then)
    BY <1>1, <2>1, <2>3
  <2> QED BY <1>3, <2>2, <2>4
<1>9. CASE ~DeployerSteps
  <2>1. UNCHANGED <<deployer, runner, deployments, publishing["deployer"]>>
    BY <1>1, <1>9, OtherParts
  <2>2. Latest' = Latest
    BY <2>1 DEF Latest, Deployment
  <2>3. G \subseteq H /\ (now => then)
    BY <1>1, <2>1, <2>2
  <2> QED BY <1>3, <2>1, <2>3
<1> QED BY <1>4, <1>5, <1>6, <1>7, <1>8, <1>9 DEF DeployerSteps

\* DeploymentFinished, as the metrics read how the last deployment has ended.
LEMMA InfoStep ==
    ASSUME TypeInv, InfoSettled, [Next]_vars
    PROVE  InfoSettled'
<1> DEFINE K == {"DeploymentFinished"}
           After == Settled(publishing'["deployer"], publishCh', channel', missed', K,
                            InfoTold', InfoShown')
<1> USE DEF InfoShown
<1>1. /\ DeployerInv /\ "deployer" \in Publishers /\ K \in SUBSET TypesOf("deployer")
      /\ Tells("deployer", K, InfoTold, InfoShown)
  BY AllTypes DEF TypeInv, InfoSettled, Publishers
<1>2. ASSUME deployer'.deployment = deployer.deployment, Latest' = Latest
      PROVE  InfoTold' = InfoTold
  BY <1>2 DEF InfoTold
<1>3. /\ Watches \/ Start \/ UNCHANGED vars => UNCHANGED <<deployer, deployments, Latest>>
      /\ Watches \/ Parts \/ UNCHANGED vars => restored' = restored
      /\ deployer.deployment \in Nat
  BY <1>1, WatchersOnlyWatch, StartShows, RestoredIs DEF DeployerInv, DeployerType
<1>4. Opens \/ Stop => InfoShown'
  BY NothingShown, StopIs
<1>5. Moves /\ InfoShown => InfoShown'
  BY <1>3, MovesShow, MovesWatch
<1>6. (Start \/ UNCHANGED vars) /\ InfoShown => InfoShown'
  <2>1. CASE Start
    <3>1. metrics'.deploymentInfo = Latest'.status /\ deployer'.deployment = restored'
      BY <1>3, <2>1, StartShows
    <3>2. ~(deployer'.deployment > restored')
      BY <1>3, <2>1, <3>1
    <3> QED BY <3>1, <3>2
  <2>2. CASE UNCHANGED vars /\ ~Start
    <3>1. UNCHANGED <<observer, serving, metrics, restored, deployer, Latest>>
      BY <1>3, <2>2, StartShows
    <3> QED BY <3>1
  <2> QED BY <2>1, <2>2
<1>7. Arrives => /\ Head(channel).type \in K /\ Head(channel) \in InfoTold => InfoShown'
                 /\ Head(channel).type \notin K /\ InfoShown => InfoShown'
  BY <1>3, ArrivalShows, MovesWatch DEF InfoTold, Gauges, Latest, Deployment
<1>8. Parts => After
  <2> SUFFICES ASSUME Parts PROVE After
    OBVIOUS
  <2>1. ASSUME deployer'.deployment = deployer.deployment, Latest' = Latest
        PROVE  InfoTold \subseteq InfoTold' /\ (InfoShown => InfoShown')
    BY <1>2, <1>3, <2>1, PartsAreApart DEF Parts, Apart
  <2>2. ASSUME Latest'.status \notin {"none", "done", "failed"}
        PROVE  InfoTold \subseteq InfoTold' /\ InfoShown'
    BY <2>2 DEF InfoTold
  <2> HIDE DEF InfoShown
  <2>3. DeployStarts \/ DeploymentStarted => InfoTold \subseteq InfoTold' /\ InfoShown'
    BY <1>1, <2>2, DeployStartsIs, DeploymentUpdateIs
  <2>4. \A status \in {"done", "failed"} : DeploymentFinished(status) =>
           Event("DeploymentFinished", deployer.deployment) \in InfoTold'
    <3>1. Event("DeploymentFinished", deployer.deployment) \in Events
      BY <1>1, EventTypes DEF DeployerInv, DeployerType
    <3> QED BY <1>1, <3>1, DeploymentUpdateIs DEF InfoTold, Event
  <2> QED BY <1>1, <2>1, <2>3, <2>4, DeployerTells
<1> HIDE DEF K, InfoShown
<1>9. After
  BY <1>1, <1>2, <1>3, <1>4, <1>5, <1>6, <1>7, <1>8, KindStep
<1> QED BY <1>9 DEF InfoSettled, Tells, K

\* DeploymentStarted and DeploymentFinished, as the terminal shows the deployment.
LEMMA DeploymentStep ==
    ASSUME TypeInv, DeploymentSettled, [Next]_vars
    PROVE  DeploymentSettled'
<1> DEFINE K == TypesOf("deployer")
           After == Settled(publishing'["deployer"], publishCh', channel', missed', K,
                            DeploymentTold', DeploymentShown')
<1> USE DEF DeploymentShown
<1>1. /\ DeployerInv /\ "deployer" \in Publishers /\ K \in SUBSET TypesOf("deployer")
      /\ Tells("deployer", K, DeploymentTold, DeploymentShown)
  BY DEF TypeInv, DeploymentSettled, Publishers
<1>2. ASSUME deployer'.deployment = deployer.deployment,
             (runner' = "created") = (runner = "created"),
             (runner' = "running") = (runner = "running")
      PROVE  DeploymentTold' = DeploymentTold
  BY <1>2 DEF DeploymentTold
<1>3. Watches \/ Start \/ UNCHANGED vars => UNCHANGED <<deployer, runner, deployments, Latest>>
  BY WatchersOnlyWatch, StartShows
<1>4. Opens \/ Stop => DeploymentShown'
  BY NothingShown
<1>5. Moves /\ DeploymentShown => DeploymentShown'
  BY <1>1, <1>3, MovesShow, MovesWatch DEF Latest, DeployerInv, DeployerType
<1>6. (Start \/ UNCHANGED vars) /\ DeploymentShown => DeploymentShown'
  BY <1>3, StartShows DEF Streams
<1>7. Arrives => /\ Head(channel).type \in K /\ Head(channel) \in DeploymentTold => DeploymentShown'
                 /\ Head(channel).type \notin K /\ DeploymentShown => DeploymentShown'
  BY <1>3, ArrivalShows, MovesWatch DEF DeploymentTold, Updated, Latest, Deployment
<1>8. Parts => After
  <2> SUFFICES ASSUME Parts PROVE After
    OBVIOUS
  <2>1. ASSUME deployer'.deployment = deployer.deployment, Latest' = Latest,
               (runner' = "created") = (runner = "created"),
               (runner' = "running") = (runner = "running")
        PROVE  DeploymentTold \subseteq DeploymentTold' /\ (DeploymentShown => DeploymentShown')
    BY <1>2, <2>1, PartsAreApart DEF Parts, Apart, Streams
  <2>2. DeployStarts => DeploymentTold \subseteq DeploymentTold' /\ DeploymentShown'
    BY <1>1, DeployStartsIs DEF DeploymentTold
  <2>3. \A t \in K : Event(t, deployer.deployment) \in Events
    BY <1>1, EventTypes, AllTypes DEF DeployerInv, DeployerType
  <2>4. "DeploymentStarted" \in K /\ "DeploymentFinished" \in K
    BY AllTypes
  <2> HIDE DEF DeploymentShown, K
  <2>5. DeploymentStarted => Event("DeploymentStarted", deployer.deployment) \in DeploymentTold'
    BY <1>1, <2>3, <2>4, DeploymentUpdateIs DEF DeploymentTold, Event
  <2>6. \A status \in {"done", "failed"} : DeploymentFinished(status) =>
           Event("DeploymentFinished", deployer.deployment) \in DeploymentTold'
    BY <1>1, <2>3, <2>4, DeploymentUpdateIs DEF DeploymentTold, Event
  <2> QED BY <1>1, <2>1, <2>2, <2>4, <2>5, <2>6, DeployerTells
<1> HIDE DEF K, DeploymentShown
<1>9. After
  BY <1>1, <1>2, <1>3, <1>4, <1>5, <1>6, <1>7, <1>8, KindStep
<1>10. TypesOf("deployer")' = TypesOf("deployer")
  OBVIOUS
<1> QED BY <1>9, <1>10 DEF DeploymentSettled, Tells, K

-----------------------------------------------------------------------------
(* The theorems.                                                           *)

\* Nothing is shown yet.
LEMMA MonitorInit == Init => MonitorInv
<1> SUFFICES ASSUME Init PROVE MonitorInv
  OBVIOUS
<1>1. TypeInv
  BY TypeInit
<1>2. publishCh = <<>> /\ channel = <<>> /\ \A p \in Publishers : publishing[p] = <<>>
  BY DEF Init
<1>3. ASSUME NEW p \in Publishers, NEW K, NEW G, NEW now, now PROVE Tells(p, K, G, now)
  BY <1>2, <1>3, Empty DEF Tells
<1>4. ~FlagsRead /\ ~BuilderRead /\ events = "none" /\ ~Streams
  BY DEF Init, FlagsRead, BuilderRead, Streams
<1>5. SuspensionShown /\ metrics.deploymentInfo = "none" /\ restored = 0
  BY <1>4 DEF Init, SuspensionShown, NoMetrics
<1>6. FetchShown /\ RebootShown /\ EvaluatingShown /\ BuildingShown /\ GenerationShown
  BY <1>4 DEF FetchShown, RebootShown, EvaluatingShown, BuildingShown, GenerationShown
<1>7. builder.generation = 0 /\ deployer.deployment = 0
  BY DEF Init, NoDeployer
<1>8. Current = NoGeneration /\ Latest = NoDeployment
  BY <1>7 DEF Current, Generation, Latest, Deployment
<1>9. EvalGaugeShown /\ BuildGaugeShown /\ InfoShown /\ DeploymentShown
  BY <1>4, <1>5, <1>7, <1>8 DEF EvalGaugeShown, BuildGaugeShown, InfoShown, DeploymentShown,
                                NoGeneration, NoDeployment
<1>10. /\ "builder" \in Publishers /\ "deployer" \in Publishers /\ "manager" \in Publishers
       /\ "handler" \in Publishers /\ "fetcher" \in Publishers
  BY DEF Publishers
<1>11. SuspensionSettled /\ FetchSettled /\ RebootSettled
  BY <1>3, <1>5, <1>6, <1>10 DEF SuspensionSettled, FetchSettled, RebootSettled
<1>12. EvaluatingSettled /\ BuildingSettled /\ GenerationSettled
  BY <1>3, <1>6, <1>10 DEF EvaluatingSettled, BuildingSettled, GenerationSettled
<1>13. EvalGaugeSettled /\ BuildGaugeSettled /\ InfoSettled /\ DeploymentSettled
  BY <1>3, <1>9, <1>10 DEF EvalGaugeSettled, BuildGaugeSettled, InfoSettled, DeploymentSettled
<1> QED BY <1>1, <1>11, <1>12, <1>13 DEF MonitorInv

\* Every step keeps the invariant.
LEMMA MonitorStep == MonitorInv /\ [Next]_vars => MonitorInv'
BY TypeStep, SuspensionStep, FetchStep, RebootStep, EvaluatingStep, BuildingStep, GenerationStep,
   EvalGaugeStep, BuildGaugeStep, InfoStep, DeploymentStep DEF MonitorInv

\* The inductive invariant: of the events of each kind on their way the last one tells how
\* things are now, and what is shown is how things are when there is none and none was missed.
THEOREM EventsSettle == Spec => []MonitorInv
BY MonitorInit, MonitorStep, PTL DEF Spec

\* When no event is on its way and none was missed, what is shown is how things are.
LEMMA QuietShows ==
    ASSUME MonitorInv, Quiet
    PROVE  /\ SuspensionShown /\ FetchShown /\ RebootShown
           /\ EvaluatingShown /\ BuildingShown /\ GenerationShown
           /\ EvalGaugeShown /\ BuildGaugeShown /\ InfoShown /\ DeploymentShown
<1>1. ASSUME NEW p \in Publishers, NEW K, NEW G, NEW now, Tells(p, K, G, now) PROVE now
  <2>1. Settled(<<>>, <<>>, <<>>, missed, K, G, now) /\ ~missed
    BY <1>1 DEF Tells, Quiet
  <2>2. ~Has(<<>>, K)
    BY DEF Has
  <2> QED BY <2>1, <2>2 DEF Settled
<1>2. /\ "builder" \in Publishers /\ "deployer" \in Publishers /\ "manager" \in Publishers
      /\ "handler" \in Publishers /\ "fetcher" \in Publishers
  BY DEF Publishers
<1>3. SuspensionShown /\ FetchShown /\ RebootShown
  BY <1>1, <1>2 DEF MonitorInv, SuspensionSettled, FetchSettled, RebootSettled
<1>4. EvaluatingShown /\ BuildingShown /\ GenerationShown
  BY <1>1, <1>2 DEF MonitorInv, EvaluatingSettled, BuildingSettled, GenerationSettled
<1>5. EvalGaugeShown /\ BuildGaugeShown /\ InfoShown /\ DeploymentShown
  BY <1>1, <1>2 DEF MonitorInv, EvalGaugeSettled, BuildGaugeSettled, InfoSettled, DeploymentSettled
<1> QED BY <1>3, <1>4, <1>5

\* The metrics of internal/prometheus, when they have received every event since the process
\* was started, tell the suspension, how the evaluation and the build of the current
\* generation ended and how the last deployment did, one of an earlier process included; the
\* gauge of failed deployments tells so of a deployment of this process.
THEOREM MetricsFollow == Spec => []MetricsAreCurrent
<1>1. MonitorInv => MetricsAreCurrent
  <2> SUFFICES ASSUME MonitorInv, Quiet, observer = "metrics"
               PROVE  LET g == Generation(builder.generation)
                          d == Deployment(deployer.deployment)
                      IN  /\ metrics.suspended = suspended
                          /\ g.eval \in {"evaluated", "failed"} =>
                                metrics.evalFailed = (g.eval = "failed")
                          /\ g.build \in {"built", "failed"} =>
                                metrics.buildFailed = (g.build = "failed")
                          /\ d.status \in {"none", "done", "failed"} =>
                                /\ metrics.deploymentInfo = d.status
                                /\ deployer.deployment > restored =>
                                      metrics.deploymentFailed = (d.status = "failed")
    BY DEF MetricsAreCurrent
  <2>1. serving
    BY DEF Quiet, MonitorInv, TypeInv, StreamInv
  <2> QED BY <2>1, QuietShows DEF SuspensionShown, EvalGaugeShown, BuildGaugeShown, InfoShown,
                                  Current, Latest
<1> QED BY <1>1, EventsSettle, PTL

\* The state of the builder or of the deployer without its suspension.
LEMMA WithoutSuspension ==
    /\ \A b, c : BuilderFields(b) /\ c = [b EXCEPT !.suspended = FALSE] =>
          c = [evaluating |-> b.evaluating, building |-> b.building, suspended |-> FALSE,
               generation |-> b.generation]
    /\ \A b, c : DeployerFields(b) /\ c = [b EXCEPT !.suspended = FALSE] =>
          c = [deploying |-> b.deploying, suspended |-> FALSE, deployment |-> b.deployment]
<1>1. ASSUME NEW b, NEW c, BuilderFields(b), c = [b EXCEPT !.suspended = FALSE]
      PROVE  c = [evaluating |-> b.evaluating, building |-> b.building, suspended |-> FALSE,
                  generation |-> b.generation]
  BY <1>1 DEF BuilderFields
<1>2. ASSUME NEW b, NEW c, DeployerFields(b), c = [b EXCEPT !.suspended = FALSE]
      PROVE  c = [deploying |-> b.deploying, suspended |-> FALSE, deployment |-> b.deployment]
  BY <1>2 DEF DeployerFields
<1> QED BY <1>1, <1>2

\* What the terminal shows, without the suspensions of the builder and of the deployer.
LEMMA Shows ==
    ASSUME NEW v, NEW u, u = NotSuspended(v), v.connected,
           v = [connected |-> v.connected, reboot |-> v.reboot, suspended |-> v.suspended,
                fetching |-> v.fetching, builder |-> v.builder, deployer |-> v.deployer],
           BuilderFields(v.builder), DeployerFields(v.deployer)
    PROVE  ManagerView(u) =
             [connected |-> TRUE, reboot |-> v.reboot, suspended |-> v.suspended,
              fetcher |-> FetcherView(v.fetching),
              builder |-> [status |-> IF v.builder.evaluating THEN "evaluating"
                                      ELSE IF v.builder.building THEN "building" ELSE "idle",
                           generation |-> v.builder.generation.n,
                           eval |-> Line(v.builder.generation.eval),
                           build |-> Line(v.builder.generation.build)],
              deployer |-> [status |-> IF v.deployer.deploying THEN "deploying" ELSE "idle",
                            deployment |-> v.deployer.deployment]]
<1> DEFINE b == [evaluating |-> v.builder.evaluating, building |-> v.builder.building,
                 suspended |-> FALSE, generation |-> v.builder.generation]
           d == [deploying |-> v.deployer.deploying, suspended |-> FALSE,
                 deployment |-> v.deployer.deployment]
<1>1. u = [v EXCEPT !.builder = [v.builder EXCEPT !.suspended = FALSE],
                    !.deployer = [v.deployer EXCEPT !.suspended = FALSE]]
  BY DEF NotSuspended
<1>2. [v.builder EXCEPT !.suspended = FALSE] = b /\ [v.deployer EXCEPT !.suspended = FALSE] = d
  BY WithoutSuspension
<1>4. u = [v EXCEPT !.builder = b, !.deployer = d]
  BY <1>1, <1>2
<1> HIDE DEF b, d
<1>5. u = [connected |-> v.connected, reboot |-> v.reboot, suspended |-> v.suspended,
           fetching |-> v.fetching, builder |-> b, deployer |-> d]
  BY <1>4
<1>6. /\ u.connected = v.connected /\ u.reboot = v.reboot /\ u.suspended = v.suspended
      /\ u.fetching = v.fetching /\ u.builder = b /\ u.deployer = d
  BY <1>5
<1>7. BuilderView(b) = [status |-> IF v.builder.evaluating THEN "evaluating"
                                   ELSE IF v.builder.building THEN "building" ELSE "idle",
                        generation |-> v.builder.generation.n,
                        eval |-> Line(v.builder.generation.eval),
                        build |-> Line(v.builder.generation.build)]
  BY DEF BuilderView, b
<1>8. DeployerView(d) = [status |-> IF v.deployer.deploying THEN "deploying" ELSE "idle",
                         deployment |-> v.deployer.deployment]
  BY DEF DeployerView, d
<1>9. ManagerView(u) = [connected |-> TRUE, reboot |-> v.reboot, suspended |-> v.suspended,
                        fetcher |-> FetcherView(v.fetching), builder |-> BuilderView(b),
                        deployer |-> DeployerView(d)]
  BY <1>6 DEF ManagerView
<1> QED BY <1>7, <1>8, <1>9

\* What `comin status' would report has the same fields.
LEMMA ActualIs ==
    ASSUME TypeInv
    PROVE  /\ Actual = [connected |-> TRUE, reboot |-> needToReboot, suspended |-> suspended,
                        fetching |-> isFetching, builder |-> Actual.builder,
                        deployer |-> Actual.deployer]
           /\ BuilderFields(Actual.builder) /\ DeployerFields(Actual.deployer)
           /\ Actual.builder.evaluating = builder.evaluating
           /\ Actual.builder.building = builder.building
           /\ Actual.builder.generation = Current
           /\ Actual.deployer.deploying = deployer.deploying
           /\ Actual.deployer.deployment = Latest
<1> DEFINE b == [builder EXCEPT !.generation = Current]
           d == [deployer EXCEPT !.deployment = Latest]
<1>1. builder \in BuilderType /\ deployer \in DeployerType
  BY DEF TypeInv, BuilderInv, DeployerInv
<1>2. /\ BuilderFields(b) /\ b.evaluating = builder.evaluating /\ b.building = builder.building
      /\ b.generation = Current
  BY <1>1 DEF BuilderType, BuilderFields
<1>3. DeployerFields(d) /\ d.deploying = deployer.deploying /\ d.deployment = Latest
  BY <1>1 DEF DeployerType, DeployerFields
<1>4. Actual = [connected |-> TRUE, reboot |-> needToReboot, suspended |-> suspended,
                fetching |-> isFetching, builder |-> b, deployer |-> d]
  BY DEF Actual, Current, Latest
<1> HIDE DEF b, d
<1>5. Actual.builder = b /\ Actual.deployer = d
  BY <1>4
<1> QED BY <1>2, <1>3, <1>4, <1>5

\* The terminal of `comin watch', once the events have arrived and none was missed, shows the
\* suspension, the evaluation, the build and the generation that `comin status' reports, no
\* fetch that has ended and every need to reboot, whenever the parts of the snapshot were read.
THEOREM ViewFollows == Spec => []ViewIsCurrent
<1>1. MonitorInv => ViewIsCurrent
  <2> SUFFICES ASSUME MonitorInv, InStep PROVE ViewIsCurrent
    BY DEF ViewIsCurrent
  <2> DEFINE shown == ManagerView(NotSuspended(view))
             actual == ManagerView(NotSuspended(Actual))
  <2>1. TypeInv /\ ShownInv /\ Streams /\ Quiet /\ view.connected
    BY DEF MonitorInv, TypeInv, ShownInv, InStep, Streams
  <2>2. /\ shown.connected /\ shown.suspended = view.suspended /\ shown.reboot = view.reboot
        /\ shown.fetcher = FetcherView(view.fetching)
        /\ shown.builder = [status |-> IF view.builder.evaluating THEN "evaluating"
                                       ELSE IF view.builder.building THEN "building" ELSE "idle",
                            generation |-> view.builder.generation.n,
                            eval |-> Line(view.builder.generation.eval),
                            build |-> Line(view.builder.generation.build)]
    BY <2>1, Shows DEF ShownInv
  <2>3. /\ actual.suspended = suspended
        /\ actual.builder = [status |-> IF builder.evaluating THEN "evaluating"
                                        ELSE IF builder.building THEN "building" ELSE "idle",
                             generation |-> Current.n,
                             eval |-> Line(Current.eval), build |-> Line(Current.build)]
    <3>1. Actual.connected /\ Actual.suspended = suspended /\ Actual.reboot = needToReboot
          /\ Actual.fetching = isFetching
      BY <2>1, ActualIs
    <3> QED BY <2>1, <3>1, ActualIs, Shows
  <2> HIDE DEF shown, actual
  <2>4. /\ view.suspended = suspended /\ view.builder.evaluating = builder.evaluating
        /\ view.builder.building = builder.building /\ view.builder.generation = Current
        /\ view.fetching => isFetching
        /\ needToReboot => view.reboot
    BY <2>1, QuietShows DEF SuspensionShown, EvaluatingShown, BuildingShown, GenerationShown,
                            FetchShown, RebootShown
  <2>5. shown.fetcher = "fetching" => isFetching
    BY <2>2, <2>4 DEF FetcherView
  <2>6. /\ shown.connected /\ shown.suspended = actual.suspended
        /\ shown.builder = actual.builder /\ (needToReboot => shown.reboot)
    BY <2>2, <2>3, <2>4
  <2> QED BY <2>5, <2>6 DEF ViewIsCurrent, shown, actual
<1> QED BY <1>1, EventsSettle, PTL

\* So it does for the deployer's status and the deployment, but while a deployment is created
\* and while the post deployment command runs, or when the snapshot was taken in that time.
THEOREM DeploymentFollows == Spec => []DeploymentIsShown
<1>1. MonitorInv => DeploymentIsShown
  <2> SUFFICES ASSUME MonitorInv, InStep, runner \notin {"created", "command"}, ~stale
               PROVE  ManagerView(NotSuspended(view)).deployer =
                         ManagerView(NotSuspended(Actual)).deployer
    BY DEF DeploymentIsShown
  <2>1. TypeInv /\ ShownInv /\ Streams /\ Quiet /\ view.connected
    BY DEF MonitorInv, TypeInv, ShownInv, InStep, Streams
  <2>2. ManagerView(NotSuspended(view)).deployer =
           [status |-> IF view.deployer.deploying THEN "deploying" ELSE "idle",
            deployment |-> view.deployer.deployment]
    BY <2>1, Shows DEF ShownInv
  <2>3. ManagerView(NotSuspended(Actual)).deployer =
           [status |-> IF deployer.deploying THEN "deploying" ELSE "idle", deployment |-> Latest]
    <3>1. Actual.connected /\ Actual.suspended = suspended /\ Actual.reboot = needToReboot
          /\ Actual.fetching = isFetching
      BY <2>1, ActualIs
    <3> QED BY <2>1, <3>1, ActualIs, Shows
  <2>4. view.deployer.deploying = (runner = "running") /\ view.deployer.deployment = Latest
    BY <2>1, QuietShows DEF DeploymentShown
  <2>5. deployer.deploying = (runner = "running")
    BY <2>1 DEF TypeInv, DeployerInv, DeployerType
  <2> QED BY <2>2, <2>3, <2>4, <2>5
<1> QED BY <1>1, EventsSettle, PTL

=============================================================================
