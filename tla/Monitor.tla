------------------------------ MODULE Monitor ------------------------------
(***************************************************************************)
(* Those who watch comin: the terminal of `comin watch' (cmd/watch.go and  *)
(* pkg/tui), which follows the event stream of the gRPC server (internal/  *)
(* server, pkg/client), and the metrics (internal/prometheus).  Both       *)
(* subscribe to the broker (internal/broker); the terminal starts from a   *)
(* snapshot that the manager's state loop assembles part by part.          *)
(*                                                                         *)
(* What is watched is modelled by its flags, by the generations and        *)
(* deployments that events point to and by the order in which they change  *)
(* and events are published.  An event refers to a generation or to a      *)
(* deployment, which the receiver reads as it is by then.  Evaluations do  *)
(* not overlap (EvaluationsDoNotOverlap in Builder), the builds neither    *)
(* (SingleTask), a deployment under way stays in the store                 *)
(* (UnderWayIsStored in Retention) and the confirmers answer to the state  *)
(* loop.  The requests of clients come one after the other, and no build   *)
(* starts between the steps of a Suspend.  A behaviour follows the         *)
(* terminal or the metrics: the broker does not wait for its subscribers,  *)
(* so that they have no effect on each other.  A message is received when  *)
(* it is sent: what the stream buffers is modelled by the channel.         *)
(***************************************************************************)
EXTENDS Naturals, Sequences, FiniteSets

CONSTANTS
    SubscriberCapacity,   \* of a subscriber's channel; 5 in the code
    Plans                 \* a bound: how often each kind of operation may begin in a
                          \* behaviour; a stop is of the process or of the terminal

ASSUME MonitorAssumption ==
    /\ SubscriberCapacity \in Nat \ {0}
    /\ Plans \subseteq [{"eval", "build", "deployment", "fetch", "request", "stop"} -> Nat]

Publishers == {"builder", "deployer", "manager", "handler", "fetcher"}

VARIABLES
    \* The parts of comin
    serving,          \* the process runs
    builder,          \* isEvaluating, isBuilding, isSuspended, GenerationUuid
    generations,      \* the statuses of the generations
    deployer,         \* isDeploying, isSuspended, deployment
    runner,           \* the deployer's goroutine
    deployments,      \* the statuses of the deployments
    suspended, needToReboot,   \* of the manager
    isFetching,
    request,          \* the step of the Suspend or Resume under way
    waiting,          \* the terminal waits for it
    \* The broker
    publishing,       \* the events that each goroutine is about to publish
    publishCh,
    observer,         \* the subscriber that this behaviour follows
    subscribed,
    channel,          \* the channel of the subscriber
    missed,           \* history: an event did not reach it
    \* The state loop and the stream
    stateLoop, state, events, connection, stale,
    \* The terminal and the metrics
    client, view, metrics,
    restored,   \* history: the deployment that this process found in the store
    plan        \* what may still begin

partVars == <<builder, generations, deployer, runner, deployments, suspended, needToReboot,
              isFetching>>
brokerVars == <<publishCh, observer, subscribed, channel, missed>>
requestVars == <<request, waiting>>
streamVars == <<stateLoop, state, events, connection, stale>>
clientVars == <<client, view>>
vars == <<serving, partVars, requestVars, publishing, brokerVars, streamVars, clientVars,
          metrics, restored, plan>>

Event(type, ref) == [type |-> type, ref |-> ref]

NoGeneration == [n |-> 0, eval |-> "none", build |-> "none"]
NoDeployment == [n |-> 0, status |-> "none"]

Generation(n) == IF n = 0 THEN NoGeneration ELSE generations[n]
Deployment(n) == IF n = 0 THEN NoDeployment ELSE deployments[n]

NoDeployer == [deploying |-> FALSE, suspended |-> FALSE, deployment |-> 0]

NoView ==
    [connected |-> TRUE, reboot |-> FALSE, suspended |-> FALSE, fetching |-> FALSE,
     builder |-> [evaluating |-> FALSE, building |-> FALSE, suspended |-> FALSE,
                  generation |-> NoGeneration],
     deployer |-> [deploying |-> FALSE, suspended |-> FALSE, deployment |-> NoDeployment]]

NoMetrics ==
    [suspended |-> FALSE, reboot |-> FALSE, evalFailed |-> FALSE, buildFailed |-> FALSE,
     deploymentFailed |-> FALSE, deploymentInfo |-> "none"]

NoState == [builder |-> 0]

Init ==
    /\ serving = TRUE
    /\ builder = [evaluating |-> FALSE, building |-> FALSE, suspended |-> FALSE, generation |-> 0]
    /\ generations = <<>>
    /\ deployer = NoDeployer
    /\ runner = "idle" /\ deployments = <<>>
    /\ suspended = FALSE /\ needToReboot = FALSE /\ isFetching = FALSE
    /\ request = "none" /\ waiting = FALSE
    /\ publishing = [p \in Publishers |-> <<>>] /\ publishCh = <<>>
    /\ observer \in {"watch", "metrics"} /\ subscribed = FALSE /\ channel = <<>> /\ missed = FALSE
    /\ stateLoop = "select" /\ state = NoState /\ events = "none"
    /\ connection = "none" /\ stale = FALSE
    /\ client = "connecting" /\ view = NoView
    /\ metrics = NoMetrics /\ restored = 0
    /\ plan \in Plans

-----------------------------------------------------------------------------
(* What is watched.                                                        *)

\* An operation begins.
Begins(kind) == plan[kind] > 0 /\ plan' = [plan EXCEPT ![kind] = @ - 1]

Runs(p) == serving /\ publishing[p] = <<>>

Emits(p, es) == publishing' = [publishing EXCEPT ![p] = es]

\* The builder's steps are made with its lock held until their events are published.
BuilderStep(b, g, es) ==
    /\ Runs("builder")
    /\ builder' = b
    /\ generations' = g
    /\ Emits("builder", es)
    /\ UNCHANGED <<serving, deployer, runner, deployments, suspended, needToReboot,
                   isFetching, requestVars, brokerVars, streamVars, clientVars, metrics,
                   restored>>

\* Eval of a new commit, once the previous evaluation and build have ended.
EvalStarts ==
    LET n == Len(generations) + 1
    IN  /\ Begins("eval") /\ ~builder.evaluating /\ ~builder.building
        /\ BuilderStep([builder EXCEPT !.evaluating = TRUE, !.generation = n],
                       Append(generations, [n |-> n, eval |-> "evaluating", build |-> "init"]),
                       <<Event("EvalStarted", n)>>)

\* The end of an evaluation; when the out path exists it counts as a build as well.
EvalEnds(status, exists) ==
    LET n == builder.generation
    IN  /\ builder.evaluating /\ UNCHANGED plan
        /\ BuilderStep([builder EXCEPT !.evaluating = FALSE],
                       [generations EXCEPT ![n].eval = status,
                                           ![n].build = IF exists THEN "built" ELSE @],
                       <<Event("EvalFinished", n)>> \o
                       IF exists THEN <<Event("BuildStarted", n), Event("BuildFinished", n)>>
                                 ELSE <<>>)

HasToBeBuilt(n) == Generation(n).eval = "evaluated" /\ Generation(n).build # "built"

\* SubmitBuild.
BuildStarts ==
    LET n == builder.generation
    IN  /\ Begins("build") /\ ~builder.suspended /\ ~builder.building /\ HasToBeBuilt(n)
        /\ BuilderStep([builder EXCEPT !.building = TRUE],
                       [generations EXCEPT ![n].build = "building"],
                       <<Event("BuildStarted", n)>>)

BuildEnds(status) ==
    LET n == builder.generation
    IN  /\ builder.building /\ UNCHANGED plan
        /\ BuilderStep([builder EXCEPT !.building = FALSE],
                       [generations EXCEPT ![n].build = status],
                       <<Event("BuildFinished", n)>>)

RunnerStep(from, to) ==
    /\ Runs("deployer") /\ runner = from
    /\ runner' = to
    /\ UNCHANGED <<serving, builder, generations, suspended, isFetching, requestVars,
                   brokerVars, streamVars, clientVars, metrics, restored>>

\* The deployment is created and isDeploying set; the event comes later.
DeployStarts ==
    /\ Begins("deployment") /\ ~deployer.suspended
    /\ RunnerStep("idle", "created")
    /\ deployments' = Append(deployments, [n |-> Len(deployments) + 1, status |-> "init"])
    /\ deployer' = [deployer EXCEPT !.deploying = TRUE, !.deployment = Len(deployments')]
    /\ UNCHANGED <<needToReboot, publishing>>

DeploymentUpdate(status, type) ==
    /\ deployments' = [deployments EXCEPT ![deployer.deployment].status = status]
    /\ Emits("deployer", <<Event(type, deployer.deployment)>>)
    /\ UNCHANGED <<deployer, needToReboot, plan>>

DeploymentStarted ==
    /\ RunnerStep("created", "running")
    /\ DeploymentUpdate("running", "DeploymentStarted")

DeploymentFinished(status) ==
    /\ RunnerStep("running", "command")
    /\ DeploymentUpdate(status, "DeploymentFinished")

\* isDeploying is reset after the post deployment command, and DeploymentDoneCh tells
\* the state loop, which computes whether a reboot is needed.
DeployEnds ==
    /\ RunnerStep("command", "notify")
    /\ deployer' = [deployer EXCEPT !.deploying = FALSE]
    /\ UNCHANGED <<deployments, needToReboot, publishing, plan>>

ManagerReceives ==
    /\ Runs("manager") /\ stateLoop = "select"
    /\ RunnerStep("notify", "idle")
    /\ needToReboot' \in BOOLEAN
    /\ Emits("manager", IF needToReboot' THEN <<Event("RebootRequired", 0)>> ELSE <<>>)
    /\ UNCHANGED <<deployer, deployments, plan>>

\* The fetcher's loop: no event tells that a fetch starts.
FetcherStep(fetching, es) ==
    /\ Runs("fetcher") /\ isFetching # fetching
    /\ isFetching' = fetching
    /\ Emits("fetcher", es)
    /\ UNCHANGED <<serving, builder, generations, deployer, runner, deployments,
                   suspended, needToReboot, requestVars, brokerVars, streamVars,
                   clientVars, metrics, restored>>

FetchStarts == Begins("fetch") /\ FetcherStep(TRUE, <<>>)
FetchEnds == FetcherStep(FALSE, <<Event("Fetched", 0)>>) /\ UNCHANGED plan

-----------------------------------------------------------------------------
(* Suspend and Resume.                                                     *)

\* The handler is called, by `comin suspend' or `comin resume' or by the key s of the
\* terminal, which asks for the contrary of what it shows.
Request(op, watch) ==
    /\ Begins("request") /\ serving /\ request = "none"
    /\ watch => observer = "watch" /\ op = (IF view.suspended THEN "resume" ELSE "suspend")
    /\ request' = op /\ waiting' = watch
    /\ UNCHANGED <<serving, partVars, publishing, brokerVars, streamVars, clientVars,
                   metrics, restored>>

\* A step of the handler.
Handles(from, to) ==
    /\ Runs("handler") /\ request = from
    /\ request' = to
    /\ UNCHANGED <<serving, runner, deployments, needToReboot, isFetching, waiting,
                   brokerVars, streamVars, clientVars, metrics, restored, plan>>

\* The manager or the builder refuses the request.
Refused ==
    /\ \/ Handles("suspend", "return") /\ (suspended \/ builder.suspended)
       \/ Handles("resume", "return") /\ (~suspended \/ ~builder.suspended)
    /\ UNCHANGED <<builder, generations, deployer, suspended, publishing>>

\* Builder.Suspend returns when the build, which it stops, has ended.
SuspendBuilder ==
    /\ Handles("suspend", "suspendDeployer")
    /\ ~suspended /\ ~builder.suspended /\ ~builder.building /\ Runs("builder")
    /\ builder' = [builder EXCEPT !.suspended = TRUE]
    /\ UNCHANGED <<generations, deployer, suspended, publishing>>

\* Builder.Resume restarts the build.
ResumeBuilder ==
    LET n == builder.generation
        b == [builder EXCEPT !.suspended = FALSE]
    IN  /\ Handles("resume", "resumeDeployer")
        /\ suspended /\ builder.suspended /\ Runs("builder")
        /\ \/ /\ HasToBeBuilt(n)
              /\ builder' = [b EXCEPT !.building = TRUE]
              /\ generations' = [generations EXCEPT ![n].build = "building"]
              /\ Emits("builder", <<Event("BuildStarted", n)>>)
           \/ /\ ~HasToBeBuilt(n)
              /\ builder' = b
              /\ UNCHANGED <<generations, publishing>>
        /\ UNCHANGED <<deployer, suspended>>

\* Deployer.Suspend and Deployer.Resume.
UpdateDeployer ==
    /\ \/ /\ Handles("suspendDeployer", "suspendManager")
          /\ deployer' = [deployer EXCEPT !.suspended = TRUE]
       \/ /\ Handles("resumeDeployer", "resumeManager")
          /\ deployer' = [deployer EXCEPT !.suspended = FALSE]
    /\ UNCHANGED <<builder, generations, suspended, publishing>>

\* The flag of the manager, and the event.
UpdateManagerFlag ==
    /\ \/ /\ Handles("suspendManager", "return")
          /\ suspended' = TRUE
          /\ Emits("handler", <<Event("Suspend", 0)>>)
       \/ /\ Handles("resumeManager", "return")
          /\ suspended' = FALSE
          /\ Emits("handler", <<Event("Resume", 0)>>)
    /\ UNCHANGED <<builder, generations, deployer>>

Return ==
    /\ Runs("handler") /\ request = "return"
    /\ request' = "none" /\ waiting' = FALSE
    /\ UNCHANGED <<serving, partVars, publishing, brokerVars, streamVars, clientVars,
                   metrics, restored, plan>>

-----------------------------------------------------------------------------
(* The broker.                                                             *)

\* Publish blocks while publishCh, which has one place, is full.
Publish(p) ==
    /\ publishing[p] # <<>> /\ publishCh = <<>>
    /\ publishCh' = <<Head(publishing[p])>>
    /\ Emits(p, Tail(publishing[p]))
    /\ UNCHANGED <<serving, partVars, requestVars, observer, subscribed, channel, missed,
                   streamVars, clientVars, metrics, restored, plan>>

\* The broker sends the event to the subscribers whose channels are not full.
Forward ==
    /\ publishCh # <<>>
    /\ publishCh' = <<>>
    /\ LET receives == subscribed /\ Len(channel) < SubscriberCapacity
       IN  /\ channel' = IF receives THEN channel \o publishCh ELSE channel
           /\ missed' = (missed \/ ~receives)
    /\ UNCHANGED <<serving, partVars, requestVars, publishing, observer, subscribed,
                   streamVars, clientVars, metrics, restored, plan>>

-----------------------------------------------------------------------------
(* The handler Events and the state loop.                                  *)

\* Mutant of EventsSubscribe: the handler subscribes after the snapshot.
EventsSubscribeLate ==
    /\ \/ events = "start" /\ events' = "request" /\ UNCHANGED <<subscribed, missed>>
       \/ /\ events = "streaming" /\ ~subscribed /\ UNCHANGED events
          /\ subscribed' = TRUE /\ missed' = FALSE
    /\ UNCHANGED <<serving, partVars, requestVars, publishing, publishCh, observer,
                   channel, stateLoop, state, connection, stale, clientVars, metrics,
                   restored, plan>>

EventsSubscribe ==
    /\ events = "start"
    /\ subscribed' = TRUE /\ missed' = FALSE
    /\ events' = "request"
    /\ UNCHANGED <<serving, partVars, requestVars, publishing, publishCh, observer,
                   channel, stateLoop, state, connection, stale, clientVars, metrics,
                   restored, plan>>

\* A step of the state loop.
StateStep(from, to) ==
    /\ serving /\ stateLoop = from
    /\ stateLoop' = to
    /\ UNCHANGED <<serving, partVars, requestVars, publishing, brokerVars, connection,
                   clientVars, metrics, restored, plan>>

\* GetState meets the loop on the unbuffered stateRequestCh.
StateRequest ==
    /\ events = "request" /\ Runs("manager")
    /\ StateStep("select", "builder")
    /\ state' = [reboot |-> needToReboot, suspended |-> suspended]
    /\ events' = "wait"
    /\ UNCHANGED stale

\* Builder.State, which takes the builder's lock and copies the generation.
BuilderState ==
    /\ Runs("builder")
    /\ StateStep("builder", "deployer")
    /\ state' = [reboot |-> state.reboot, suspended |-> state.suspended,
                 builder |-> [builder EXCEPT !.generation = Generation(@)]]
    /\ UNCHANGED <<events, stale>>

\* Deployer.State and Fetcher.GetState, and the reply.
DeployerState ==
    /\ StateStep("deployer", "select")
    /\ state' = [reboot |-> state.reboot, suspended |-> state.suspended,
                 builder |-> state.builder, deployer |-> deployer, fetching |-> isFetching]
    /\ stale' = (runner = "command")
    /\ events' = IF events = "wait" THEN "snapshot" ELSE events

\* What an event refers to, as it is when it is sent.
Message(e) ==
    [type |-> e.type,
     generation |-> IF e.type \in {"EvalStarted", "EvalFinished", "BuildStarted", "BuildFinished"}
                    THEN Generation(e.ref) ELSE NoGeneration,
     deployment |-> IF e.type \in {"DeploymentStarted", "DeploymentFinished"}
                    THEN Deployment(e.ref) ELSE NoDeployment]

\* The send fails when the client is gone: the handler unsubscribes and returns.
SendFails ==
    /\ serving /\ connection = "broken"
    /\ events = "snapshot" \/ (events = "streaming" /\ channel # <<>>)
    /\ subscribed' = FALSE /\ channel' = <<>>
    /\ events' = "none" /\ state' = NoState
    /\ UNCHANGED <<serving, partVars, requestVars, publishing, publishCh, observer,
                   missed, stateLoop, connection, stale, clientVars, metrics, restored,
                   plan>>

-----------------------------------------------------------------------------
(* The terminal.                                                           *)

\* Mutant of DeploymentMessage: the deployment that has finished is still under way.
DeploymentMessageOnly(v, m) ==
    [v EXCEPT !.deployer.deploying = TRUE, !.deployer.deployment = m.deployment]

DeploymentMessage(v, m) ==
    [v EXCEPT !.deployer.deploying = (m.type = "DeploymentStarted"),
              !.deployer.deployment = m.deployment]

\* The terminal's model after a message.
UpdateManager(v, m) ==
    CASE m.type = "State" ->
            [v EXCEPT !.reboot = m.state.reboot, !.suspended = m.state.suspended,
                      !.builder = m.state.builder, !.deployer = m.state.deployer,
                      !.fetching = m.state.fetching]
      [] m.type \in {"EvalStarted", "EvalFinished"} ->
            [v EXCEPT !.builder.evaluating = (m.type = "EvalStarted"),
                      !.builder.generation = m.generation]
      [] m.type \in {"BuildStarted", "BuildFinished"} ->
            [v EXCEPT !.builder.building = (m.type = "BuildStarted"),
                      !.builder.generation = m.generation]
      [] m.type \in {"DeploymentStarted", "DeploymentFinished"} ->
            DeploymentMessage(v, m)
      [] m.type = "Fetched" -> [v EXCEPT !.fetching = FALSE]
      [] m.type \in {"Suspend", "Resume"} -> [v EXCEPT !.suspended = (m.type = "Suspend")]
      [] m.type = "RebootRequired" -> [v EXCEPT !.reboot = TRUE]

ClientStep ==
    UNCHANGED <<serving, partVars, requestVars, publishing, brokerVars, stateLoop, state,
                stale, metrics, restored, plan>>

\* The client asks for the stream: a handler Events starts.  (One that a previous
\* client has left only unsubscribes, and is forgotten here.)
Connect ==
    /\ serving /\ client = "connecting" /\ observer = "watch"
    /\ client' = "receiving" /\ connection' = "open" /\ events' = "start"
    /\ subscribed' = FALSE /\ channel' = <<>>
    /\ UNCHANGED <<serving, partVars, requestVars, publishing, publishCh, observer,
                   missed, stateLoop, state, stale, view, metrics, restored, plan>>

\* No server answers: the client tells the terminal, sleeps and tries again.
ConnectFails ==
    /\ ~serving /\ client = "connecting" /\ ~waiting /\ observer = "watch"
    /\ view' = [view EXCEPT !.connected = FALSE]
    /\ UNCHANGED <<client, connection, events>>
    /\ ClientStep

\* The handler sends a message, which the terminal receives when it is not waiting for
\* a request of its own.
Receive(message) ==
    /\ connection = "open" /\ ~waiting
    /\ view' = [UpdateManager(view, message) EXCEPT !.connected = TRUE]
    /\ state' = NoState
    /\ events' = "streaming"
    /\ UNCHANGED <<serving, partVars, requestVars, publishing, publishCh, observer,
                   subscribed, missed, stateLoop, connection, stale, client, metrics,
                   restored, plan>>

ReceiveState ==
    /\ events = "snapshot"
    /\ Receive([type |-> "State", state |-> [state EXCEPT !.deployer.deployment = Deployment(@)]])
    /\ UNCHANGED channel

ReceiveEvent ==
    /\ events = "streaming" /\ channel # <<>>
    /\ Receive(Message(Head(channel)))
    /\ channel' = Tail(channel)

\* Mutant of StreamFails: the client does not try again.
StreamEnds ==
    /\ client = "receiving" /\ ~waiting /\ connection = "broken"
    /\ view' = [view EXCEPT !.connected = FALSE]
    /\ client' = "stopped"
    /\ UNCHANGED <<connection, events>>
    /\ ClientStep

StreamFails ==
    /\ client = "receiving" /\ ~waiting /\ connection = "broken"
    /\ view' = [view EXCEPT !.connected = FALSE]
    /\ client' = "connecting"
    /\ UNCHANGED <<connection, events>>
    /\ ClientStep

\* The user quits and starts another terminal.
Quit ==
    /\ client = "receiving" /\ ~waiting /\ Begins("stop")
    /\ client' = "connecting" /\ connection' = "broken"
    /\ view' = NoView
    /\ UNCHANGED <<serving, partVars, requestVars, publishing, brokerVars, stateLoop,
                   state, stale, events, metrics, restored>>

-----------------------------------------------------------------------------
(* The metrics.                                                            *)

MetricsSubscribe ==
    /\ serving /\ observer = "metrics" /\ ~subscribed
    /\ subscribed' = TRUE
    /\ UNCHANGED <<serving, partVars, requestVars, publishing, publishCh, observer,
                   channel, missed, streamVars, clientVars, metrics, restored, plan>>

\* Mutant of MetricsUpdate: the gauge is not reset.
MetricsUpdateSuspend(x, m) ==
    IF m.type = "Suspend" THEN [x EXCEPT !.suspended = TRUE] ELSE x

MetricsUpdate(x, m) ==
    CASE m.type = "EvalFinished" -> [x EXCEPT !.evalFailed = (m.generation.eval = "failed")]
      [] m.type = "BuildFinished" -> [x EXCEPT !.buildFailed = (m.generation.build = "failed")]
      [] m.type = "DeploymentFinished" ->
            [x EXCEPT !.deploymentInfo = m.deployment.status,
                      !.deploymentFailed = (m.deployment.status = "failed")]
      [] m.type \in {"Suspend", "Resume"} -> [x EXCEPT !.suspended = (m.type = "Suspend")]
      [] m.type = "RebootRequired" -> [x EXCEPT !.reboot = TRUE]
      [] OTHER -> x

MetricsReceive ==
    /\ observer = "metrics" /\ channel # <<>>
    /\ metrics' = MetricsUpdate(metrics, Message(Head(channel)))
    /\ channel' = Tail(channel)
    /\ UNCHANGED <<serving, partVars, requestVars, publishing, publishCh, observer,
                   subscribed, missed, streamVars, clientVars, restored, plan>>

-----------------------------------------------------------------------------
\* The process stops.  When this cuts the writing of the store, the next process finds
\* neither the suspension nor a deployment.
Stop ==
    /\ serving /\ Begins("stop")
    /\ serving' = FALSE
    /\ connection' = IF connection = "open" THEN "broken" ELSE connection
    /\ events' = "none" /\ stateLoop' = "select" /\ state' = NoState /\ stale' = FALSE
    /\ request' = "none" /\ waiting' = FALSE
    /\ publishing' = [p \in Publishers |-> <<>>] /\ publishCh' = <<>>
    /\ subscribed' = FALSE /\ channel' = <<>> /\ missed' = FALSE
    /\ builder' = [evaluating |-> FALSE, building |-> FALSE, suspended |-> FALSE, generation |-> 0]
    /\ deployer' \in {[deployer EXCEPT !.deploying = FALSE], NoDeployer}
    /\ runner' = "idle" /\ suspended' = FALSE /\ isFetching' = FALSE
    /\ metrics' = NoMetrics
    /\ UNCHANGED <<generations, deployments, needToReboot, observer, clientVars, restored>>

\* systemd starts it: runCmd gives the deployment that the deployer has found in the
\* store to the metrics.
Start ==
    /\ ~serving
    /\ serving' = TRUE
    /\ needToReboot' \in BOOLEAN
    /\ metrics' = [metrics EXCEPT !.deploymentInfo = Deployment(deployer.deployment).status]
    /\ restored' = deployer.deployment
    /\ UNCHANGED <<builder, generations, deployer, runner, deployments, suspended,
                   isFetching, requestVars, publishing, brokerVars, streamVars,
                   clientVars, plan>>

Builder ==
    \/ EvalStarts
    \/ \E status \in {"evaluated", "failed"}, exists \in BOOLEAN : EvalEnds(status, exists)
    \/ BuildStarts
    \/ \E status \in {"built", "failed"} : BuildEnds(status)

Deployer ==
    \/ DeployStarts
    \/ DeploymentStarted
    \/ \E status \in {"done", "failed"} : DeploymentFinished(status)
    \/ DeployEnds
    \/ ManagerReceives

Handler ==
    \/ Refused \/ SuspendBuilder \/ ResumeBuilder \/ UpdateDeployer \/ UpdateManagerFlag \/ Return

Stream ==
    \/ EventsSubscribe \/ StateRequest \/ BuilderState \/ DeployerState
    \/ ReceiveState \/ ReceiveEvent

Next ==
    \/ Builder
    \/ Deployer
    \/ FetchStarts \/ FetchEnds
    \/ \E op \in {"suspend", "resume"}, watch \in BOOLEAN : Request(op, watch)
    \/ Handler
    \/ \E p \in Publishers : Publish(p)
    \/ Forward
    \/ Stream \/ SendFails
    \/ Connect \/ ConnectFails \/ StreamFails \/ Quit
    \/ MetricsSubscribe \/ MetricsReceive
    \/ Stop \/ Start

\* The goroutines of comin and of the terminal go on, a build ends by its timeout and
\* systemd starts comin again.
Fairness ==
    /\ \A p \in Publishers : WF_vars(Publish(p))
    /\ WF_vars(Forward) /\ WF_vars(Handler) /\ WF_vars(Stream)
    /\ \A status \in {"built", "failed"} : WF_vars(BuildEnds(status))
    /\ WF_vars(Connect) /\ WF_vars(StreamFails) /\ WF_vars(Start)

Spec == Init /\ [][Next]_vars /\ Fairness

-----------------------------------------------------------------------------
(* What the terminal shows.                                                *)

\* The line of an evaluation or of a build.
Line(status) ==
    CASE status \in {"evaluating", "building"} -> "running"
      [] status \in {"evaluated", "built"} -> "succeeded"
      [] status = "failed" -> "failed"
      [] OTHER -> "none"

BuilderView(b) ==
    [status |-> IF b.suspended THEN "suspended"
                ELSE IF b.evaluating THEN "evaluating"
                ELSE IF b.building THEN "building" ELSE "idle",
     generation |-> b.generation.n,
     eval |-> Line(b.generation.eval), build |-> Line(b.generation.build)]

DeployerView(d) ==
    [status |-> IF d.suspended THEN "suspended" ELSE IF d.deploying THEN "deploying" ELSE "idle",
     deployment |-> d.deployment]

FetcherView(fetching) == IF fetching THEN "fetching" ELSE "idle"

ManagerView(v) ==
    IF ~v.connected THEN [connected |-> FALSE]
    ELSE [connected |-> TRUE, reboot |-> v.reboot, suspended |-> v.suspended,
          fetcher |-> FetcherView(v.fetching), builder |-> BuilderView(v.builder),
          deployer |-> DeployerView(v.deployer)]

\* What `comin status' would report.
Actual ==
    [connected |-> TRUE, reboot |-> needToReboot, suspended |-> suspended,
     fetching |-> isFetching,
     builder |-> [builder EXCEPT !.generation = Generation(@)],
     deployer |-> [deployer EXCEPT !.deployment = Deployment(@)]]

-----------------------------------------------------------------------------
(* Properties that hold.                                                   *)

\* No event is on its way to the subscriber, and none was missed.
Quiet ==
    /\ \A p \in Publishers : publishing[p] = <<>>
    /\ publishCh = <<>> /\ channel = <<>> /\ subscribed /\ ~missed

InStep == Quiet /\ connection = "open" /\ events = "streaming"

\* The suspensions of the builder and of the deployer, which no event tells, left aside.
NotSuspended(v) == [v EXCEPT !.builder.suspended = FALSE, !.deployer.suspended = FALSE]

\* Once the events have arrived, the terminal shows what `comin status' reports: the
\* snapshot may have been taken before, between or after events that are delivered
\* after it, and parts of it at different times.  A fetch may have started since, and
\* a need to reboot may have gone.
ViewIsCurrent ==
    InStep =>
        LET shown == ManagerView(NotSuspended(view))
            actual == ManagerView(NotSuspended(Actual))
        IN  /\ shown.connected
            /\ shown.suspended = actual.suspended /\ shown.builder = actual.builder
            /\ shown.fetcher = "fetching" => isFetching
            /\ needToReboot => shown.reboot

\* So it does for the deployer, but while the deployment is created and while the post
\* deployment command runs, and when the snapshot was taken during that command.
DeploymentIsShown ==
    InStep /\ runner \notin {"created", "command"} /\ ~stale =>
        ManagerView(NotSuspended(view)).deployer = ManagerView(NotSuspended(Actual)).deployer

\* "Whether the host is suspended (1) or not (0)", "Whether the last build failed (1) or
\* not (0)", "Info of the last deployment": when the metrics have followed all events
\* since the process was started, they tell what happened to the current generation
\* and to the last deployment, one of an earlier process included.  "Whether the last
\* deployment failed (1) or not (0)" is so only of a deployment of this process: the
\* gauge is set by an event alone, and after a restart it reads 0 when the last
\* deployment has failed.
MetricsAreCurrent ==
    Quiet /\ observer = "metrics" =>
        LET g == Generation(builder.generation)
            d == Deployment(deployer.deployment)
        IN  /\ metrics.suspended = suspended
            /\ g.eval \in {"evaluated", "failed"} => metrics.evalFailed = (g.eval = "failed")
            /\ g.build \in {"built", "failed"} => metrics.buildFailed = (g.build = "failed")
            /\ d.status \in {"none", "done", "failed"} =>
                  /\ metrics.deploymentInfo = d.status
                  /\ deployer.deployment > restored =>
                        metrics.deploymentFailed = (d.status = "failed")

\* However often comin is restarted and its stream is cut, the terminal is connected
\* again once comin stays up.
StreamRecovers ==
    observer = "watch" => <>[](connection = "open" /\ events = "streaming" /\ view.connected)

=============================================================================
