------------------------------ MODULE Deployer ------------------------------
(***************************************************************************)
(* The deployer of comin (internal/deployer/deployer.go): one goroutine,   *)
(* the runner, deploys the generation that Submit left in                  *)
(* GenerationToDeploy.  Around it run, each in a goroutine of its own, the *)
(* manager's event loop (which calls Submit), the manager's state loop     *)
(* (which reads DeploymentDoneCh and may exit the process) and the gRPC    *)
(* handlers (Suspend, Resume, DeploymentLatestSubmit).  The process may be *)
(* stopped between any two steps, and while Commit overwrites the file of  *)
(* the store; systemd restarts it and Load reads the file again, if it can *)
(* be read.                                                                *)
(*                                                                         *)
(* A generation is identified by its out path, the only part of it that    *)
(* the deployer tells apart.  Of the store the deployer sees the newest    *)
(* entry of the sorted deployment list (LastDeployment and                 *)
(* GetDeploymentLastest both return it), whether the list has other        *)
(* entries, and whether its own deployment is still listed.  The file      *)
(* holds what memory holds, unless a Commit was cut.                       *)
(***************************************************************************)
EXTENDS Naturals

CONSTANTS
    OutPaths,        \* the store paths of the evaluated generations
    TestingPaths,    \* those that were selected from a testing branch
    Inhibitors,      \* the switch-inhibitors file of each out path: key |-> value
    Operations,      \* the operations of the configured branches and of the CLI
    Clients,         \* the goroutines of the gRPC handlers
    ClockStepsBack,  \* whether the wall clock may be set back between deployments
    Nil              \* a Go nil

ASSUME OutPathsAssumption == Nil \notin OutPaths /\ TestingPaths \subseteq OutPaths
ASSUME OperationsAssumption ==
    {"switch", "test"} \subseteq Operations /\ Operations \subseteq {"switch", "test", "boot"}
ASSUME ClientsAssumption == Nil \notin Clients
ASSUME ClockAssumption == ClockStepsBack \in BOOLEAN

Statuses == {"init", "running", "done", "failed"}

\* The operation recorded in a deployment: computeOperation adds "null".
ComputedOperations == {"switch", "test", "boot", "null"}

\* What IsAlreadyDeployed and the manager read of a *protobuf.Deployment.
Deployment == [outPath: OutPaths, op: ComputedOperations]

\* What the deployer and the manager read of an entry of the store.
StoredDeployment == [outPath: OutPaths, op: ComputedOperations, status: Statuses]

VARIABLES
    \* The fields of the Deployer struct
    generationAvailableCh,  \* the one-place channel holds a token
    GenerationToDeploy, Operation,
    deployment, previousDeployment,
    isDeploying,
    isSuspended,
    resumeCh,               \* the one-place channel holds a token
    DeploymentDoneCh,       \* the deployment in the one-place channel (its field
                            \* RestartComin, which the manager reads), or Nil
    mu,                     \* the client that holds d.mu across its steps, or Nil
    \* The runner goroutine
    pc,
    job,                    \* g and operationSubmitted
    dpl,                    \* the deployment that NewDeployment returned
    restart,                \* cominNeedRestart
    outcome,                \* the error of deployerFunc
    \* The gRPC handlers and the fields isSuspended of the manager and of the builder
    client, resubmitted, managerIsSuspended, builderIsSuspended,
    \* The persisted store and the running system
    newest,                 \* Nil when the list is empty
    several, suspendPersisted,
    torn,                   \* a cut Commit has left a file that Load cannot read
    current

deployerVars == <<generationAvailableCh, GenerationToDeploy, Operation, deployment,
                  previousDeployment, isDeploying, isSuspended, resumeCh,
                  DeploymentDoneCh, mu>>
runnerVars == <<pc, job, dpl, restart, outcome>>
clientVars == <<client, resubmitted, managerIsSuspended, builderIsSuspended>>
storeVars == <<newest, several, suspendPersisted, torn>>
vars == <<deployerVars, runnerVars, clientVars, storeVars, current>>

submitVars == <<generationAvailableCh, GenerationToDeploy, Operation>>
deploymentVars == <<deployment, previousDeployment, isDeploying>>
suspendVars == <<isSuspended, resumeCh>>

\* The states of a process that was stopped, has panicked or has exited.
Dead == {"stopped", "panicked", "exited"}
Alive == pc \notin Dead

\* Where a handler is: the step that it takes next.
Requests == {"idle", "latest",
             "suspendBuilder", "suspendFlag", "suspendPersist", "suspendReturn",
             "resumeBuilder", "resumeFlag", "resumeSignal", "resumeReturn"}

\* The types of the fields of the Deployer struct, of the locals of its goroutines and
\* of what the store persists; a job and a deployment are complete once they exist.
TypeOK ==
    /\ generationAvailableCh \in BOOLEAN
    /\ GenerationToDeploy \in OutPaths \union {Nil}
    /\ Operation \in Operations \union {Nil}
    /\ deployment \in Deployment \union {Nil}
    /\ previousDeployment \in Deployment \union {Nil}
    /\ isDeploying \in BOOLEAN
    /\ isSuspended \in BOOLEAN
    /\ resumeCh \in BOOLEAN
    /\ DeploymentDoneCh \in [restart: BOOLEAN] \union {Nil}
    /\ mu \in Clients \union {Nil}
    /\ pc \in {"idle", "check", "suspended", "take", "create", "install",
               "start", "deploy", "finish", "done", "notify"} \union Dead
    /\ job \in [outPath: OutPaths, op: Operations] \union {Nil}
    /\ dpl \in [outPath: OutPaths, op: ComputedOperations,
                place: {"head", "listed", "lost"}] \union {Nil}
    /\ restart \in BOOLEAN
    /\ outcome \in {"done", "failed"}
    /\ client \in [Clients -> Requests]
    /\ resubmitted \in [Clients -> OutPaths \union {Nil}]
    /\ managerIsSuspended \in BOOLEAN /\ builderIsSuspended \in BOOLEAN
    /\ newest \in StoredDeployment \union {Nil}
    /\ several \in BOOLEAN
    /\ suspendPersisted \in BOOLEAN
    /\ torn \in BOOLEAN
    /\ current \in OutPaths

-----------------------------------------------------------------------------
(* Helpers of the store and of the deployer.                               *)

\* The inhibitors that both systems have, with different values.
compareSwitchInhibitors(old, new) ==
    {k \in DOMAIN old \intersect DOMAIN new : old[k] # new[k]}

computeOperation(op, cur, p) ==
    IF compareSwitchInhibitors(Inhibitors[cur], Inhibitors[p]) = {} THEN op
    ELSE CASE op = "test"   -> "null"
           [] op = "switch" -> "boot"
           [] OTHER         -> op

\* The first entry of the list, when the list has more than one.
LastDeployment ==
    IF newest # Nil /\ several THEN [outPath |-> newest.outPath, op |-> newest.op] ELSE Nil

IsAlreadyDeployed(p, op) ==
    /\ previousDeployment # Nil
    /\ previousDeployment.outPath = p
    /\ previousDeployment.op = op

\* Where the sort puts a deployment created now in the list, newest first:
\* behind entries with a later creation date when the clock was set back,
\* and then possibly beyond the retained ones.
Places == IF ClockStepsBack /\ newest # Nil THEN {"head", "listed", "lost"} ELSE {"head"}

\* The handlers that have set or cleared isSuspended and are to write it to the store.
Persisting == {c \in Clients : client[c] \in {"suspendPersist", "resumeSignal"}}

\* A step that is about to commit the store, by the runner or by a handler.
Committing ==
    \/ pc = "create"
    \/ pc \in {"start", "finish"} /\ dpl.place # "lost"
    \/ Persisting # {}

\* The process ends, and may cut the Commit under way.  Its memory is lost, the
\* generation to deploy included; the flag isSuspended, and which handler was between
\* setting and writing it, are kept until the restart, as history.
End(state) ==
    /\ pc' = state
    /\ torn' \in {torn, Committing}
    /\ generationAvailableCh' = FALSE
    /\ GenerationToDeploy' = Nil /\ Operation' = Nil
    /\ deployment' = Nil /\ previousDeployment' = Nil
    /\ isDeploying' = FALSE /\ resumeCh' = FALSE /\ DeploymentDoneCh' = Nil /\ mu' = Nil
    /\ job' = Nil /\ dpl' = Nil /\ restart' = FALSE /\ outcome' = "done"
    /\ resubmitted' = [c \in Clients |-> Nil]
    /\ managerIsSuspended' = FALSE /\ builderIsSuspended' = FALSE
    /\ client' = [c \in Clients |-> IF c \in Persisting THEN client[c] ELSE "idle"]
    /\ UNCHANGED <<isSuspended, newest, several, suspendPersisted, current>>

-----------------------------------------------------------------------------
(* New: from the state persisted in the store.                             *)

\* Load adds a dummy for the booted system to an empty list and, when that is not the
\* current one, a second dummy, which the sort leaves behind the first.
Dummy(booted) == [outPath |-> booted, op |-> "boot", status |-> "done"]

Init ==
    /\ generationAvailableCh = FALSE
    /\ GenerationToDeploy = Nil /\ Operation = Nil
    /\ current \in OutPaths
    /\ \E booted \in OutPaths : newest = Dummy(booted) /\ several = (booted # current)
    /\ suspendPersisted = FALSE /\ torn = FALSE
    /\ deployment = LastDeployment /\ previousDeployment = LastDeployment
    /\ isDeploying = FALSE /\ isSuspended = FALSE
    /\ resumeCh = FALSE /\ DeploymentDoneCh = Nil /\ mu = Nil
    /\ pc = "idle" /\ job = Nil /\ dpl = Nil /\ restart = FALSE /\ outcome = "done"
    /\ client = [c \in Clients |-> "idle"]
    /\ resubmitted = [c \in Clients |-> Nil]
    /\ managerIsSuspended = FALSE /\ builderIsSuspended = FALSE

\* The process is stopped in any state.
Stop == Alive /\ End("stopped")

\* A new process is stopped while Load commits the store.
StopLoading ==
    /\ ~Alive /\ ~torn
    /\ torn' = TRUE
    /\ UNCHANGED <<deployerVars, runnerVars, clientVars, newest, several,
                   suspendPersisted, current>>

\* Load commits the list it has read, with dummies if it was empty.  Its error on a
\* torn file is ignored: the store stays as New made it, and the file torn.
Load ==
    \/ /\ torn
       /\ newest' = Nil /\ several' = FALSE /\ suspendPersisted' = FALSE
    \/ /\ ~torn /\ newest # Nil
       /\ UNCHANGED <<newest, several, suspendPersisted>>
    \/ /\ ~torn /\ newest = Nil
       /\ \E booted \in OutPaths :
             newest' = Dummy(booted) /\ several' = (booted # current)
       /\ UNCHANGED suspendPersisted

\* systemd starts comin again.
Restart ==
    /\ ~Alive
    /\ Load
    /\ deployment' = LastDeployment' /\ previousDeployment' = LastDeployment'
    /\ isSuspended' = suspendPersisted'
    /\ pc' = "idle"
    /\ client' = [c \in Clients |-> "idle"]
    /\ UNCHANGED <<submitVars, isDeploying, resumeCh, DeploymentDoneCh, mu, job, dpl, restart,
                   outcome, resubmitted, managerIsSuspended, builderIsSuspended, torn,
                   current>>

-----------------------------------------------------------------------------
(* Submit, under d.mu, and its two callers.                                *)

\* Mutant of Accept: the runner is only woken up when it is not deploying.
AcceptWhenIdle(p, op) ==
    /\ GenerationToDeploy' = p
    /\ Operation' = op
    /\ generationAvailableCh' = (generationAvailableCh \/ ~isDeploying)

Accept(p, op) ==
    /\ GenerationToDeploy' = p
    /\ Operation' = op
    /\ generationAvailableCh' = TRUE

\* The manager's event loop submits a confirmed generation.
Submit(p, op) ==
    /\ Alive /\ mu = Nil
    /\ ~IsAlreadyDeployed(p, op)
    /\ Accept(p, op)
    /\ UNCHANGED <<deploymentVars, suspendVars, DeploymentDoneCh, mu, runnerVars,
                   clientVars, storeVars, current>>

\* A gRPC handler reads the latest deployment of the store, if there is one ...
DeploymentLatestSubmit(c) ==
    /\ Alive /\ client[c] = "idle" /\ newest # Nil
    /\ client' = [client EXCEPT ![c] = "latest"]
    /\ resubmitted' = [resubmitted EXCEPT ![c] = newest.outPath]
    /\ UNCHANGED <<deployerVars, runnerVars, managerIsSuspended, builderIsSuspended,
                   storeVars, current>>

\* Without an operation in the request, the one of the branch type is used.  The
\* generation of a dummy has no source, and so no testing branch.
DefaultOperations(p) == IF p \in TestingPaths THEN {"test", "switch"} ELSE {"switch"}

\* ... and submits its generation with force.
ForceSubmit(c, requested) ==
    /\ Alive /\ client[c] = "latest" /\ mu = Nil
    /\ \E op \in IF requested # Nil THEN {requested} ELSE DefaultOperations(resubmitted[c]) :
          Accept(resubmitted[c], op)
    /\ client' = [client EXCEPT ![c] = "idle"]
    /\ resubmitted' = [resubmitted EXCEPT ![c] = Nil]
    /\ UNCHANGED <<deploymentVars, suspendVars, DeploymentDoneCh, mu, runnerVars,
                   managerIsSuspended, builderIsSuspended, storeVars, current>>

-----------------------------------------------------------------------------
(* Suspend and Resume, as the manager's handlers run them: each suspends   *)
(* or resumes the builder, then the deployer, and sets the manager's flag  *)
(* last.  They check flags at their beginning and take no lock, but for    *)
(* d.mu, which Deployer.Resume holds from its first to its last step.      *)

Goto(c, step) == client' = [client EXCEPT ![c] = step]

\* The manager is not suspended yet, nor is the builder.
SuspendRequest(c) ==
    /\ Alive /\ client[c] = "idle"
    /\ ~managerIsSuspended /\ ~builderIsSuspended
    /\ Goto(c, "suspendBuilder")
    /\ UNCHANGED <<deployerVars, runnerVars, resubmitted, managerIsSuspended,
                   builderIsSuspended, storeVars, current>>

\* Builder.Suspend has stopped the build.
SuspendBuilder(c) ==
    /\ Alive /\ client[c] = "suspendBuilder"
    /\ builderIsSuspended' = TRUE
    /\ Goto(c, "suspendFlag")
    /\ UNCHANGED <<deployerVars, runnerVars, resubmitted, managerIsSuspended,
                   storeVars, current>>

SuspendFlag(c) ==
    /\ Alive /\ client[c] = "suspendFlag"
    /\ isSuspended' = TRUE
    /\ Goto(c, "suspendPersist")
    /\ UNCHANGED <<submitVars, deploymentVars, resumeCh, DeploymentDoneCh, mu, runnerVars,
                   resubmitted, managerIsSuspended, builderIsSuspended, storeVars, current>>

SuspendPersist(c) ==
    /\ Alive /\ client[c] = "suspendPersist"
    /\ suspendPersisted' = TRUE /\ torn' = FALSE
    /\ Goto(c, "suspendReturn")
    /\ UNCHANGED <<deployerVars, runnerVars, resubmitted, managerIsSuspended,
                   builderIsSuspended, newest, several, current>>

SuspendReturn(c) ==
    /\ Alive /\ client[c] = "suspendReturn"
    /\ managerIsSuspended' = TRUE
    /\ Goto(c, "idle")
    /\ UNCHANGED <<deployerVars, runnerVars, resubmitted, builderIsSuspended, storeVars,
                   current>>

ResumeRequest(c) ==
    /\ Alive /\ client[c] = "idle"
    /\ managerIsSuspended
    /\ Goto(c, "resumeBuilder")
    /\ UNCHANGED <<deployerVars, runnerVars, resubmitted, managerIsSuspended,
                   builderIsSuspended, storeVars, current>>

\* Builder.Resume returns an error when the builder is not suspended.
ResumeBuilder(c) ==
    /\ Alive /\ client[c] = "resumeBuilder"
    /\ builderIsSuspended' = FALSE
    /\ Goto(c, IF builderIsSuspended THEN "resumeFlag" ELSE "idle")
    /\ UNCHANGED <<deployerVars, runnerVars, resubmitted, managerIsSuspended, storeVars,
                   current>>

ResumeFlag(c) ==
    /\ Alive /\ client[c] = "resumeFlag" /\ mu = Nil
    /\ mu' = c
    /\ isSuspended' = FALSE
    /\ Goto(c, "resumeSignal")
    /\ UNCHANGED <<submitVars, deploymentVars, resumeCh, DeploymentDoneCh, runnerVars,
                   resubmitted, managerIsSuspended, builderIsSuspended, storeVars, current>>

\* Mutant of ResumeSignal: nobody tells the runner.
ResumeWithoutSignal(c) ==
    /\ Alive /\ client[c] = "resumeSignal"
    /\ suspendPersisted' = FALSE /\ torn' = FALSE
    /\ mu' = Nil
    /\ Goto(c, "resumeReturn")
    /\ UNCHANGED <<submitVars, deploymentVars, suspendVars, DeploymentDoneCh, runnerVars,
                   resubmitted, managerIsSuspended, builderIsSuspended, newest, several,
                   current>>

\* Mutant of ResumeSignal: the store is not updated.
ResumeWithoutPersist(c) ==
    /\ Alive /\ client[c] = "resumeSignal"
    /\ resumeCh' = TRUE
    /\ mu' = Nil
    /\ Goto(c, "resumeReturn")
    /\ UNCHANGED <<submitVars, deploymentVars, isSuspended, DeploymentDoneCh, runnerVars,
                   resubmitted, managerIsSuspended, builderIsSuspended, storeVars, current>>

ResumeSignal(c) ==
    /\ Alive /\ client[c] = "resumeSignal"
    /\ suspendPersisted' = FALSE /\ torn' = FALSE
    /\ resumeCh' = TRUE
    /\ mu' = Nil
    /\ Goto(c, "resumeReturn")
    /\ UNCHANGED <<submitVars, deploymentVars, isSuspended, DeploymentDoneCh, runnerVars,
                   resubmitted, managerIsSuspended, builderIsSuspended, newest, several,
                   current>>

ResumeReturn(c) ==
    /\ Alive /\ client[c] = "resumeReturn"
    /\ managerIsSuspended' = FALSE
    /\ Goto(c, "idle")
    /\ UNCHANGED <<deployerVars, runnerVars, resubmitted, builderIsSuspended, storeVars,
                   current>>

-----------------------------------------------------------------------------
(* Run: the steps of the runner goroutine.                                 *)

\* <-d.generationAvailableCh
Wake ==
    /\ pc = "idle" /\ generationAvailableCh
    /\ generationAvailableCh' = FALSE
    /\ pc' = "check"
    /\ UNCHANGED <<GenerationToDeploy, Operation, deploymentVars, suspendVars,
                   DeploymentDoneCh, mu, job, dpl, restart, outcome, clientVars,
                   storeVars, current>>

CheckSuspended ==
    /\ pc = "check"
    /\ pc' = IF isSuspended THEN "suspended" ELSE "take"
    /\ UNCHANGED <<deployerVars, job, dpl, restart, outcome, clientVars, storeVars,
                   current>>

\* <-d.resumeCh
AwaitResume ==
    /\ pc = "suspended" /\ resumeCh
    /\ resumeCh' = FALSE
    /\ pc' = "take"
    /\ UNCHANGED <<submitVars, deploymentVars, isSuspended, DeploymentDoneCh, mu,
                   job, dpl, restart, outcome, clientVars, storeVars, current>>

\* The generation and its operation are taken under d.mu ...
TakeGeneration ==
    /\ pc = "take" /\ mu = Nil /\ GenerationToDeploy # Nil
    /\ GenerationToDeploy' = Nil
    /\ job' = [outPath |-> GenerationToDeploy, op |-> Operation]
    /\ pc' = "create"
    /\ UNCHANGED <<generationAvailableCh, Operation, deploymentVars, suspendVars,
                   DeploymentDoneCh, mu, dpl, restart, outcome, clientVars, storeVars,
                   current>>

\* ... and g.Uuid is then read, which panics when g is nil.
TakeNil ==
    /\ pc = "take" /\ mu = Nil /\ GenerationToDeploy = Nil
    /\ End("panicked")

\* The new deployment, where the sort puts it in the list.  The list has a dummy for
\* the booted system at least.
NewDeployment(place) ==
    /\ dpl' = [outPath |-> job.outPath,
               op |-> computeOperation(job.op, current, job.outPath),
               place |-> place]
    /\ newest' = IF place = "head"
                 THEN [outPath |-> dpl'.outPath, op |-> dpl'.op, status |-> "init"]
                 ELSE newest
    /\ several' = (several \/ place # "lost")

\* d.store.NewDeployment, without d.mu.
CreateDeployment ==
    /\ pc = "create"
    /\ \E place \in Places : NewDeployment(place)
    /\ torn' = FALSE
    /\ pc' = "install"
    /\ UNCHANGED <<deployerVars, job, restart, outcome, clientVars, suspendPersisted,
                   current>>

InstallDeployment ==
    /\ pc = "install" /\ mu = Nil
    /\ previousDeployment' = deployment
    /\ deployment' = [outPath |-> dpl.outPath, op |-> dpl.op]
    /\ isDeploying' = TRUE
    /\ pc' = "start" /\ job' = Nil
    /\ UNCHANGED <<submitVars, suspendVars, DeploymentDoneCh, mu, dpl, restart,
                   outcome, clientVars, storeVars, current>>

SetStatus(status) ==
    newest' = IF dpl.place = "head" THEN [newest EXCEPT !.status = status] ELSE newest

\* d.store.DeploymentStarted; when the deployment is no longer in the store the
\* loop continues with the next generation.
DeploymentStarted ==
    /\ pc = "start"
    /\ \/ /\ dpl.place # "lost"
          /\ SetStatus("running")
          /\ torn' = FALSE
          /\ pc' = "deploy"
          /\ UNCHANGED dpl
       \/ /\ dpl.place = "lost"
          /\ pc' = "idle" /\ dpl' = Nil
          /\ UNCHANGED <<newest, torn>>
    /\ UNCHANGED <<deployerVars, job, restart, outcome, clientVars, several,
                   suspendPersisted, current>>

\* Mutant of Deploy: the error of deployerFunc is lost.
DeployIgnoringError ==
    /\ pc = "deploy"
    /\ outcome' = "done" /\ restart' = FALSE
    /\ current' \in (IF dpl.op \in {"null", "boot"} THEN {current} ELSE {current, dpl.outPath})
    /\ pc' = "finish"
    /\ UNCHANGED <<deployerVars, job, dpl, clientVars, storeVars>>

\* deployerFunc, unless the computed operation is null: switch and test activate
\* the new system, which a failing call may have done as well; comin needs to be
\* restarted when a successful call has changed its unit file.
Deploy ==
    /\ pc = "deploy"
    /\ \/ /\ dpl.op = "null"
          /\ outcome' = "done" /\ restart' = FALSE
          /\ UNCHANGED current
       \/ /\ dpl.op # "null"
          /\ outcome' \in {"done", "failed"}
          /\ restart' \in BOOLEAN /\ (restart' => outcome' = "done")
          /\ \/ dpl.op # "boot" /\ current' = dpl.outPath
             \/ (dpl.op = "boot" \/ outcome' = "failed") /\ UNCHANGED current
    /\ pc' = "finish"
    /\ UNCHANGED <<deployerVars, job, dpl, clientVars, storeVars>>

\* d.store.DeploymentFinished
DeploymentFinished ==
    /\ pc = "finish"
    /\ SetStatus(outcome)
    /\ torn' = FALSE
    /\ pc' = "done"
    /\ UNCHANGED <<deployerVars, job, dpl, restart, outcome, clientVars, several,
                   suspendPersisted, current>>

\* The post deployment command has run; its failure is only logged.
FinishDeployment ==
    /\ pc = "done"
    /\ isDeploying' = FALSE
    /\ pc' = "notify"
    /\ UNCHANGED <<submitVars, deployment, previousDeployment, suspendVars,
                   DeploymentDoneCh, mu, job, dpl, restart, outcome, clientVars,
                   storeVars, current>>

\* d.DeploymentDoneCh <- d.Deployment(), which blocks while the channel is full.
Notify ==
    /\ pc = "notify" /\ DeploymentDoneCh = Nil
    /\ DeploymentDoneCh' = [restart |-> restart]
    /\ pc' = "idle" /\ dpl' = Nil /\ restart' = FALSE /\ outcome' = "done"
    /\ UNCHANGED <<submitVars, deploymentVars, suspendVars, mu, job, clientVars,
                   storeVars, current>>

\* The manager's state loop receives a finished deployment ...
ManagerReceive ==
    /\ Alive /\ DeploymentDoneCh # Nil /\ ~DeploymentDoneCh.restart
    /\ DeploymentDoneCh' = Nil
    /\ UNCHANGED <<submitVars, deploymentVars, suspendVars, mu, runnerVars, clientVars,
                   storeVars, current>>

\* ... and exits when it has changed the unit of comin.
ManagerExit ==
    /\ Alive /\ DeploymentDoneCh # Nil /\ DeploymentDoneCh.restart
    /\ End("exited")

-----------------------------------------------------------------------------
Runner ==
    \/ Wake \/ CheckSuspended \/ AwaitResume \/ TakeGeneration \/ TakeNil
    \/ CreateDeployment \/ InstallDeployment \/ DeploymentStarted \/ Deploy
    \/ DeploymentFinished \/ FinishDeployment \/ Notify

Suspend(c) == SuspendBuilder(c) \/ SuspendFlag(c) \/ SuspendPersist(c) \/ SuspendReturn(c)

Resume(c) == ResumeBuilder(c) \/ ResumeFlag(c) \/ ResumeSignal(c) \/ ResumeReturn(c)

Handler(c) ==
    \/ Suspend(c)
    \/ Resume(c)
    \/ \E op \in Operations \union {Nil} : ForceSubmit(c, op)

Request(c) == SuspendRequest(c) \/ ResumeRequest(c) \/ DeploymentLatestSubmit(c)

Next ==
    \/ Runner
    \/ ManagerReceive \/ ManagerExit
    \/ Stop \/ StopLoading
    \/ Restart
    \/ \E p \in OutPaths, op \in Operations : Submit(p, op)
    \/ \E c \in Clients : Request(c) \/ Handler(c)

Spec == Init /\ [][Next]_vars

\* The goroutines run: the runner (sync.Mutex hands the lock over in order under
\* contention, hence strong fairness; the deployment script is taken to end), the
\* manager's state loop and the handlers that have begun.  systemd starts comin
\* again whenever it has stopped (Restart = "always").
Fairness ==
    /\ SF_vars(Runner)
    /\ WF_vars(ManagerReceive \/ ManagerExit)
    /\ WF_vars(Restart)
    /\ \A c \in Clients : SF_vars(Handler(c))

FairSpec == Spec /\ Fairness

-----------------------------------------------------------------------------
(* Properties that hold.                                                   *)

\* The runner holds a wake-up that it has not used yet for a generation.
Roused == pc \in {"check", "suspended", "take"}

\* A generation that Submit accepted is never stranded: as long as it waits in
\* GenerationToDeploy, either the wake-up token is in generationAvailableCh or the
\* runner has received it and has not taken a generation with it yet.
PendingIsSignalled ==
    Alive /\ GenerationToDeploy # Nil => generationAvailableCh \/ Roused

\* No lost resume: a runner that waits in <-d.resumeCh although the deployer is not
\* suspended finds a token in the channel, or the Resume that cleared the flag is
\* still to put it there, under d.mu.
ResumeNotLost ==
    pc = "suspended" /\ ~isSuspended =>
        resumeCh \/ \E c \in Clients : client[c] = "resumeSignal" /\ mu = c

\* A restart finds the deployer suspended if and only if the process that ended had it
\* suspended, unless this one ended between setting the flag and writing it, or while
\* the store was written: then the suspension is lost with the rest of the store.  (The
\* flag of the deployer; for requests that do not overlap.)
SuspensionIsPersisted ==
    [][~Alive /\ Alive' /\ ~torn /\ Persisting = {}
       => isSuspended' = isSuspended]_vars

\* The store never reports a success that did not take place, whatever crash
\* happened in between: when its newest deployment is a switch or a test that is
\* done, the running system is the one of this deployment.  (For a clock that does
\* not step back.)
DoneIsCurrent ==
    newest # Nil /\ newest.status = "done" /\ newest.op \in {"switch", "test"} =>
        current = newest.outPath

\* As long as the process lives, an accepted generation is eventually taken by the
\* runner to be deployed, or replaced by one that is, unless the deployer gets
\* suspended.  (The end of the process loses it: the generation to deploy is only in
\* memory.)
PendingIsTaken == GenerationToDeploy # Nil ~> pc = "create" \/ isSuspended \/ ~Alive

-----------------------------------------------------------------------------
(* A statement of the documentation that the code does not keep.           *)

\* "The next generation to deploy. nil when there is no new generation to deploy":
\* the runner is woken up for a generation, so it always finds one and g.Uuid can
\* be read.
GenerationAvailable == pc # "panicked"

=============================================================================
