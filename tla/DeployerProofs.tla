--------------------------- MODULE DeployerProofs ---------------------------
(***************************************************************************)
(* Proofs about Deployer, for every set of out paths, inhibitors,          *)
(* operations and clients.                                                 *)
(***************************************************************************)
EXTENDS Deployer, TLAPS

USE DEF Dead

\* What the type invariant needs to be inductive: the values that a step reads
\* have been written before it.
Written ==
    /\ GenerationToDeploy # Nil => Operation \in Operations
    /\ pc = "create" => job \in [outPath: OutPaths, op: Operations]
    /\ pc \in {"install", "start", "deploy", "finish", "done", "notify"} =>
        dpl \in [outPath: OutPaths, op: ComputedOperations,
                 place: {"head", "listed", "lost"}]
        /\ (dpl.place = "head" => newest \in StoredDeployment)
    /\ \A c \in Clients : client[c] = "latest" => resubmitted[c] \in OutPaths

TypeInv == TypeOK /\ Written

\* computeOperation yields one of the recorded operations.
LEMMA ComputeOperationType ==
    ASSUME NEW op \in Operations, NEW p, NEW q
    PROVE  computeOperation(op, p, q) \in ComputedOperations
  BY OperationsAssumption DEF computeOperation, ComputedOperations

\* LastDeployment returns a deployment or nil.
LEMMA LastDeploymentType ==
    ASSUME newest \in StoredDeployment \union {Nil}
    PROVE  LastDeployment \in Deployment \union {Nil}
  BY DEF LastDeployment, Deployment, StoredDeployment

\* Load leaves a store of the right types.
LEMMA LoadType ==
    ASSUME TypeInv, Load
    PROVE  /\ newest' \in StoredDeployment \union {Nil}
           /\ several' \in BOOLEAN /\ suspendPersisted' \in BOOLEAN
<1> USE DEF TypeInv, TypeOK
<1>1. several' \in BOOLEAN /\ suspendPersisted' \in BOOLEAN
  BY Zenon DEF Load
<1>2. newest' \in StoredDeployment \union {Nil}
  BY DEF Load, Dummy, StoredDeployment, ComputedOperations, Statuses
<1> QED
  BY <1>1, <1>2

\* What a process that ends leaves behind has the right types.
LEMMA EndType ==
    ASSUME TypeInv, NEW state \in Dead, End(state)
    PROVE  TypeInv'
<1> USE DEF TypeInv, TypeOK, Written
<1>1. torn' \in BOOLEAN
  BY Zenon DEF End, Committing
<1>2. client' \in [Clients -> Requests] /\ \A c \in Clients : client'[c] # "latest"
  BY DEF End, Persisting, Requests
<1> QED
  BY <1>1, <1>2 DEF End, Dead

\* New establishes the type invariant.
LEMMA TypeInit == Init => TypeInv
<1> SUFFICES ASSUME Init PROVE TypeInv
  OBVIOUS
<1>1. newest \in StoredDeployment
  BY DEF Init, Dummy, StoredDeployment, ComputedOperations, Statuses
<1>2. LastDeployment \in Deployment \union {Nil}
  BY <1>1, LastDeploymentType
<1>3. several \in BOOLEAN
  BY Zenon DEF Init
<1> QED
  BY <1>1, <1>2, <1>3, OutPathsAssumption DEF Init, TypeInv, TypeOK, Written, Requests

\* Every step of the program preserves it.
LEMMA TypeStep == TypeInv /\ [Next]_vars => TypeInv'
<1> SUFFICES ASSUME TypeInv, [Next]_vars PROVE TypeInv'
  OBVIOUS
<1> USE DEF TypeInv, TypeOK, Written
<1>1. CASE Wake
  <2>1. generationAvailableCh' \in BOOLEAN
    BY <1>1, Zenon DEF Wake
  <2> QED
    BY <2>1, <1>1 DEF Wake, deploymentVars, suspendVars, clientVars, storeVars
<1>2. CASE CheckSuspended
  BY <1>2 DEF CheckSuspended, deployerVars, clientVars, storeVars
<1>3. CASE AwaitResume
  <2>1. resumeCh' \in BOOLEAN
    BY <1>3, Zenon DEF AwaitResume
  <2> QED
    BY <2>1, <1>3 DEF AwaitResume, submitVars, deploymentVars, clientVars, storeVars
<1>4. CASE TakeGeneration
  BY <1>4 DEF TakeGeneration, deploymentVars, suspendVars, clientVars, storeVars
<1>5. CASE CreateDeployment
  <2>1. PICK place \in Places : NewDeployment(place)
    BY <1>5, Zenon DEF CreateDeployment
  <2>2. job \in [outPath: OutPaths, op: Operations]
    BY <1>5 DEF CreateDeployment
  <2>3. computeOperation(job.op, current, job.outPath) \in ComputedOperations
    BY <2>2, ComputeOperationType
  <2>4. place \in {"head", "listed", "lost"}
    BY DEF Places
  <2>5. dpl' \in [outPath: OutPaths, op: ComputedOperations,
                  place: {"head", "listed", "lost"}]
    BY <2>1, <2>2, <2>3, <2>4 DEF NewDeployment
  <2>6. /\ newest' \in StoredDeployment \union {Nil}
        /\ dpl'.place = "head" => newest' \in StoredDeployment
    BY <2>1, <2>5 DEF NewDeployment, StoredDeployment, Statuses
  <2>7. several' \in BOOLEAN /\ torn' \in BOOLEAN
    BY <1>5, <2>1, Zenon DEF CreateDeployment, NewDeployment
  <2> QED
    BY <1>5, <2>5, <2>6, <2>7 DEF CreateDeployment, deployerVars, clientVars
<1>6. CASE InstallDeployment
  BY <1>6 DEF InstallDeployment, Deployment, submitVars, suspendVars, clientVars, storeVars
<1>7. CASE DeploymentStarted
  <2>1. torn' \in BOOLEAN
    BY <1>7, Zenon DEF DeploymentStarted
  <2>2. /\ newest' \in StoredDeployment \union {Nil}
        /\ newest \in StoredDeployment => newest' \in StoredDeployment
    BY <1>7 DEF DeploymentStarted, SetStatus, StoredDeployment, Statuses
  <2> QED
    BY <2>1, <2>2, <1>7 DEF DeploymentStarted, deployerVars, clientVars
<1>8. CASE Deploy
  <2>1. restart' \in BOOLEAN
    BY <1>8, Zenon DEF Deploy
  <2>2. outcome' \in {"done", "failed"} /\ current' \in OutPaths
    BY <1>8 DEF Deploy
  <2> QED
    BY <2>1, <2>2, <1>8 DEF Deploy, deployerVars, clientVars, storeVars
<1>9. CASE DeploymentFinished
  <2>1. torn' \in BOOLEAN
    BY <1>9, Zenon DEF DeploymentFinished
  <2>2. /\ newest' \in StoredDeployment \union {Nil}
        /\ newest \in StoredDeployment => newest' \in StoredDeployment
    BY <1>9 DEF DeploymentFinished, SetStatus, StoredDeployment, Statuses
  <2> QED
    BY <2>1, <2>2, <1>9 DEF DeploymentFinished, deployerVars, clientVars
<1>10. CASE FinishDeployment
  <2>1. isDeploying' \in BOOLEAN
    BY <1>10, Zenon DEF FinishDeployment
  <2> QED
    BY <2>1, <1>10 DEF FinishDeployment, submitVars, suspendVars, clientVars, storeVars
<1>11. CASE Notify
  <2>1. restart' \in BOOLEAN
    BY <1>11, Zenon DEF Notify
  <2> QED
    BY <2>1, <1>11 DEF Notify, submitVars, deploymentVars, suspendVars, clientVars, storeVars
<1>12. CASE ManagerReceive
  BY <1>12 DEF ManagerReceive, submitVars, deploymentVars, suspendVars, runnerVars,
               clientVars, storeVars
<1>13. CASE Restart
  <2>1. newest' \in StoredDeployment \union {Nil}
    BY <1>13, LoadType DEF Restart
  <2>2. LastDeployment' \in Deployment \union {Nil}
    BY <2>1 DEF LastDeployment, Deployment, StoredDeployment
  <2>3. several' \in BOOLEAN /\ suspendPersisted' \in BOOLEAN /\ isSuspended' \in BOOLEAN
    BY <1>13, LoadType, Zenon DEF Restart
  <2> QED
    BY <1>13, <2>1, <2>2, <2>3 DEF Restart, Requests, submitVars
<1>21. CASE Stop \/ TakeNil \/ ManagerExit
  BY <1>21, EndType DEF Stop, TakeNil, ManagerExit
<1>22. CASE StopLoading
  BY <1>22 DEF StopLoading, Alive, deployerVars, runnerVars, clientVars
<1>14. ASSUME NEW p \in OutPaths, NEW op \in Operations, Submit(p, op) PROVE TypeInv'
  BY <1>14, OutPathsAssumption, OperationsAssumption
     DEF Submit, Accept, deploymentVars, suspendVars, runnerVars, clientVars, storeVars
<1>15. ASSUME NEW c \in Clients, Suspend(c) \/ SuspendRequest(c) PROVE TypeInv'
  <2>1. /\ isSuspended' \in BOOLEAN /\ suspendPersisted' \in BOOLEAN
        /\ managerIsSuspended' \in BOOLEAN /\ builderIsSuspended' \in BOOLEAN
    BY <1>15, Zenon DEF Suspend, SuspendRequest, SuspendBuilder, SuspendFlag, SuspendPersist,
                        SuspendReturn, deployerVars, suspendVars, storeVars
  <2>2. client' \in [Clients -> Requests]
    BY <1>15 DEF Suspend, SuspendRequest, SuspendBuilder, SuspendFlag, SuspendPersist,
                 SuspendReturn, Goto, Requests
  <2>3. ASSUME NEW d \in Clients, client'[d] = "latest" PROVE resubmitted'[d] \in OutPaths
    BY <1>15, <2>3 DEF Suspend, SuspendRequest, SuspendBuilder, SuspendFlag, SuspendPersist,
                       SuspendReturn, Goto
  <2>4. UNCHANGED <<generationAvailableCh, GenerationToDeploy, Operation, deployment,
                    previousDeployment, isDeploying, DeploymentDoneCh, pc, job, dpl, restart,
                    outcome, resubmitted, newest, several, current, mu, resumeCh>>
        /\ torn' \in BOOLEAN
    BY <1>15 DEF Suspend, SuspendRequest, SuspendBuilder, SuspendFlag, SuspendPersist,
                 SuspendReturn, deployerVars, submitVars, deploymentVars, runnerVars, storeVars
  <2> QED
    BY <2>1, <2>2, <2>3, <2>4
<1>16. ASSUME NEW c \in Clients, ResumeRequest(c) PROVE TypeInv'
  BY <1>16 DEF ResumeRequest, Goto, Requests, deployerVars, runnerVars, storeVars
<1>17. ASSUME NEW c \in Clients, DeploymentLatestSubmit(c) PROVE TypeInv'
  BY <1>17, OutPathsAssumption
     DEF DeploymentLatestSubmit, StoredDeployment, Requests, deployerVars, runnerVars,
         storeVars
<1>18. ASSUME NEW c \in Clients, Resume(c) PROVE TypeInv'
  <2>1. /\ isSuspended' \in BOOLEAN /\ suspendPersisted' \in BOOLEAN
        /\ managerIsSuspended' \in BOOLEAN /\ builderIsSuspended' \in BOOLEAN
    BY <1>18, Zenon DEF Resume, ResumeBuilder, ResumeFlag, ResumeSignal, ResumeReturn,
                        deployerVars, suspendVars, storeVars
  <2>2. client' \in [Clients -> Requests]
    BY <1>18 DEF Resume, ResumeBuilder, ResumeFlag, ResumeSignal, ResumeReturn, Goto, Requests
  <2>3. ASSUME NEW d \in Clients, client'[d] = "latest" PROVE resubmitted'[d] \in OutPaths
    BY <1>18, <2>3 DEF Resume, ResumeBuilder, ResumeFlag, ResumeSignal, ResumeReturn, Goto
  <2>4. UNCHANGED <<generationAvailableCh, GenerationToDeploy, Operation, deployment,
                    previousDeployment, isDeploying, DeploymentDoneCh, pc, job, dpl, restart,
                    outcome, resubmitted, newest, several, current>>
        /\ torn' \in BOOLEAN
    BY <1>18 DEF Resume, ResumeBuilder, ResumeFlag, ResumeSignal, ResumeReturn,
                 deployerVars, submitVars, deploymentVars, runnerVars, storeVars
  <2>5. mu' \in Clients \union {Nil} /\ resumeCh' \in BOOLEAN
    BY <1>18 DEF Resume, ResumeBuilder, ResumeFlag, ResumeSignal, ResumeReturn, deployerVars
  <2> QED
    BY <2>1, <2>2, <2>3, <2>4, <2>5
<1>19. ASSUME NEW c \in Clients, NEW op \in Operations \union {Nil}, ForceSubmit(c, op)
       PROVE  TypeInv'
  BY <1>19, OperationsAssumption
     DEF ForceSubmit, Accept, DefaultOperations, Requests, deploymentVars,
         suspendVars, runnerVars, storeVars
<1>20. CASE UNCHANGED vars
  BY <1>20 DEF vars, deployerVars, runnerVars, clientVars, storeVars
<1> QED
  BY <1>1, <1>2, <1>3, <1>4, <1>5, <1>6, <1>7, <1>8, <1>9, <1>10, <1>11, <1>12, <1>13,
     <1>14, <1>15, <1>16, <1>17, <1>18, <1>19, <1>20, <1>21, <1>22
     DEF Next, Runner, Request, Handler

\* Every variable keeps its type, whatever crashes and restarts happen.
THEOREM TypeCorrect == Spec => []TypeOK
<1>1. Spec => []TypeInv
  BY TypeInit, TypeStep, PTL DEF Spec
<1>2. TypeInv => TypeOK
  BY DEF TypeInv
<1> QED
  BY <1>1, <1>2, PTL
-----------------------------------------------------------------------------
(* No submitted generation is stranded.                                    *)

\* PendingIsSignalled, and a process that has ended has nothing to deploy.
PendingInv == PendingIsSignalled /\ (~Alive => GenerationToDeploy = Nil)

\* Every step preserves it.
LEMMA SignalledStep == PendingInv /\ [Next]_vars => PendingInv'
<1> SUFFICES ASSUME PendingInv, [Next]_vars PROVE PendingInv'
  OBVIOUS
<1> USE DEF PendingInv, PendingIsSignalled, Alive, Roused
<1>1. CASE Wake
  BY <1>1 DEF Wake
<1>2. CASE CheckSuspended
  BY <1>2 DEF CheckSuspended, deployerVars
<1>3. CASE AwaitResume
  BY <1>3 DEF AwaitResume, submitVars
<1>4. CASE TakeGeneration
  BY <1>4 DEF TakeGeneration
<1>5. CASE CreateDeployment \/ DeploymentStarted \/ Deploy \/ DeploymentFinished
  BY <1>5 DEF CreateDeployment, DeploymentStarted, Deploy, DeploymentFinished, deployerVars
<1>6. CASE InstallDeployment \/ FinishDeployment \/ Notify \/ ManagerReceive
  BY <1>6 DEF InstallDeployment, FinishDeployment, Notify, ManagerReceive, submitVars,
              runnerVars
<1>7. CASE Restart
  BY <1>7 DEF Restart, submitVars
<1>13. CASE Stop \/ TakeNil \/ ManagerExit
  BY <1>13 DEF Stop, TakeNil, ManagerExit, End
<1>14. CASE StopLoading
  BY <1>14 DEF StopLoading, deployerVars, runnerVars
<1>8. ASSUME NEW p \in OutPaths, NEW op \in Operations, Submit(p, op)
      PROVE  PendingInv'
  BY <1>8 DEF Submit, Accept, runnerVars
<1>9. ASSUME NEW c \in Clients, Suspend(c) \/ Resume(c)
      PROVE  PendingInv'
  BY <1>9 DEF Suspend, SuspendBuilder, SuspendFlag, SuspendPersist, SuspendReturn,
              Resume, ResumeBuilder, ResumeFlag, ResumeSignal, ResumeReturn,
              deployerVars, submitVars, runnerVars
<1>10. ASSUME NEW c \in Clients, Request(c)
       PROVE  PendingInv'
  BY <1>10 DEF Request, SuspendRequest, ResumeRequest, DeploymentLatestSubmit, deployerVars,
               runnerVars
<1>11. ASSUME NEW c \in Clients, NEW op \in Operations \union {Nil}, ForceSubmit(c, op)
       PROVE  PendingInv'
  BY <1>11 DEF ForceSubmit, Accept, runnerVars
<1>12. CASE UNCHANGED vars
  BY <1>12 DEF vars, deployerVars, runnerVars
<1> QED
  BY <1>1, <1>2, <1>3, <1>4, <1>5, <1>6, <1>7, <1>8, <1>9, <1>10, <1>11, <1>12, <1>13, <1>14
     DEF Next, Runner, Request, Handler

\* A generation accepted by Submit always has a wake-up on its way to the runner,
\* however Submit, the runner, the handlers and restarts interleave.
THEOREM NoGenerationStranded == Spec => []PendingIsSignalled
<1>1. Init => PendingInv
  BY DEF Init, PendingInv, PendingIsSignalled, Alive
<1>2. PendingInv => PendingIsSignalled
  BY DEF PendingInv
<1> QED
  BY <1>1, <1>2, SignalledStep, PTL DEF Spec

-----------------------------------------------------------------------------
(* No Resume is lost.                                                      *)

\* The handler in the middle of Resume holds d.mu.
ResumeHoldsMutex == Alive => \A c \in Clients : client[c] = "resumeSignal" => mu = c

ResumeInv == TypeInv /\ ResumeHoldsMutex /\ ResumeNotLost

\* ResumeNotLost with the mutual exclusion of Resume is preserved by every step.
LEMMA ResumeStep == ResumeInv /\ [Next]_vars => ResumeInv'
<1> SUFFICES ASSUME ResumeInv, [Next]_vars PROVE ResumeInv'
  OBVIOUS
<1>0. TypeInv'
  BY TypeStep DEF ResumeInv
<1>a. client \in [Clients -> Requests]
  BY DEF ResumeInv, TypeInv, TypeOK
<1> SUFFICES (ResumeHoldsMutex /\ ResumeNotLost)'
  BY <1>0 DEF ResumeInv
<1>b. ResumeHoldsMutex /\ ResumeNotLost
  BY DEF ResumeInv
<1> USE <1>a, <1>b DEF ResumeHoldsMutex, ResumeNotLost, Alive
<1>1. CASE Wake
  BY <1>1 DEF Wake, suspendVars, clientVars
<1>2. CASE CheckSuspended
  BY <1>2 DEF CheckSuspended, deployerVars, clientVars
<1>3. CASE AwaitResume
  BY <1>3 DEF AwaitResume, clientVars
<1>4. CASE TakeGeneration
  BY <1>4 DEF TakeGeneration, suspendVars, clientVars
<1>5. CASE CreateDeployment \/ DeploymentStarted \/ Deploy \/ DeploymentFinished
  BY <1>5 DEF CreateDeployment, DeploymentStarted, Deploy, DeploymentFinished,
              deployerVars, clientVars
<1>6. CASE InstallDeployment \/ FinishDeployment \/ Notify \/ ManagerReceive
  BY <1>6 DEF InstallDeployment, FinishDeployment, Notify, ManagerReceive,
              suspendVars, runnerVars, clientVars
<1>7. CASE Restart
  BY <1>7 DEF Restart
<1>15. CASE Stop \/ StopLoading \/ TakeNil \/ ManagerExit
  BY <1>15 DEF Stop, StopLoading, TakeNil, ManagerExit, End, deployerVars, runnerVars,
               clientVars
<1>8. ASSUME NEW p \in OutPaths, NEW op \in Operations, Submit(p, op)
      PROVE  (ResumeHoldsMutex /\ ResumeNotLost)'
  BY <1>8 DEF Submit, runnerVars, suspendVars, clientVars
<1>9. ASSUME NEW c \in Clients, Suspend(c)
      PROVE  (ResumeHoldsMutex /\ ResumeNotLost)'
  BY <1>9 DEF Suspend, SuspendBuilder, SuspendFlag, SuspendPersist, SuspendReturn, Goto,
              deployerVars, runnerVars
<1>10. ASSUME NEW c \in Clients, ResumeFlag(c)
       PROVE  (ResumeHoldsMutex /\ ResumeNotLost)'
  BY <1>10, ClientsAssumption DEF ResumeFlag, Goto, runnerVars
<1>11. ASSUME NEW c \in Clients, ResumeSignal(c)
       PROVE  (ResumeHoldsMutex /\ ResumeNotLost)'
  BY <1>11, ClientsAssumption DEF ResumeSignal, Goto, runnerVars
<1>12. ASSUME NEW c \in Clients, Request(c) \/ ResumeBuilder(c) \/ ResumeReturn(c)
       PROVE  (ResumeHoldsMutex /\ ResumeNotLost)'
  BY <1>12 DEF Request, SuspendRequest, ResumeRequest, DeploymentLatestSubmit, ResumeBuilder,
               ResumeReturn, Goto, deployerVars, runnerVars
<1>13. ASSUME NEW c \in Clients, NEW op \in Operations \union {Nil}, ForceSubmit(c, op)
       PROVE  (ResumeHoldsMutex /\ ResumeNotLost)'
  BY <1>13 DEF ForceSubmit, runnerVars, suspendVars
<1>14. CASE UNCHANGED vars
  BY <1>14 DEF vars, deployerVars, runnerVars, clientVars
<1> QED
  BY <1>1, <1>2, <1>3, <1>4, <1>5, <1>6, <1>7, <1>8, <1>9, <1>10, <1>11, <1>12, <1>13,
     <1>14, <1>15 DEF Next, Runner, Handler, Resume

\* A runner that waits for a Resume although the deployer is not suspended finds its
\* token, with any number of concurrent Suspend and Resume requests.
THEOREM NoResumeLost == Spec => []ResumeNotLost
<1>1. Init => ResumeInv
  BY TypeInit DEF Init, ResumeInv, ResumeHoldsMutex, ResumeNotLost
<1>2. ResumeInv => ResumeNotLost
  BY DEF ResumeInv
<1> QED
  BY <1>1, <1>2, ResumeStep, PTL DEF Spec
-----------------------------------------------------------------------------
(* A success in the store took place.                                      *)

\* The newest entry of the store is the deployment of the runner, and its status
\* follows the runner.
StoreFollowsRunner ==
    /\ pc \in {"install", "start", "deploy", "finish"} =>
        /\ dpl.place = "head" /\ newest.outPath = dpl.outPath /\ newest.op = dpl.op
        /\ newest \in StoredDeployment
    /\ pc \in {"install", "start"} => newest.status = "init"
    /\ pc \in {"deploy", "finish"} => newest.status = "running"
    /\ pc = "finish" /\ outcome = "done" /\ dpl.op \in {"switch", "test"} =>
        current = dpl.outPath

DoneInv == TypeInv /\ StoreFollowsRunner /\ DoneIsCurrent

\* Every step preserves it when a new deployment always becomes the newest one.
LEMMA DoneStep ==
    ASSUME ~ClockStepsBack
    PROVE  DoneInv /\ [Next]_vars => DoneInv'
<1> SUFFICES ASSUME DoneInv, [Next]_vars PROVE DoneInv'
  OBVIOUS
<1>0. TypeInv'
  BY TypeStep DEF DoneInv
<1> SUFFICES (StoreFollowsRunner /\ DoneIsCurrent)'
  BY <1>0 DEF DoneInv
<1>a. StoreFollowsRunner /\ DoneIsCurrent
  BY DEF DoneInv
<1> USE <1>a DEF StoreFollowsRunner, DoneIsCurrent
<1>1. CASE Wake \/ CheckSuspended \/ AwaitResume \/ TakeGeneration
  BY <1>1 DEF Wake, CheckSuspended, AwaitResume, TakeGeneration, storeVars
<1>2. CASE CreateDeployment
  <2>1. NewDeployment("head")
    BY <1>2, Zenon DEF CreateDeployment, Places
  <2>2. /\ dpl'.place = "head"
        /\ newest' = [outPath |-> dpl'.outPath, op |-> dpl'.op, status |-> "init"]
    BY <2>1 DEF NewDeployment
  <2>3. newest' \in StoredDeployment
    BY <1>2, <2>2, <1>0 DEF CreateDeployment, TypeInv, Written
  <2> QED
    BY <1>2, <2>2, <2>3 DEF CreateDeployment, StoredDeployment
<1>3. CASE InstallDeployment
  BY <1>3 DEF InstallDeployment, storeVars
<1>4. CASE DeploymentStarted
  BY <1>4 DEF DeploymentStarted, SetStatus, StoredDeployment, Statuses
<1>5. CASE Deploy
  BY <1>5 DEF Deploy, storeVars
<1>6. CASE DeploymentFinished
  BY <1>6 DEF DeploymentFinished, SetStatus, StoredDeployment
<1>7. CASE FinishDeployment \/ Notify \/ ManagerReceive
  BY <1>7 DEF FinishDeployment, Notify, ManagerReceive, runnerVars, storeVars
<1>8. CASE Restart
  <2>1. newest' = Nil \/ newest' = newest \/ \E p \in OutPaths : newest' = Dummy(p)
    BY <1>8, Zenon DEF Restart, Load
  <2>2. DoneIsCurrent'
    BY <1>8, <2>1 DEF Restart, Dummy
  <2> QED
    BY <1>8, <2>2 DEF Restart
<1>13. CASE Stop \/ StopLoading \/ TakeNil \/ ManagerExit
  BY <1>13 DEF Stop, StopLoading, TakeNil, ManagerExit, End, Alive, runnerVars
<1>9. ASSUME NEW p \in OutPaths, NEW op \in Operations, Submit(p, op)
      PROVE  (StoreFollowsRunner /\ DoneIsCurrent)'
  BY <1>9 DEF Submit, runnerVars, storeVars
<1>10. ASSUME NEW c \in Clients, Request(c) \/ Suspend(c) \/ Resume(c)
       PROVE  (StoreFollowsRunner /\ DoneIsCurrent)'
  BY <1>10 DEF Request, SuspendRequest, ResumeRequest, DeploymentLatestSubmit,
               Suspend, SuspendBuilder, SuspendFlag, SuspendPersist, SuspendReturn,
               Resume, ResumeBuilder, ResumeFlag, ResumeSignal, ResumeReturn,
               runnerVars, storeVars
<1>11. ASSUME NEW c \in Clients, NEW op \in Operations \union {Nil}, ForceSubmit(c, op)
       PROVE  (StoreFollowsRunner /\ DoneIsCurrent)'
  BY <1>11 DEF ForceSubmit, runnerVars, storeVars
<1>12. CASE UNCHANGED vars
  BY <1>12 DEF vars, runnerVars, storeVars
<1> QED
  BY <1>1, <1>2, <1>3, <1>4, <1>5, <1>6, <1>7, <1>8, <1>9, <1>10, <1>11, <1>12, <1>13
     DEF Next, Runner, Handler

\* As long as the clock does not step back, a switch or a test that the store
\* reports as done as its newest deployment is the running system, crashes included.
THEOREM DoneTookPlace ==
    ASSUME ~ClockStepsBack
    PROVE  Spec => []DoneIsCurrent
<1>1. Init => DoneInv
  BY TypeInit DEF Init, Dummy, DoneInv, StoreFollowsRunner, DoneIsCurrent
<1>2. DoneInv /\ [Next]_vars => DoneInv'
  BY DoneStep
<1>3. DoneInv => DoneIsCurrent
  BY DEF DoneInv
<1> QED
  BY <1>1, <1>2, <1>3, PTL DEF Spec

-----------------------------------------------------------------------------
(* A suspension survives restarts.                                         *)

\* The flag of the deployer between the two steps of its Suspend and of its Resume, and
\* at any other time: then it is the one of the store.
FlagIsStored ==
    /\ \A c \in Clients :
        /\ client[c] = "suspendPersist" => isSuspended
        /\ client[c] = "resumeSignal" => ~isSuspended
    /\ Persisting = {} => isSuspended = suspendPersisted

PersistInv == TypeInv /\ FlagIsStored

\* Every step preserves it when the requests come one at a time.
LEMMA PersistStep ==
    ASSUME \A c, d \in Clients : c = d
    PROVE  PersistInv /\ [Next]_vars => PersistInv'
<1> SUFFICES ASSUME PersistInv, [Next]_vars PROVE PersistInv'
  OBVIOUS
<1>0. TypeInv'
  BY TypeStep DEF PersistInv
<1> SUFFICES FlagIsStored'
  BY <1>0 DEF PersistInv
<1>a. FlagIsStored
  BY DEF PersistInv
<1>b. /\ client \in [Clients -> Requests]
      /\ isSuspended \in BOOLEAN /\ suspendPersisted \in BOOLEAN
      /\ isSuspended' \in BOOLEAN /\ suspendPersisted' \in BOOLEAN
  BY <1>0 DEF PersistInv, TypeInv, TypeOK
<1> USE <1>a, <1>b DEF FlagIsStored, Persisting
<1>1. CASE Wake \/ CheckSuspended \/ AwaitResume \/ TakeGeneration
  BY <1>1 DEF Wake, CheckSuspended, AwaitResume, TakeGeneration, suspendVars,
              deployerVars, clientVars, storeVars
<1>2. CASE CreateDeployment \/ DeploymentStarted \/ Deploy \/ DeploymentFinished
  BY <1>2 DEF CreateDeployment, DeploymentStarted, Deploy, DeploymentFinished,
              deployerVars, clientVars, storeVars
<1>3. CASE InstallDeployment \/ FinishDeployment \/ Notify \/ ManagerReceive \/ StopLoading
  BY <1>3 DEF InstallDeployment, FinishDeployment, Notify, ManagerReceive, StopLoading,
              suspendVars, deployerVars, clientVars, storeVars
<1>13. CASE Stop \/ TakeNil \/ ManagerExit
  <2>1. /\ client' = [c \in Clients |-> IF c \in Persisting THEN client[c] ELSE "idle"]
        /\ UNCHANGED <<isSuspended, suspendPersisted>>
    BY <1>13 DEF Stop, TakeNil, ManagerExit, End
  <2> QED
    BY <2>1
<1>4. CASE Restart
  BY <1>4 DEF Restart
<1>5. ASSUME NEW p \in OutPaths, NEW op \in Operations, Submit(p, op)
      PROVE  FlagIsStored'
  BY <1>5 DEF Submit, suspendVars, runnerVars, clientVars, storeVars
<1>6. ASSUME NEW c \in Clients, SuspendFlag(c)
      PROVE  FlagIsStored'
  BY <1>6 DEF SuspendFlag, Goto, runnerVars, storeVars
<1>7. ASSUME NEW c \in Clients, SuspendPersist(c)
      PROVE  FlagIsStored'
  BY <1>7 DEF SuspendPersist, Goto, deployerVars, runnerVars
<1>8. ASSUME NEW c \in Clients, ResumeFlag(c)
      PROVE  FlagIsStored'
  BY <1>8 DEF ResumeFlag, Goto, runnerVars, storeVars
<1>9. ASSUME NEW c \in Clients, ResumeSignal(c)
      PROVE  FlagIsStored'
  BY <1>9 DEF ResumeSignal, Goto, runnerVars
<1>10. ASSUME NEW c \in Clients,
              \/ Request(c) \/ SuspendBuilder(c) \/ SuspendReturn(c)
              \/ ResumeBuilder(c) \/ ResumeReturn(c)
       PROVE  FlagIsStored'
  BY <1>10 DEF Request, SuspendRequest, ResumeRequest, DeploymentLatestSubmit, SuspendBuilder,
               SuspendReturn, ResumeBuilder, ResumeReturn, Goto, deployerVars, runnerVars,
               storeVars
<1>11. ASSUME NEW c \in Clients, NEW op \in Operations \union {Nil}, ForceSubmit(c, op)
       PROVE  FlagIsStored'
  BY <1>11 DEF ForceSubmit, suspendVars, runnerVars, storeVars
<1>12. CASE UNCHANGED vars
  BY <1>12 DEF vars, deployerVars, runnerVars, clientVars, storeVars
<1> QED
  BY <1>1, <1>2, <1>3, <1>4, <1>5, <1>6, <1>7, <1>8, <1>9, <1>10, <1>11, <1>12, <1>13
     DEF Next, Runner, Handler, Suspend, Resume

\* Only Restart brings a process back, with the flag that Load has read.
LEMMA RestartStep ==
    ASSUME PersistInv, [Next]_vars, ~Alive, Alive', ~torn, Persisting = {}
    PROVE  isSuspended' = isSuspended
<1>1. Restart
  <2>1. CASE Runner
    BY <2>1 DEF Runner, Wake, CheckSuspended, AwaitResume, TakeGeneration, TakeNil,
                CreateDeployment, InstallDeployment, DeploymentStarted, Deploy,
                DeploymentFinished, FinishDeployment, Notify, Alive
  <2>2. CASE ManagerReceive \/ ManagerExit \/ Stop
    BY <2>2 DEF ManagerReceive, ManagerExit, Stop
  <2>3. CASE StopLoading \/ UNCHANGED vars
    BY <2>3 DEF StopLoading, vars, runnerVars, Alive
  <2>4. ASSUME NEW p \in OutPaths, NEW op \in Operations, Submit(p, op)
        PROVE  FALSE
    BY <2>4 DEF Submit
  <2>5. ASSUME NEW c \in Clients, Request(c) \/ Handler(c)
        PROVE  FALSE
    BY <2>5 DEF Request, SuspendRequest, ResumeRequest, DeploymentLatestSubmit, Handler,
                Suspend, SuspendBuilder, SuspendFlag, SuspendPersist, SuspendReturn,
                Resume, ResumeBuilder, ResumeFlag, ResumeSignal, ResumeReturn, ForceSubmit
  <2> QED
    BY <2>1, <2>2, <2>3, <2>4, <2>5 DEF Next
<1>2. suspendPersisted' = suspendPersisted /\ isSuspended' = suspendPersisted'
  BY <1>1 DEF Restart, Load
<1>3. isSuspended = suspendPersisted
  BY DEF PersistInv, FlagIsStored
<1> QED
  BY <1>2, <1>3

\* With requests that do not overlap, a restart finds the deployer suspended as it was,
\* wherever the process ended outside the writing of a request or of the store.
THEOREM SuspensionSurvives ==
    ASSUME \A c, d \in Clients : c = d
    PROVE  Spec => SuspensionIsPersisted
<1>1. Init => PersistInv
  BY TypeInit DEF Init, PersistInv, FlagIsStored
<1>2. PersistInv /\ [Next]_vars => PersistInv'
  BY PersistStep
<1>3. PersistInv /\ [Next]_vars =>
        [~Alive /\ Alive' /\ ~torn /\ Persisting = {} => isSuspended' = isSuspended]_vars
  BY RestartStep
<1> QED
  BY <1>1, <1>2, <1>3, PTL DEF Spec, SuspensionIsPersisted
=============================================================================
