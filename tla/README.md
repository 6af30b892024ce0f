# A TLA+ model of comin

comin runs on a NixOS machine. It fetches Git remotes, selects a commit, evaluates
and builds the system configuration in it, and deploys the result. This directory
holds TLA+ modules for its parts, TLC instances that check them, and TLAPS proofs.
`PROJECT.json` maps every definition to the lines of the source that it stands for.

## 1. The system

| part | state | operations | who calls it |
|---|---|---|---|
| Repository (`internal/repository`) | fetched references, `RepositoryStatus` (last main commit, selected commit, branch, signature) | `FetchAndUpdate` in a worker goroutine: `Fetch`, `Update` | fetcher |
| Fetcher (`internal/fetcher`) | `remotes` to fetch, `isFetching`, last reported status | `TriggerFetch`, one loop | scheduler, server |
| Broker (`internal/broker`) | `publishCh`, one bounded channel per subscriber | `Publish`, forwarding loop | all parts |
| Manager (`internal/manager/manager.go`) | `isSuspended`; two loops (events, state) | reacts to events, to the builder's channels and to the confirmers; `Suspend`, `Resume`, `DeploymentLatestSubmit` | server |
| Confirmers (`internal/manager/confirmer.go`) | submitted and confirmed generation, timer | `Submit`, `Confirm`, `Cancel`, tick, delivery | manager, server |
| Builder (`internal/builder`) | current generation, `isEvaluating`, `isBuilding`, `isSuspended`, two `Exec`, two one-place channels | `Eval`, `SubmitBuild`, `Suspend`, `Resume`, `Stop` | manager |
| Store (`internal/store`) | generations with four markers, deployments, persisted file | creation, status changes, garbage collection, retention, `Load` | builder, deployer, manager |
| Deployer (`internal/deployer`) | next generation, current and previous deployment, `isSuspended`, wake-up channels | `Submit`, `Suspend`, `Resume`, runner goroutine | manager |
| Profiles (`internal/profile`) | the links `comin-<n>-link` | `SetSystemProfile`, `removeProfiles` | executor |
| Executor (`internal/executor`) | none | `Eval`, `Build`, `Deploy`: sequences of `nix` and `switch-to-configuration` commands; `NeedToReboot` | builder, deployer, manager |
| Server (`internal/server`) | one stream per client | `Events` (a snapshot, then events), `Suspend`, `Resume`, `Confirm`, ... | clients |
| Terminal (`cmd/watch.go`, `pkg/tui`, `pkg/client`) | a copy of comin's state | follows the stream, reconnects; the key `s` suspends and resumes | user |
| Metrics (`internal/prometheus`) | gauges | follows the broker's events | HTTP endpoint |

A commit goes from the repository's worker to the fetcher's loop, over the broker to
the manager's event loop, to `Builder.Eval`, over `EvaluationDone` and the build
confirmer to `SubmitBuild`, over `BuildDone` and the deploy confirmer to
`Deployer.Submit`, and over `DeploymentDoneCh` back to the manager's state loop. All of
these are goroutines that meet on channels of capacity zero, one or five, some of whose
senders block and some of which drop. A new commit preempts the evaluation or build of
an older one at any point; clients may suspend, resume, confirm, cancel and resubmit at
any point; the process may stop anywhere, with the store file and the fetched
references on disk.

What is hard, and what would make each part correct:

* Deployer: wake-ups are tokens in one-place channels, so a submission or a resume
  may be lost or counted twice; a crash may fall between the activation of a system and
  its record in the store.
* Confirmers: ticks of old timers, confirmations before submissions, replacement while
  waiting; only the right generation may pass, and only if confirmed.
* Builder and generations: preemption, an append without a lock, a garbage collection
  triggered by the preempted task, a racy `Exec.Wait`, overlap with `Suspend`.
* Retention and profiles: which systems stay bootable depends on the whole history.
* Repository: heads of remotes that failed or were not fetched are stale, branches are
  forced, and the status is assembled in two loops.
* Signatures: what a configuration trusts is parsed into lists whose emptiness means
  something, for commits, namespaces and names.
* Fetcher and broker: one worker at a time, bounded buffers that drop events.
* Manager: one loop that blocks on what it feeds; generations overtake, preempt and
  replace each other between four hand-overs.
* Terminal and metrics: a snapshot and a stream of events that overlap, dropped events,
  restarts on both sides.

`PROJECT.json` lists these hazards line by line with the properties that cover them.

## 2. The modules

| module | models | instance | proofs |
|---|---|---|---|
| `Deployer` | `deployer.go`, `Suspend`/`Resume`/`DeploymentLatestSubmit` and the state loop of `manager.go`, start of the process | `MCDeployer` | `DeployerProofs` |
| `Slot` | what a confirmer promises: an abstract specification | | |
| `Confirmer` | `confirmer.go`; implements `Slot` | `MCConfirmer` | `ConfirmerProofs` |
| `Manager` | the event loop of `manager.go` composed with two `Slot`s, the builder's tasks, the generations and the deployer's next generation | `MCManager` | `ManagerProofs` |
| `Executor` | `Eval` and `Build` of both executors, as sets of results | with `Builder` | |
| `Builder` | `builder.go`, `exec.go`, `store/generation.go`, the event loop up to the deploy confirmer | `MCBuilder` | `BuilderProofs` |
| `Retention` | `store/deployment.go`, `store.go`, `profile.go`, `deployLinux`, `reboot.go`, the state loop's exit and reboot flag | `MCRetention` | `RetentionProofs` |
| `Repository` | `repository.go`, `git.go`, the start of the process | `MCRepository` | `RepositoryProofs` |
| `Signatures` | signature verification in `git.go`, the reading of keys in `New` | with `Verification` | with `Verification` |
| `Verification` | `Repository` together with `Signatures`: the keys of this machine's configuration and the commits that they verify | `MCRepository` | `RepositoryProofs` |
| `Fetcher` | `Repository` composed with `fetcher/git.go`, `scheduler.go`, `broker.go` and the manager's subscription | `MCFetcher` | `FetcherProofs` |
| `Monitor` | `server.go`'s event stream, `tui.go`, `client.go`, `watch.go`, `prometheus.go`, with the flags and events of the parts they watch | `MCMonitor` | `MonitorProofs` |

Operators that replace a definition by a plausible mistake stand just before it; the
specifications do not use them, `PROJECT.json` lists them under `mutants`, and each
property has one that violates it.

### Deployer

The variables are the fields of the `Deployer` struct, the locals of the runner
goroutine (with `pc` for its next statement), one step counter per gRPC client, and
what is persisted. The one-place channels are Booleans. The runner is split at each
point where another goroutine can observe or change something: `Wake` (218),
`CheckSuspended` (220), `AwaitResume` (222), `TakeGeneration` under the lock (226-231),
`CreateDeployment`, `InstallDeployment`, `DeploymentStarted`, `Deploy`,
`DeploymentFinished`, `FinishDeployment`, `Notify`. The manager's `Suspend` and `Resume`
check their flags and set them several steps later, under `d.mu` from `ResumeFlag` to
`ResumeSignal`. The store is reduced to its newest deployment, whether it has several
(which `LastDeployment` asks; this takes capacities of at least the defaults 3, 3 and 5),
and the suspension flag.

The process may end in any state (`Stop`, a panic, `ManagerExit`): all of them are `End`,
which loses the memory, the generation to deploy included. `Commit` writes over the file of
the store in place (`store.go:247`), so that an end that falls into one (`Committing`) may
leave the file `torn`, as may one while `Load` commits (`StopLoading`). `Restart` reads the
file. One that it cannot read is ignored (`run.go:86`): the process begins without
deployments and not suspended, and the file stays torn until the next `Commit`; a list that
it can read and that is empty gets dummies for the booted and the current system.
`isSuspended` keeps, between the end of a process and the next, what the process had, so that
`SuspensionIsPersisted` can compare them.

`ClockStepsBack` lets a new deployment be dropped or buried by the retention that its own
creation runs. With a clock that does not step back it is kept, which is what `Retention`
shows (`UnderWayIsStored`). Reboots of the machine and `needToReboot` are in `Retention`.

### Slot, Confirmer and Manager

`Confirmer` has one action per command, for the tick and for the delivery, each with
the test that ends the iteration (`Settle`). `c.timer.Stop` leaves no stale tick (Go
1.23 and later). The status request changes nothing and is left out.

`Slot` is the abstract specification that the manager relies on: one place, in which a
later submission replaces the one that waits until that is granted, by whomever; what is
granted is then offered and given away once. `Confirmer` implements it (`ImplementsSlot`)
with `waiting <- Submitted` and `offered <- (loop = "deliver")`; `Cancel`,
confirmations in advance and timers are stutters or grants.

`Manager` has the event loop as a process that is at `select`, on its way through `Eval`, or
in `Submit` until a confirmer receives. Its other processes are the tasks of the builder,
the two confirmers (instances of `Slot`), the deployer's runner and the clients. `Eval`
begins with `Stop`, whose steps (`EvalStopped`, `BuildStopped`, `ClearBuilding`) and the
rest (`StartEval`) take `b.mu` one after the other, and so do those of `Suspend`. A `Resume`
may come between any two of them and start a build, which then overlaps with the older one
or with what comes after `Stop`. Overlapping builds share `b.buildator`, so that each may
end with the result of the other. They are always of one generation: when a `Resume` starts
a build after `NewGeneration`, `GenerationBuildStart` collects the new generation, which no
marker points to yet, and `Eval` returns at `builder.go:209` (`NewCommitIsEvaluated` of the
run `builder_collected` is about this). For the same reason `SubmitBuild` does not refuse an
evaluated generation for the build of an older one that a `Resume` has started. The two
goroutines of a task, and its cancellation, are in `Builder`; here a task ends in one step.
The store of generations has its markers and its garbage collection, as a generation that is
collected on its way is lost. Whether a generation equals an earlier deployment is left open
(`IsAlreadyDeployed` is in `Deployer`).

### Builder

The manager's `Eval` is split into `NewGeneration` (read and assignment of the slice, which
has no lock), the stops of the evaluation and of the build with their waits, and
`StartEval`. Each task has a goroutine that runs the command and one in `Exec.Wait`, whose
check and receive are separate steps. `Slots` bounds how many builds overlap: it takes a
`Suspend` to have more than one. `toBuild` stands for the build confirmer. The three store
calls at the end of an evaluation are one step. What the evaluation and the build return is
`EvalResults` and `BuildResults` of `Executor`: each step may fail, and when the context is
done by the end of the command, the error is that of the context (`exec.go:50`), with the
out path that was found, if any. Generations of an earlier process are collected at the
first `GenerationEvalStarted` and are left out. Not modelled: the torn slice header of the
unlocked append (only the order of its read and its assignment is), and that assigning
`b.buildator` also overwrites a mutex.

### Retention

The list of deployments, sorted from newer to older, is a sequence; `retention` is
translated with its dummies, deduplication and three capacities. `slices.SortFunc` is
stable for lists this short (an insertion sort up to 12 elements). `Subsequence`, a recursive
function, stands for the loops that copy some elements of a list: the prover knows no
definition of `SelectSeq`. `nix-env --set` is
external. A store file that cannot be read is an empty store ("Ignoring the state
file", `cmd/run.go:87`). The clock is monotone here. Around the activation comin
compares the hash of its unit file, which is empty when it cannot be read; the manager
receives the deployment over a one-place channel, recomputes `needToReboot` and exits
when comin has to be restarted, possibly while the runner is in the next deployment.

### Repository, Signatures and Fetcher

Each iteration of the loops of `Fetch` and `Update` is a step of the worker. The Git
history is a set of ancestors for each commit, and what a remote serves is arbitrary at
each fetch, so that new commits, forced pushes and deleted branches all occur. The
messages, dates and per-branch errors are only displayed and are left out; a signature
is membership in `Signed`. `Verification` ties `Keys` and `Signed` to a configuration: they
are what `Signatures` makes of its keys and of the signature of each commit. In
`Signatures`, texts are given by what the parsers tell apart (a pattern is a name, `*`,
empty or refused; an option is `namespaces` with its patterns or another one; a key field
is a key or one of the reasons to refuse it). The signers of a file are indexed by the
numbers of their lines, and the first whose key verifies the signature names the signer.
Cryptography is external: a signature is the key that made it and the data that it was
made over. The primary identity of a GPG key is taken not to be empty: with an empty one
the code takes a good signature for none.

`Fetcher` EXTENDS `Repository`: `TriggerFetch` meets the loop on an unbuffered channel,
`ReceiveStatus` and `Publish` are its two halves, `PublishOther` stands for every event
that the manager ignores, and `Forward` drops what finds the buffer full. `Deploy`
records the main commit in the store; as only a restart reads it, when exactly the
deployment takes place does not matter. A `Restart` comes back with one of the main commits
`Remembered`: that of the last deployment; none, when a `Commit` of the store was cut or
nothing but the booted system is retained, after which the next forced push is accepted;
or, with `ClockStepsBack`, that of another deployment, which the list has first.

### Monitor

A behaviour follows one subscriber of the broker, the terminal or the metrics, as the
broker never waits for a subscriber. The parts that are watched have their flags, the
order in which they change and publish, and nothing else; that their operations do not
overlap is what the other modules show, and is assumed here. The state loop assembles a
snapshot in three steps, since the builder's part is read under its lock and the others
at other times. Events carry references, which the receiver reads as they are by then.
The stream may be cut by a stop of either side. `Line`, `BuilderView`, `DeployerView`,
`FetcherView` and `ManagerView` are what is shown, up to layout. A restart gives back what
the store holds: the suspension and the last deployment (`restored`), or neither when the
stop has cut a `Commit` (`NoDeployer`). Of the metrics there are those on the suspension,
on the last evaluation and build, and on the last deployment (`comin_deployment_info`, and
`comin_last_deployment_failed`, which an event alone sets); those that count fetches or tell their
dates and failures, and the build information, are left out.

## 3. The runs

Runs that pass:

| run | properties | shows | instance and bounds |
|---|---|---|---|
| `deployer` | `PendingIsSignalled`, `ResumeNotLost`, `SuspensionIsPersisted`, `DoneIsCurrent` | no submission or resume is lost, a suspension survives a crash that does not cut the writing of the store, a recorded success is the running system | three paths (so that every computed operation occurs and the running system changes), one client; every variable is finite, no other bound; 2.6 million states |
| `deployer_liveness` | `PendingIsTaken` | as long as the process lives, an accepted generation is taken unless the deployer is suspended | one path, clock that steps back; 413 000 states |
| `confirmer` | `DeliversLatest`, `ManualNeedsUser`, `CancelIsFinal`, `AutoHasTimer`, `AutoConfirms`, `ImplementsSlot` | who confirms what, that Auto confirms, and the refinement of `Slot` | three generations: waiting, replacing, confirmed in advance; 636 states |
| `manager` | `NothingForgotten`, `DeploysInOrder` | the current generation is always on its way, and no older one comes after a newer one, with a `Resume` between any two steps of `Eval` and `Suspend` | three generations: one deployed or waiting, one built, one preempting, of which one is for another machine; one client; 1.1 million states (two clients with two generations, 4.7 million states, pass as well) |
| `builder` | `TypeOK`, `SingleTask`, `DeploysBuilt`, `CurrentIsStored`, `EvaluationsDoNotOverlap` | preemption is sound until a `Suspend` interferes, and the current generation and the evaluator are safe even then | three generations (running, preempting, preempting again), two build slots, one client, symmetry; 3.8 million states |
| `retention` | `TypeOK`, `UnderWayIsStored`, `RunningSystemIsKept`, `BootEntriesAreKept`, `RecentAreKept`, `RunsCurrentUnit`, `RebootIsKnown`, `BootedProfileIsKept` | what is kept over deployments, reboots, restarts and losses of the store; comin runs with its current unit and knows whether a reboot is needed | two systems with their own kernels and units, capacities 1, 2, 2, `MaxDeployments` 3, which exceeds each of them; 674 000 states |
| `repository` | `SelectedOnTopOfMain`, `SignatureIsOfSelected`, `DesignIsFollowed`, `OnlyVouchedIsVerified`, `DeployedMainAdvances` | the two loops compute the selection of `docs/design.md`, deployments do not go back except where a restart has lost the store, a commit is verified exactly when the configuration vouches for it, and no other is offered | two remotes with two branches each, four commits with a fork, one whose signature is of another commit; for the signatures, all configurations of up to one GPG key file and two lines, one of them fixed, and 261 signatures; 1.6 million states |
| `fetcher` | `UpdateReachesManager`, `EvaluatesSigned`, `OneWorker`, `RequestIsAwaited`, `EvaluatedMainAdvances` | no request forgotten, no update lost unless dropped, order and signatures kept | one remote, three commits, buffers of one event (1 and 5 in the code: a smaller buffer only drops earlier); 1.2 million states |
| `monitor` | `ViewIsCurrent`, `DeploymentIsShown`, `MetricsAreCurrent`, `StreamRecovers` | the terminal and the metrics agree with comin once their events have arrived, and the stream comes back | a channel of two events (5 in the code), so that events are dropped; six plans of what may begin (`Plans`), each with a restart, a cut stream or two requests; 717 000 states |

Runs that show that the code departs from what its documentation says, each with an
entry under `findings`:

| run | property | what happens |
|---|---|---|
| `deployer_nil_generation` | `GenerationAvailable` | two tokens for one generation: the runner dereferences nil |
| `manager_deadlock` | `ConfirmedIsTaken` | manager and confirmer send to each other |
| `builder_collected` | `NewCommitIsEvaluated` | the generation of the new commit is collected by the end of the preempted task |

Further departures, without a run of their own. Each formula is violated in the
instance named, when added to it:

| where | what | formula |
|---|---|---|
| `deployer.go:171` | a generation that equals the last but one deployment is skipped, so that a revert is not deployed, against the comment at `deployer.go:190` | `MCDeployer`: `pc = "idle" /\ ~isDeploying => \A p \in OutPaths, op \in Operations : IsAlreadyDeployed(p, op) => deployment = [outPath \|-> p, op \|-> op]` |
| `exec.go:65` | the end of a task falls between the two steps of `Exec.Wait`, and `Stop` does not return, against the comment at `builder.go:156` | `MCBuilder`: `evalWait = "blocked" => evalRun` |
| `deployer.go:164`, `222` | a token left by an earlier `Resume` ends a later suspension | `MCDeployer`: `[][AwaitResume => ~isSuspended]_vars` |
| `manager.go:276` | `os.Exit` while the next deployment is running | `MCDeployer`: `[][pc' = "exited" => pc # "deploy"]_vars` |
| `manager.go:147` | after a restart the deployer is suspended and `Resume` is refused | `MCDeployer`: `Alive /\ isSuspended /\ (\A c \in Clients : client[c] = "idle") => managerIsSuspended` |
| `store.go:247`, `run.go:86` | a `Commit` cut by a crash loses the suspension | `MCDeployer`: `[][~Alive /\ Alive' => isSuspended' = isSuspended]_vars` |
| `store.go:247`, `run.go:86` | and the main commit, after which a forced push is accepted | `MCRepository`: `[][deployed # None => deployed' # None]_deployed` |
| `deployer.go:240` | `isDeploying` stays set when the deployment is no longer in the store | `MCDeployer` with `MCDeployerLiveness.cfg`: `pc = "idle" => ~isDeploying` |
| `manager.go:134`, `147` | overlapping requests leave the manager suspended and the builder not | `MCDeployer` with two clients: `Alive /\ managerIsSuspended /\ (\A c \in Clients : client[c] = "idle") => builderIsSuspended` |
| `prometheus.go:117` | after a restart the metric says that the last deployment, which has failed, has not | `MCMonitor`: `MetricsAreCurrent` without its `deployer.deployment > restored` |
| `builder.go:276-281` | builds of one generation overlap when a `Resume` comes between the steps of `Stop` or `Suspend` | `MCManager`: `\A g \in Uuids : builds[g] < 2` |
| `manager.go:116`, `130` | a resubmission that has read the latest deployment brings it back after a newer one was deployed in between | `MCManager`: `[][deployed' >= deployed]_deployed` |
| `confirmer.go:148` | a tick overwrites a confirmation given in advance | `MCConfirmer`: `[][Tick => Confirmed \in {None, Submitted}]_vars` |
| `builder.go:272-283` | a build runs in a suspended builder | `MCBuilder`: `isSuspended => \A s \in Slots : ~buildRun[s]` |
| `builder.go:153`, `362` | builds overlap after a `Suspend` | `MCBuilder`: `\A s, t \in Slots : buildRun[s] /\ buildRun[t] => s = t` |
| `builder.go:249`, `manager.go:192` | a configuration for another machine is deployed when it is already built, against `docs/howtos.md:57` | `MCBuilder` with `Foreign = {g1}`: `deployable \intersect Foreign = {}` |
| `deployment.go:252` | one successful deployment less than the capacity is kept, as an updated deployment is counted twice | `MCRetention`: `MostRecent({d \in seen : Done(d)}, SuccessfulCapacity) \subseteq ToSet(dpls)` |
| `profile.go:46-68` | the default profile is removed when no deployment mentions it | `MCRetention`: `default # 0 => default \in DOMAIN profiles` |
| `broker.go:40` | an update whose event is dropped is never evaluated | `MCFetcher`: `UpdateReachesManager` without `~dropped` |
| `repository.go:187` | before the first main commit any testing commit is selected | `MCRepository`: `pc = "idle" /\ status.selected # None => status.main # None` |
| `repository.go:167` | the last main commit is the one selected last and not, as `docs/design.md:18` says, the one deployed last | `MCRepository`: `pc = "main" /\ remote = 1 => base = deployed` |

More that shows in the models, where a property leaves it aside or a comment names it:

* `Retention`: an activation that fails after it has changed comin's unit leaves the
  process running with the old one (`excused`); `needToReboot` is false after the store
  was lost; a failed deployment for the next boot still reports a reboot.
* `Manager`: an announcement that finds `BuildDone` or `EvaluationDone` full is dropped,
  the one of the newer generation included (`fate` "dropped"); a forced resubmission
  overwrites a newer generation that the runner has not taken (`deployer.go:202`);
  `Resume` builds without the build confirmer and the machine id (`builder.go:285-311`);
  a generation that waits for its confirmation may be collected, after which its
  confirmation is an error (`manager.go:218`); an evaluation that fails after its out
  path is known, and exists, is deployed.
* `Monitor`: a snapshot taken while the post deployment command runs shows "deploying"
  until the next deployment (`stale`); the need to reboot is never reset in the terminal
  and in the metrics, and not set in the metrics at the start; the suspensions of builder
  and deployer are in the snapshot only; the metric of the suspension is 0 after a restart
  with a suspended deployer; events before the metrics' subscription are missed.

And outside the models: `d.Reason` is read after the unlock (`deployer.go:233`);
`GetState` of the fetcher copies the status that the worker writes; two clients' `Suspend`
and `Resume` events may be published out of order; the gcroot of the generations follows
the one built last while an older one may still wait (`generation.go:247-279`);
`cloneRepoToTemp` leaves its directory behind on an error.

### Fairness

* `Deployer`: strong fairness of the runner and of a handler that has begun, as
  `sync.Mutex` hands itself over in order under contention; weak fairness of the manager's
  loop; the deployment script is taken to end; systemd restarts comin
  (`Restart = "always"` in the NixOS module).
* `Confirmer`: strong fairness of the tick. Commands may keep coming, but a `select`
  with several ready channels takes each of them with the same probability.
* `Builder`: weak fairness of the goroutines and of the commands, which are under a
  timeout.
* `Manager` (only for `manager_deadlock`): the loop goes on, and its `select`, which is
  random, takes each channel that stays ready, hence strong fairness of each receive.
* `Monitor`: weak fairness of the goroutines of comin and of the terminal; builds are
  under a timeout; systemd starts comin again.

### Deadlock

`Builder`, `Manager` and `Monitor` may stop: they begin a finite number of operations, and
in the first two the code itself may hang (`exec.go:65`, `manager_deadlock`). All other
runs check for deadlock.

## 4. The proofs

All theorems hold for every value of the constants under the named assumptions of the
modules.

* `DeployerProofs`: `TypeCorrect`, `NoGenerationStranded`, `NoResumeLost`,
  `DoneTookPlace`, `SuspensionSurvives`. The types need `Written`: what a step of the
  runner reads has been written before. `PendingIsSignalled` is inductive as it stands.
  `ResumeNotLost` needs `ResumeHoldsMutex`, that a client between `ResumeFlag` and
  `ResumeSignal` holds `d.mu`; it then holds for any number of concurrent clients.
  `DoneTookPlace` assumes that the clock does not step back, and uses
  `StoreFollowsRunner`, which ties the newest deployment in the store to the statement
  that the runner is about to execute. `SuspensionSurvives` assumes a single client (with
  two, overlapping requests may leave the flags of the manager, the builder and the
  deployer in disagreement) and, as the property does, that the end of the process has
  neither cut a `Commit` nor come between the setting of the flag and its writing.
  `FlagIsStored` is its invariant.
* `ConfirmerProofs`: `TypeCorrect`, `LatestIsDelivered`, `ManualIsConfirmed`,
  `CancelPrevails`, `AutoIsTimed`, from one invariant. Its parts beyond the properties are
  `DeliversSubmitted` (what is delivered is both submitted and confirmed) and
  `ConfirmedByUser` (in the mode Manual and after a Cancel no timer runs, and what is
  confirmed was confirmed by the user). `ConfirmerIsSlot` is the refinement: the same
  invariant makes every step of the confirmer a step of `Slot` or a stutter.
* `ManagerProofs`: `NoGenerationForgotten`, `HandedOverInOrder`, for any number of
  generations. The property alone is not inductive: the invariant orders all places where
  a generation can be. `BuildOrder` and `DeployOrder` say that what is further on its way
  is not newer than what comes behind it, and `Newest` that the generation of a new commit
  comes after all others; `Running` says that one evaluation or any number of builds run,
  all of the current generation and in accordance with its statuses, `Offers` that nothing
  empty is offered, and `Store` that the markers point into the store and one of them to the
  current generation, which is thus never collected. `Stops` is about `Eval` between its
  steps: no evaluation runs after `EvalStopped`, and a build that runs when `StartEval` comes
  has collected the generation of `Eval`. Any number of clients suspend and resume.
* `BuilderProofs`: `CurrentIsNeverCollected`, `EvaluationsAreSequential`, `TypeCorrect`,
  `OneTask`, `OnlyBuiltIsDeployable`. `StoreInv` says
  that the markers of the store point into it, that the current generation is the one
  whose evaluation started last, and that the slice which `NewGeneration` has read, and
  will assign after its append, misses none of the generations that are left: collections
  in between only remove some. The types need `RunnerHasGeneration`. The last two theorems
  are about builders that nobody has suspended; `TaskInv` says what that leaves: a
  build that runs is one that `Exec.Wait` waits for (`RunnerIsWaitedFor`), there is no other
  than the latest (`WaitedForIsLatest`), the evaluation is the one of the current
  generation (`EvaluatesCurrent`), and what `BuildDone` announces without an error exists
  (`AnnouncedIsBuilt`).
* `RetentionProofs`: `TypeCorrect`, `UnderWayIsNeverDropped`,
  `RunningSystemIsNeverDropped`, `BootedProfileIsNeverRemoved`,
  `BootEntriesAreNeverDropped`, `RecentAreNeverDropped`, `CurrentUnitRuns`,
  `RebootIsAlwaysKnown`: all that the run checks, for all capacities that the assumption
  admits and any number of deployments. The first half of the module is about `retention`
  on an arbitrary list: what each of its five steps keeps, what the result contains, that
  it is sorted and that it begins with the most recent deployment. `StoreInv`, the
  invariant of the store, is about the dates (`DateInv`), the links (`LinkInv`), the
  deployment under way (`UnderWayInv`: it is the first of the list, with the date of the
  clock) and the booted and current system, which the list always has (`RunningInv`).
  The two theorems about the history (`seen`) need `NeededInv`: all that is still `Needed`
  of it is in the list. This is inductive since a deployment that is dropped is never
  needed again: newer deployments only take others out of the set. `LinkedInv` adds that
  the boot entries have their links.
* `RepositoryProofs`: `TypeCorrect`, `SelectionIsOnTopOfMain`, `SignedIsSigned`,
  `NoDeploymentGoesBack`, `UpdateFollowsDesign`. The selected commit is only consistent with
  the main commit between two updates; the invariant is about the `Candidate`, the local
  variable if it is set and the old selection otherwise, which is on top of the main commit
  in each step. `NoDeploymentGoesBack` (with the exceptions that `DeployedMainAdvances`
  names, a restart that finds no main commit or after the clock was set back another one)
  uses that the deployed main commit is always behind the current one, and that the order of
  history is transitive. `UpdateFollowsDesign` rests on `LoopInv`, the invariants of the two
  loops: what the remotes passed so far cannot have served, and what the local variable
  tells about them. `VerdictIsOfText` and `VerifiedIsVouched` are about signatures, for
  every configuration and every signature. `SignersAre` and `SignerIs` say what is left of a
  line of the file once it is parsed, `GPGIsVouched` and `SSHIsVouched` that each
  verification succeeds exactly on what the text vouches for, and that the name it returns
  is not the empty one, which means unsigned; `ConfiguredIsRequired` that no file is reduced
  to the empty list, which means that nothing has to be signed. They assume that a file is a
  sequence of lines whose first field has a pattern (`LinesAssumption`) and that an error is
  not one of the values (`ErrorAssumption`); `VerifiedIsVouched` also that `Keys` and
  `Signed` are those of a configuration that `New` has read (`ConfigAssumption`), which none
  of the theorems above it needs.
* `FetcherProofs`, which extends `RepositoryProofs`: `WorkerIsUnique`,
  `NoRequestForgotten`, `OnlySignedIsEvaluated`, `UpdateIsDelivered`, `EvaluationsAdvance`,
  `DeploymentsAdvance`, `EvaluatedIsVouched`, `EvaluatedIsOnTopOfMain`,
  `FetchedFollowsDesign`. An event is a copy of a status that the worker may have replaced
  when it arrives, so that the invariant is about every event under way: it was verified
  with its own status (`EventsAreReported`), the main commits advance along the manager's
  channel, `publishCh` and the event to be published (`MainAdvancesAlong`), the deployed
  one is behind all of them (`DeployedIsBehind`; `DeploymentsAdvance` has the exceptions of
  `NoDeploymentGoesBack`), and no other update follows the last one
  reported (`LastUpdateIsLast`). Each event also carries a consistent selection
  (`OnTopOfMain`), so that the manager evaluates a commit on top of the main commit that
  comes with it, and one that the text of the configuration vouches for: this
  puts the verdict on signatures and the way of the events together.
* `MonitorProofs`: `EventsSettle`, `MetricsFollow`, `ViewFollows`, `DeploymentFollows`, for
  all capacities of the subscriber's channel and any number of operations, requests,
  restarts and cut streams. Each thing that is shown is told by events of some types, which
  one goroutine publishes and which keep their order on the way. `MonitorInv` says of each
  of these kinds, in the words of `Settled`: the last event on its way, in the goroutine, in
  `publishCh` or in the subscriber's channel, tells how things are now (`...Told`), and if
  there is none and none was missed, what is shown is current (`...Shown`). The latter
  includes the parts of a snapshot that were read and have not been shown yet, which is why
  it does not matter when they are read. A kind stays settled when events move
  (`WatchTells`), when things change and an event is published (`BuilderTells`,
  `DeployerTells`, `Emission`) and when a stream or the process begins or ends. The ten
  kinds differ in what is told and shown: the builder's events count five times, as they
  tell its two flags, the generation, and two gauges.

Strengthened invariants were checked by TLC on the instances before they were proved.
What recursive functions compute for every list (`Subsequence` in `Retention`) is
shown by induction over a set of natural numbers (`LeastNatural`, from the library's
`WFMin`, which also gives the first matching line of `commitSignedBySSH`), since the
provers cannot use the induction theorems about operators.

Only model-checked: the liveness properties `PendingIsTaken`, `AutoConfirms` and
`StreamRecovers`, since the prover handles neither fairness nor ENABLED. Every invariant
and every action property of a passing run is proved.

## 5. What is not modelled

The parsing of configuration files and of the output of `nix`; command lines; the commands
that only print; layout, log lines and the dates and counters of fetches in the terminal and
the metrics (`comin_fetch_count`, `comin_last_fetch_failed`), and the metric
`comin_build_info`; the HTTP endpoints, which only read; the post deployment command itself,
whose failure is only logged; the migration of old store files; Darwin, which runs the same
steps as Linux; the generated code of `pkg/protobuf`. A configuration that changes between
two starts is not modelled either.

## 6. Plan

Done: all parts of the pipeline, from the fetch to the deployment, its composition in
`Manager`, the confirmer's refinement of `Slot`, those who watch, and signatures. All
invariants and action properties of the runs are proved, and with `EvaluatedIsVouched` and
`ConfirmerIsSlot` what the parts promise each other.

Open: a theorem that joins `Fetcher` with `Manager`, which share the events of the fetcher
but have state machines of their own; and the liveness properties, with a prover that
handles ENABLED.
