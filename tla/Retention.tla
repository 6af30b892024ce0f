----------------------------- MODULE Retention -----------------------------
(***************************************************************************)
(* The deployments that the store keeps (internal/store/deployment.go,     *)
(* store.go) and the system profiles that comin keeps with them            *)
(* (internal/profile/profile.go), over a sequence of deployments, restarts *)
(* of the process, reboots of the machine and losses of the store file.    *)
(*                                                                         *)
(* With them come the decisions that comin takes at the end of a           *)
(* deployment: whether it has to be restarted because its own unit file    *)
(* has changed (deployLinux in internal/executor/utils.go) and whether the *)
(* machine has to be rebooted (internal/utils/reboot.go).                  *)
(*                                                                         *)
(* The deployer (module Deployer) drives this module with one deployment   *)
(* at a time.  The list is sorted from newer to older; `at' is the         *)
(* creation date, 0 for a dummy deployment, which has none.  The clock     *)
(* does not step back here.  Two deployments are the same one when they    *)
(* have the same date, and two dummies when they have the same fields: the *)
(* code never adds a second such dummy to a list.                          *)
(***************************************************************************)
EXTENDS Naturals, SequencesExt

CONSTANTS
    OutPaths,             \* the store paths of systems
    Operations,           \* the computed operations
    KernelOf, UnitOf,     \* the kernel and comin's unit file of each system
    NoHash,               \* the empty string
    BootEntryCapacity, SuccessfulCapacity, AnyCapacity,
    MaxDeployments        \* a bound: deployments created in a behaviour

ASSUME RetentionAssumption ==
    /\ Operations \subseteq {"switch", "boot", "test", "null"}
    /\ BootEntryCapacity \in Nat \ {0} /\ SuccessfulCapacity \in Nat \ {0}
    /\ AnyCapacity \in Nat \ {0}
    /\ MaxDeployments \in Nat
    /\ DOMAIN KernelOf = OutPaths /\ DOMAIN UnitOf = OutPaths
    /\ NoHash \notin Range(UnitOf)

VARIABLES
    dpls,         \* s.persisted.Deployments
    clock,        \* the date of the latest deployment
    profiles,     \* comin-<n>-link |-> the store path it links to
    default,      \* the n of the link that the link comin points to; 0 if there is none
    booted, current,   \* the links /run/booted-system and /run/current-system
    \* The deployer's goroutine
    pc,
    read,         \* the current system that the deployer has read
    profilePath,  \* what SetSystemProfile returned, 0 for the empty string
    err,
    before,       \* beforeCominUnitFileHash
    restart,      \* needToRestartComin
    \* The manager
    done,         \* the one-place channel DeploymentDoneCh, as a set
    needToReboot,
    \* History
    unit,         \* the unit file that the running process was started with
    excused,      \* the unit file was changed by an activation that failed, or could
                  \* not be read
    seen          \* the deployments since the store was last empty, as a set

linkVars == <<profiles, default, booted, current>>
hashVars == <<before, restart, unit, excused>>
managerVars == <<done, needToReboot>>
deployerVars == <<pc, read, profilePath, err>>
vars == <<dpls, clock, linkVars, deployerVars, hashVars, managerVars, seen>>

Deployment ==
    [at: 0..MaxDeployments, outPath: OutPaths, op: {"switch", "boot", "test", "null"},
     status: {"init", "running", "done", "failed"}, profile: 0..MaxDeployments]

\* The types of the store's list, of the profile links and of the deployer's locals.
TypeOK ==
    /\ ToSet(dpls) \subseteq Deployment
    /\ \A i, j \in DOMAIN dpls : i < j => dpls[i] # dpls[j] /\ dpls[i].at >= dpls[j].at
    /\ clock \in 0..MaxDeployments
    /\ DOMAIN profiles \subseteq 1..MaxDeployments /\ Range(profiles) \subseteq OutPaths
    /\ default \in 0..MaxDeployments
    /\ booted \in OutPaths /\ current \in OutPaths
    /\ pc \in {"idle", "created", "running", "remove", "switch", "finish", "notify"}
    /\ read \in OutPaths /\ profilePath \in 0..MaxDeployments /\ err \in BOOLEAN
    /\ before \in Range(UnitOf) \union {NoHash} /\ unit \in Range(UnitOf)
    /\ restart \in BOOLEAN /\ excused \in BOOLEAN /\ needToReboot \in BOOLEAN
    /\ done \subseteq [outPath: OutPaths, op: {"switch", "boot", "test", "null"},
                       restart: BOOLEAN]
    /\ Cardinality(done) <= 1
    /\ seen \subseteq Deployment

-----------------------------------------------------------------------------
(* retention                                                               *)

isBootEntry(d) == d.op \in {"boot", "switch"}

Done(d) == d.status = "done"

Dummy(p, op) == [at |-> 0, outPath |-> p, op |-> op, status |-> "done", profile |-> 0]

\* The elements of a list at the indices of a set, in the order of the list.
Subsequence(list, I) ==
    LET sub[i \in 0..Len(list)] ==
            IF i = 0 THEN <<>>
            ELSE IF i \in I THEN Append(sub[i - 1], list[i]) ELSE sub[i - 1]
    IN  sub[Len(list)]

\* The elements of a list that pass a test.  (TLAPS does not know what SelectSeq is.)
Select(list, Test(_)) == Subsequence(list, {i \in DOMAIN list : Test(list[i])})

\* The list with d appended, sorted from newer to older.
Insert(list, d) ==
    Select(list, LAMBDA e : e.at >= d.at) \o <<d>> \o Select(list, LAMBDA e : e.at < d.at)

\* The list, with a dummy at its end if nothing in it passes the test.
Ensure(list, Test(_), dummy) ==
    IF \E d \in ToSet(list) : Test(d) THEN list ELSE Append(list, dummy)

First(list, Test(_)) == list[SelectInSeq(list, Test)]

Take(list, n) == SubSeq(list, 1, IF n < Len(list) THEN n ELSE Len(list))

\* Mutant of Distinct: a deployment that is updated stays in the list twice.
KeepDuplicates(list) == list

\* The deployments of a list, each once.
Distinct(list) ==
    Subsequence(list, {i \in DOMAIN list : \A j \in 1..(i - 1) : list[j] # list[i]})

\* Mutant of deploymentsBootEntry: one entry too few.
BootEntryTooFew(list) ==
    LET entries == Select(list, LAMBDA d : isBootEntry(d) /\ Done(d))
        pathsBefore(i) == {entries[j].outPath : j \in 1..(i - 1)}
        newPaths == {i \in DOMAIN entries : entries[i].outPath \notin pathsBefore(i)}
    IN  {entries[i] : i \in {k \in newPaths :
            Cardinality(pathsBefore(k)) + 1 < BootEntryCapacity}}

\* 3. The most recent boot entries with distinct store paths.
deploymentsBootEntry(list) ==
    LET entries == Select(list, LAMBDA d : isBootEntry(d) /\ Done(d))
        pathsBefore(i) == {entries[j].outPath : j \in 1..(i - 1)}
        newPaths == {i \in DOMAIN entries : entries[i].outPath \notin pathsBefore(i)}
    IN  {entries[i] : i \in {k \in newPaths :
            Cardinality(pathsBefore(k)) < BootEntryCapacity}}

\* Mutant of deploymentsSuccessful: a deployment of any status counts.
SuccessfulAny(list) == Take(list, SuccessfulCapacity)

\* 4. The most recent successful deployments.
deploymentsSuccessful(list) == Take(Select(list, Done), SuccessfulCapacity)

\* Mutant of deploymentsAny: the oldest deployments.
OldestAny(list) == Take(Reverse(list), AnyCapacity)

\* 5. The most recent deployments.
deploymentsAny(list) == Take(list, AnyCapacity)

IsBooted(d, boot) == isBootEntry(d) /\ Done(d) /\ d.outPath = boot

IsCurrent(d, cur) == Done(d) /\ d.outPath = cur

\* 1. and 2. The list with a deployment of the booted and one of the current system.
Completed(list, boot, cur) ==
    Ensure(Ensure(list, LAMBDA d : IsBooted(d, boot), Dummy(boot, "boot")),
           LAMBDA d : IsCurrent(d, cur), Dummy(cur, "switch"))

\* What the five steps add to the result.
Kept(all, boot, cur) ==
    <<First(all, LAMBDA d : IsBooted(d, boot)), First(all, LAMBDA d : IsCurrent(d, cur))>>
    \o Select(all, LAMBDA d : d \in deploymentsBootEntry(all))
    \o deploymentsSuccessful(all) \o deploymentsAny(all)

\* retention, of a list to which the new deployment has been added.  (The dummies of
\* the result, which have no date to be sorted by, stay in the order in which the
\* five steps add them.)
retention(list, boot, cur) ==
    LET all == Completed(list, boot, cur)
        kept == Kept(all, boot, cur)
    IN  Select(Distinct(all), LAMBDA d : d.at > 0 /\ Contains(kept, d))
        \o Select(Distinct(kept), LAMBDA d : d.at = 0)

\* updateDataDeployments, for a deployment that is new or, when it is updated, in the
\* list already: then it is in there twice.
updateDataDeployments(list, d, cur) == retention(Insert(list, d), booted, cur)

\* Mutant of Load: the lists are not updated.
LoadOnly(list, boot, cur) ==
    LET l1 == Ensure(list, LAMBDA d : d.outPath = boot, Dummy(boot, "boot"))
    IN  Ensure(l1, LAMBDA d : d.outPath = cur, Dummy(cur, "switch"))

\* Load: the list is completed with dummies for the systems it does not mention.
Load(list, boot, cur) ==
    LET l1 == Ensure(list, LAMBDA d : d.outPath = boot, Dummy(boot, "boot"))
        l2 == Ensure(l1, LAMBDA d : d.outPath = cur, Dummy(cur, "switch"))
    IN  retention(l2, boot, cur)

-----------------------------------------------------------------------------
(* The executor.                                                           *)

\* What cominUnitFileHashLinux may return: nothing when systemctl fails.
cominUnitFileHash(cur) == {UnitOf[cur], NoHash}

\* Mutant of NeedToReboot: the systems are compared, not what boots.
NeedToRebootOther(p, op, boot, cur) == p # cur

\* NeedToRebootLinux, when the links can be read.
NeedToReboot(p, op, boot, cur) ==
    IF op = "boot" THEN p # cur ELSE KernelOf[cur] # KernelOf[boot]

\* What Run computes from the last deployment, which a list of one has not.
RebootAtStart(list, boot, cur) ==
    Len(list) > 1 /\ NeedToReboot(list[1].outPath, list[1].op, boot, cur)

-----------------------------------------------------------------------------
Init ==
    /\ booted \in OutPaths /\ current = booted
    /\ dpls = Load(<<>>, booted, current)
    /\ clock = 0
    /\ profiles = <<>> /\ default = 0
    /\ pc = "idle" /\ read = booted /\ profilePath = 0 /\ err = FALSE
    /\ before = NoHash /\ restart = FALSE /\ unit = UnitOf[current] /\ excused = FALSE
    /\ done = {} /\ needToReboot = FALSE
    /\ seen = {}

\* The deployer reads the links and creates a deployment.
NewDeployment(p, op) ==
    /\ pc = "idle" /\ clock < MaxDeployments
    /\ clock' = clock + 1
    /\ LET d == [at |-> clock', outPath |-> p, op |-> op, status |-> "init", profile |-> 0]
       IN  /\ dpls' = updateDataDeployments(dpls, d, current)
           /\ seen' = seen \union {d}
    /\ read' = current
    /\ pc' = "created"
    /\ UNCHANGED <<linkVars, profilePath, err, hashVars, managerVars>>

\* The deployment under way, when the store still has it.
Latest == First(dpls, LAMBDA d : d.at = clock)

IsStored == \E d \in ToSet(dpls) : d.at = clock

\* The update of a deployment of the list.
Update(d) ==
    /\ dpls' = updateDataDeployments(ReplaceAll(dpls, Latest, d), d, read)
    /\ seen' = {e \in seen : e.at # d.at} \union {d}

DeploymentStarted ==
    /\ pc = "created" /\ IsStored
    /\ Update([Latest EXCEPT !.status = "running"])
    /\ pc' = "running"
    /\ UNCHANGED <<clock, linkVars, read, profilePath, err, hashVars, managerVars>>

\* nix-env --set: a new link, unless the last one links to the same path.
nixEnvSet(p) ==
    LET top == Max(DOMAIN profiles \union {0})
    IN  IF top > 0 /\ profiles[top] = p
        THEN default' = top /\ UNCHANGED profiles
        ELSE default' = top + 1 /\ profiles' = [n \in DOMAIN profiles \union {top + 1} |->
                                                 IF n = top + 1 THEN p ELSE profiles[n]]

\* The deployer calls deployerFunc, unless the operation is null: it reads the hash of
\* the unit file and sets the profile.
SetSystemProfile ==
    /\ pc = "running"
    /\ \/ /\ Latest.op = "null"
          /\ pc' = "finish"
          /\ UNCHANGED <<profiles, default, profilePath, err, before>>
       \/ /\ Latest.op = "test"
          /\ before' \in cominUnitFileHash(current)
          /\ pc' = "remove"
          /\ UNCHANGED <<profiles, default, profilePath, err>>
       \/ /\ isBootEntry(Latest)
          /\ before' \in cominUnitFileHash(current)
          /\ nixEnvSet(Latest.outPath)
          /\ profilePath' = default'
          /\ pc' = "remove"
          /\ UNCHANGED err
       \/ /\ isBootEntry(Latest)
          /\ err' = TRUE
          /\ pc' = "finish"
          /\ UNCHANGED <<profiles, default, profilePath, before>>
    /\ UNCHANGED <<dpls, clock, booted, current, read, restart, unit, excused, managerVars, seen>>

\* Mutant of Preserved: only the profiles of the store are preserved.
PreservedInStore(n) ==
    n = profilePath \/ \E d \in ToSet(dpls) : d.profile = n

\* The link is the one of a deployment or of the one under way, or links to the
\* booted system.  (The target of the link comin is added to the list of preserved
\* links as it is read, relative to the directory, and so equals no path of a link.)
Preserved(n) ==
    \/ n = profilePath
    \/ \E d \in ToSet(dpls) : d.profile = n
    \/ profiles[n] = booted

\* RemoveProfiles; it returns early when there is no link comin.
RemoveProfiles ==
    /\ pc = "remove"
    /\ profiles' = IF default = 0 THEN profiles
                   ELSE [n \in {m \in DOMAIN profiles : Preserved(m)} |-> profiles[n]]
    /\ pc' = "switch"
    /\ UNCHANGED <<dpls, clock, default, booted, current, read, profilePath, err, hashVars,
                   managerVars, seen>>

\* switchToConfigurationLinux: switch and test activate the new system, which a
\* failing call may have done as well.
Activate(failed) ==
    \/ Latest.op # "boot" /\ current' = Latest.outPath
    \/ (Latest.op = "boot" \/ failed) /\ UNCHANGED current

\* The activation, and the hash of the unit file after it when it succeeded.
SwitchToConfiguration ==
    /\ pc = "switch"
    /\ err' \in BOOLEAN
    /\ Activate(err')
    /\ \E after \in cominUnitFileHash(current') :
        /\ restart' = (~err' /\ before # after)
        /\ excused' = (\/ excused
                       \/ current' # current /\ (err' \/ (before = NoHash /\ after = NoHash)))
    /\ before' = NoHash
    /\ pc' = "finish"
    /\ UNCHANGED <<dpls, clock, profiles, default, booted, read, profilePath, unit,
                   managerVars, seen>>

\* Still with the links that were read before.
DeploymentFinished ==
    /\ pc = "finish" /\ IsStored
    /\ Update([Latest EXCEPT !.status = IF err THEN "failed" ELSE "done",
                             !.profile = profilePath])
    /\ pc' = "notify" /\ profilePath' = 0 /\ err' = FALSE
    /\ UNCHANGED <<clock, linkVars, read, hashVars, managerVars>>

\* The runner sends to DeploymentDoneCh, after the post deployment command.
Notify ==
    /\ pc = "notify" /\ done = {}
    /\ done' = {[outPath |-> Latest.outPath, op |-> Latest.op, restart |-> restart]}
    /\ restart' = FALSE
    /\ pc' = "idle"
    /\ UNCHANGED <<dpls, clock, linkVars, read, profilePath, err, before, unit, excused,
                   needToReboot, seen>>

\* comin starts with the deployments `list' of the state file.
Start(list, boot, cur) ==
    /\ booted' = boot /\ current' = cur
    /\ dpls' = list
    /\ pc' = "idle" /\ read' = boot /\ profilePath' = 0 /\ err' = FALSE
    /\ before' = NoHash /\ restart' = FALSE /\ unit' = UnitOf[cur] /\ excused' = FALSE
    /\ done' = {} /\ needToReboot' = RebootAtStart(list, boot, cur)
    /\ UNCHANGED <<clock, profiles, default>>

\* Mutant of ManagerReceive: comin is not restarted.
ManagerStays ==
    /\ done # {}
    /\ done' = {}
    /\ \E d \in done : needToReboot' = NeedToReboot(d.outPath, d.op, booted, current)
    /\ UNCHANGED <<dpls, clock, linkVars, deployerVars, hashVars, seen>>

\* The manager learns that a deployment has ended.  It may exit, whatever the runner
\* is doing by then, and systemd starts comin again.
ManagerReceive ==
    \E d \in done :
        \/ /\ ~d.restart
           /\ done' = {}
           /\ needToReboot' = NeedToReboot(d.outPath, d.op, booted, current)
           /\ UNCHANGED <<dpls, clock, linkVars, deployerVars, hashVars, seen>>
        \/ /\ d.restart
           /\ Start(Load(dpls, booted, current), booted, current)
           /\ UNCHANGED seen

\* The process is stopped in any state and started again.
Restart ==
    /\ Start(Load(dpls, booted, current), booted, current)
    /\ UNCHANGED seen

\* The machine boots one of the entries of the bootloader, or the same system as
\* before.
Reboot ==
    /\ \E p \in Range(profiles) \union {booted} : Start(Load(dpls, p, p), p, p)
    /\ UNCHANGED seen

\* The process is stopped while Commit writes the file: Load returns an error and
\* comin goes on with an empty store.
RestartWithoutStore ==
    /\ Start(<<>>, booted, current)
    /\ seen' = {}

Next ==
    \/ \E p \in OutPaths, op \in Operations : NewDeployment(p, op)
    \/ DeploymentStarted
    \/ SetSystemProfile
    \/ RemoveProfiles
    \/ SwitchToConfiguration
    \/ DeploymentFinished
    \/ Notify
    \/ ManagerReceive
    \/ Restart
    \/ Reboot
    \/ RestartWithoutStore

Spec == Init /\ [][Next]_vars

-----------------------------------------------------------------------------
(* Properties that hold.                                                   *)

\* The deployment under way is never dropped from the store, whatever the capacities
\* are: DeploymentStarted and DeploymentFinished find it, and the deployer does not
\* give up half way with isDeploying set.
UnderWayIsStored == pc # "idle" => IsStored

\* "comin always keep the current switched deployment and the current booted
\* deployment": whatever was deployed, booted or interrupted, the list has a boot
\* entry for the booted system and a deployment of the current one.
RunningSystemIsKept ==
    dpls # <<>> =>
        /\ \E d \in ToSet(dpls) : isBootEntry(d) /\ Done(d) /\ d.outPath = booted
        /\ \E d \in ToSet(dpls) : d.outPath = current

\* "in order to be able to always boot a working system": while a system is booted,
\* its link is not removed, even if the deployment that made it failed or the store
\* was lost.
BootedProfileIsKept ==
    [][booted' = booted /\ booted \in Range(profiles) => booted \in Range(profiles')]_vars

\* Successful deployments of `seen' that make a boot entry.
Bootable == {d \in seen : isBootEntry(d) /\ Done(d)}

\* The store paths deployed more recently than p, for the next boot.
MoreRecent(p) ==
    {d.outPath : d \in {e \in Bootable : \A f \in Bootable : f.outPath = p => f.at < e.at}}

\* "It also deduplicates storepaths in order to keep a minimum number of distinct
\* deployments": the last BootEntryCapacity distinct systems that were deployed for
\* the next boot are in the list, each with a link that exists.
BootEntriesAreKept ==
    \A p \in {d.outPath : d \in Bootable} :
        Cardinality(MoreRecent(p)) < BootEntryCapacity =>
            \E d \in ToSet(dpls) :
                /\ isBootEntry(d) /\ Done(d) /\ d.outPath = p
                /\ d.profile \in DOMAIN profiles /\ profiles[d.profile] = p

\* The n most recent deployments of a set.
MostRecent(S, n) == {d \in S : Cardinality({e \in S : e.at > d.at}) < n}

\* What is left of the documented capacities: one less than SuccessfulCapacity and
\* AnyCapacity, but for the deployment that was just created.
RecentAreKept ==
    /\ MostRecent({d \in seen : Done(d)}, SuccessfulCapacity - 1) \subseteq ToSet(dpls)
    /\ MostRecent(seen, AnyCapacity - 1) \subseteq ToSet(dpls)

\* "The comin service is restarted by comin itself when it detects the unit file
\* changed": when no deployment is under way and the manager has learned of the last
\* one, the running process is the one of the current system's unit, even if a second
\* deployment began before the process exited; unless an activation failed after it
\* had changed the unit, or the unit could not be read before and after it.
RunsCurrentUnit ==
    pc = "idle" /\ done = {} /\ ~excused => unit = UnitOf[current]

\* "Whether the host needs to reboot": when no deployment is under way, the last one
\* was not for the next boot and the store is not lost, the flag tells whether the
\* kernel of the current system has been booted, also after restarts and reboots.
RebootIsKnown ==
    pc = "idle" /\ done = {} /\ dpls # <<>> /\ dpls[1].op # "boot" =>
        (needToReboot <=> KernelOf[current] # KernelOf[booted])

=============================================================================
