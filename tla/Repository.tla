----------------------------- MODULE Repository -----------------------------
(***************************************************************************)
(* The Git repository of comin (internal/repository): the worker goroutine *)
(* of FetchAndUpdate fetches some of the remotes, walks over the main      *)
(* branches and then over the testing branches of all remotes, in the      *)
(* order of the configuration, and selects the commit to deploy.  Each     *)
(* iteration of the loops is one step.                                     *)
(*                                                                         *)
(* What a remote serves is arbitrary: a fetch may fail, and the heads it   *)
(* finds may be new commits, older ones or the result of a forced push.    *)
(* The process may stop at any point.  It then starts again with the main  *)
(* commit of the last deployment, if it finds one in the store; the        *)
(* fetched references are on disk.                                         *)
(***************************************************************************)
EXTENDS Integers, FiniteSets

CONSTANTS
    NRemotes,   \* the number of remotes in the configuration, which orders them
    Testing,    \* the remotes whose testing branch has a name
    Commits,
    Ancestors,  \* the ancestors of each commit, without the commit itself
    Keys,       \* whether GPG keys or SSH signers are configured
    Signed,     \* the commits that one of these keys signed
    ClockStepsBack, \* whether the wall clock may be set back between deployments
    None        \* no commit, branch or reference: "" or nil in the code

Remotes == 1 .. NRemotes
Branches == {"main", "testing"}

ASSUME RemotesAssumption == NRemotes \in Nat \ {0} /\ Testing \subseteq Remotes
ASSUME CommitsAssumption == Signed \subseteq Commits
ASSUME NoneAssumption == None \notin Commits \union (Remotes \X Branches)
ASSUME KeysAssumption == Keys \in BOOLEAN
ASSUME ClockAssumption == ClockStepsBack \in BOOLEAN
ASSUME AncestorsAssumption ==
    /\ Ancestors \in [Commits -> SUBSET Commits]
    /\ \A c \in Commits : c \notin Ancestors[c]
    /\ \A c \in Commits : \A d \in Ancestors[c] : Ancestors[d] \subseteq Ancestors[c]

CommitId == Commits \union {None}

\* RepositoryStatus: the last main commit, and the selected commit with its remote
\* and branch (SelectedBranchIsTesting is the second part of branch) and signature.
Status ==
    [main: CommitId, selected: CommitId,
     branch: (Remotes \X Branches) \union {None}, signed: BOOLEAN]

VARIABLES
    refs,        \* refs/remotes/<remote>/<branch> of the local repository
    fetchError,  \* whether the last fetch of a remote failed (FetchErrorMsg # "")
    status,      \* r.RepositoryStatus
    pc,          \* the worker: "idle", or the statement it is about to execute
    remoteNames, \* the remotes that this worker fetches
    remote,      \* its position in the loop over the remotes
    chosen,      \* its variable selectedCommitId
    deployed,    \* the main commit of the last deployment that the store remembers
    base         \* history: the main commit when the worker began

repositoryVars == <<refs, fetchError, status>>
workerVars == <<pc, remoteNames, remote, chosen, base>>
vars == <<repositoryVars, workerVars, deployed>>

\* isAncestor walks over the log of top and skips its first commit, top itself.
isAncestor(base_, top) == base_ \in Ancestors[top]

\* Mutant of hasNotBeenHardReset: the result of isAncestor is ignored.
HardResetIgnored(main, head) == TRUE

\* hasNotBeenHardReset, without an error: there is no main commit yet, or head is
\* the main commit or a descendant.
hasNotBeenHardReset(main, head) == main = None \/ main = head \/ isAncestor(main, head)

\* getHeadFromRemoteAndBranch, without an error.
HasHead(heads, main, r, b) == heads[r][b] # None /\ hasNotBeenHardReset(main, heads[r][b])

\* New: mainCommitId is read from the store, the rest of the status is empty.
NewGitRepositoryStatus(mainCommitId) ==
    [main |-> mainCommitId, selected |-> None, branch |-> None, signed |-> FALSE]

\* The types of the references, of the RepositoryStatus and of the worker's locals; the
\* loops over r.GitConfig.Remotes and RepositoryStatus.Remotes stay within them.
TypeOK ==
    /\ refs \in [Remotes -> [Branches -> CommitId]]
    /\ fetchError \in [Remotes -> BOOLEAN]
    /\ status \in Status
    /\ pc \in {"idle", "fetch", "main", "testing", "verify", "send"}
    /\ remoteNames \in SUBSET Remotes
    /\ remote \in Remotes
    /\ chosen \in CommitId /\ deployed \in CommitId /\ base \in CommitId

Init ==
    /\ refs = [r \in Remotes |-> [b \in Branches |-> None]]
    /\ fetchError = [r \in Remotes |-> FALSE]
    /\ status = NewGitRepositoryStatus(None)
    /\ pc = "idle" /\ remoteNames = {} /\ remote = 1
    /\ chosen = None /\ deployed = None /\ base = None

-----------------------------------------------------------------------------
\* The end of an iteration of the loop `from`: the next remote, or the statement
\* after the loop.
Advance(from, after) ==
    /\ pc' = IF remote = NRemotes THEN after ELSE from
    /\ remote' = IF remote = NRemotes THEN 1 ELSE remote + 1

\* break: the loop ends.
Break(after) == pc' = after /\ remote' = 1

\* The goroutine of FetchAndUpdate starts.
FetchAndUpdate(names) ==
    /\ pc = "idle"
    /\ pc' = "fetch"
    /\ remote' = 1
    /\ remoteNames' = names
    /\ base' = status.main
    /\ UNCHANGED <<repositoryVars, chosen>>

\* The references after a fetch that finds these heads: forced updates are followed,
\* and the reference of a branch that the remote has deleted stays.
Fetched(old, heads) == [b \in Branches |-> IF heads[b] = None THEN old[b] ELSE heads[b]]

\* One iteration of Fetch, with the outcomes of fetch: an error or new heads.
Fetch ==
    /\ pc = "fetch"
    /\ \/ remote \notin remoteNames /\ UNCHANGED <<refs, fetchError>>
       \/ /\ remote \in remoteNames
          /\ fetchError' = [fetchError EXCEPT ![remote] = TRUE]
          /\ refs' = refs
       \/ /\ remote \in remoteNames
          /\ fetchError' = [fetchError EXCEPT ![remote] = FALSE]
          /\ \E heads \in [Branches -> CommitId] :
                refs' = [refs EXCEPT ![remote] = Fetched(@, heads)]
    /\ Advance("fetch", "main")
    /\ UNCHANGED <<status, remoteNames, chosen, base, deployed>>

\* Select head on this branch of the remote at hand.
Selection(head, b, main) ==
    /\ chosen' = head
    /\ status' = [status EXCEPT !.branch = <<remote, b>>, !.main = main]

\* The first loop without its break.
UpdateMainOnwards ==
    LET usable == ~fetchError[remote] /\ HasHead(refs, status.main, remote, "main")
        head == refs[remote]["main"]
    IN
    /\ pc = "main"
    /\ IF usable /\ (chosen = None \/ head # status.main)
          THEN Selection(head, "main", head)
          ELSE UNCHANGED <<status, chosen>>
    /\ Advance("main", "testing")
    /\ UNCHANGED <<refs, fetchError, remoteNames, base, deployed>>

\* One iteration of the first loop of Update, over the main branches.
UpdateMain ==
    LET head == refs[remote]["main"] IN
    /\ pc = "main"
    /\ \/ /\ fetchError[remote] \/ ~HasHead(refs, status.main, remote, "main")
          /\ UNCHANGED <<status, chosen>>
          /\ Advance("main", "testing")
       \/ /\ ~fetchError[remote] /\ HasHead(refs, status.main, remote, "main")
          /\ head = status.main
          /\ IF chosen = None THEN Selection(head, "main", status.main)
                              ELSE UNCHANGED <<status, chosen>>
          /\ Advance("main", "testing")
       \/ /\ ~fetchError[remote] /\ HasHead(refs, status.main, remote, "main")
          /\ head # status.main
          /\ Selection(head, "main", head)
          /\ Break("testing")
    /\ UNCHANGED <<refs, fetchError, remoteNames, base, deployed>>

\* The second loop with the main commit that was current when the worker began.
UpdateTestingStale ==
    LET head == refs[remote]["testing"]
        eligible == /\ ~fetchError[remote]
                    /\ remote \in Testing
                    /\ HasHead(refs, base, remote, "testing")
                    /\ head \notin {chosen, base}
    IN
    /\ pc = "testing"
    /\ \/ ~eligible /\ UNCHANGED <<status, chosen>> /\ Advance("testing", "verify")
       \/ eligible /\ Selection(head, "testing", status.main) /\ Break("verify")
    /\ UNCHANGED <<refs, fetchError, remoteNames, base, deployed>>

\* One iteration of the second loop of Update, over the testing branches.
UpdateTesting ==
    LET head == refs[remote]["testing"]
        eligible == /\ ~fetchError[remote]
                    /\ remote \in Testing
                    /\ HasHead(refs, status.main, remote, "testing")
                    /\ head \notin {chosen, status.main}
    IN
    /\ pc = "testing"
    /\ \/ ~eligible /\ UNCHANGED <<status, chosen>> /\ Advance("testing", "verify")
       \/ eligible /\ Selection(head, "testing", status.main) /\ Break("verify")
    /\ UNCHANGED <<refs, fetchError, remoteNames, base, deployed>>

\* commitSignedBy: an error, for an unsigned or an empty commit id, is "".
commitSignedBy(c) == c \in Signed

\* The signature is only ever set, and not reset for another commit.
UpdateSelectedKeepsSigned ==
    /\ pc = "verify"
    /\ pc' = "send"
    /\ status' = [status EXCEPT !.selected = IF chosen # None THEN chosen ELSE @,
                                !.signed = Keys /\ (@ \/ commitSignedBy(chosen))]
    /\ UNCHANGED <<refs, fetchError, remoteNames, remote, chosen, base, deployed>>

\* The end of Update.  The signature is the one of the local variable, also when it
\* is empty and the selected commit stays.
UpdateSelected ==
    /\ pc = "verify"
    /\ pc' = "send"
    /\ status' = [status EXCEPT !.selected = IF chosen # None THEN chosen ELSE @,
                                !.signed = Keys /\ commitSignedBy(chosen)]
    /\ UNCHANGED <<refs, fetchError, remoteNames, remote, chosen, base, deployed>>

\* rsCh <- RepositoryStatus: the fetcher receives a copy and the worker ends.
Reply ==
    /\ pc = "send"
    /\ pc' = "idle"
    /\ remoteNames' = {} /\ chosen' = None /\ base' = None
    /\ UNCHANGED <<repositoryVars, remote>>

\* Whether the status s may be deployed: SelectedCommitShouldBeSigned is Keys.
Verified(s) == ~Keys \/ s.signed

\* A generation with this status is deployed: its main commit is now in the store.
Deploy(s) ==
    /\ s.selected # None /\ Verified(s)
    /\ deployed' = s.main
    /\ UNCHANGED <<repositoryVars, workerVars>>

\* repositoryOpen and manageRemotes with the configuration of the previous start:
\* the repository exists and is opened with the references it has.
repositoryOpen == UNCHANGED refs

\* The main commits that LastDeployment may give after a restart: that of the last
\* deployment; none, when the file of the store cannot be read because a Commit was cut,
\* or when no deployment is retained but that of the booted and current system; or that
\* of an earlier deployment, which comes first in the list when the clock was set back.
Remembered == {deployed, None} \union (IF ClockStepsBack THEN Commits ELSE {})

\* The process stops and starts again (runCmd, repository.New).
Restart ==
    /\ fetchError' = [r \in Remotes |-> FALSE]
    /\ deployed' \in Remembered
    /\ status' = NewGitRepositoryStatus(deployed')
    /\ pc' = "idle" /\ remoteNames' = {} /\ remote' = 1
    /\ chosen' = None /\ base' = None
    /\ repositoryOpen

Worker == Fetch \/ UpdateMain \/ UpdateTesting \/ UpdateSelected

Next ==
    \/ \E names \in (SUBSET Remotes) \ {{}} : FetchAndUpdate(names) /\ UNCHANGED deployed
    \/ Worker
    \/ Reply /\ UNCHANGED deployed
    \/ pc = "idle" /\ Deploy(status)
    \/ Restart

Spec == Init /\ [][Next]_vars

-----------------------------------------------------------------------------
(* Properties.                                                             *)

\* c is at or behind d in the history.
Behind(c, d) == c = d \/ c \in Ancestors[d]

\* "only allow testing branches on top of main branches" (docs/design.md): what
\* Update has reported is the last main commit itself or a testing commit on top of
\* it, although the two are written in different loops, from remotes of which some
\* have failed, and a turn that finds nothing keeps the commit of an earlier one.
\* (Before the first main commit, any testing commit is taken.)
SelectedOnTopOfMain ==
    pc = "idle" /\ status.selected # None =>
        /\ status.main # None => Behind(status.main, status.selected)
        /\ status.branch[2] = "main" => status.selected = status.main

\* "refuse commits push-forced to main branches": the main commits of successive
\* deployments never leave the line of history, whatever the remotes serve and
\* wherever the process is restarted between two deployments; except that a restart
\* that finds no deployment in the store, or after the clock was set back an earlier
\* one, starts over from there.
DeployedMainAdvances ==
    [][\/ Restart /\ (deployed' = None \/ ClockStepsBack)
       \/ deployed # None => deployed' # None /\ Behind(deployed, deployed')]_deployed

\* A commit that Update reports as signed is signed, also when the turn before has
\* selected a signed commit and this one selects another or nothing.
SignatureIsOfSelected == status.signed => status.selected \in Signed

\* The remotes that are not skipped, with a head of this branch at or on top of c.
Available(b, c) == {r \in Remotes : ~fetchError[r] /\ HasHead(refs, c, r, b)}
FirstOf(S) == CHOOSE r \in S : \A s \in S : r <= s

\* The selection algorithm as docs/design.md states it, starting from the last main
\* commit: the first main commit on top of it, or else itself; then the first
\* testing commit on top of the main commit chosen, or else this one.
DesignMain ==
    LET newer == {r \in Available("main", base) : refs[r]["main"] # base}
    IN IF newer # {} THEN refs[FirstOf(newer)]["main"] ELSE base

DesignSelected ==
    LET newer == {r \in Available("testing", DesignMain) \intersect Testing :
                    refs[r]["testing"] # DesignMain}
    IN IF newer # {} THEN refs[FirstOf(newer)]["testing"] ELSE DesignMain

\* The two loops of Update compute the selection of docs/design.md, whenever some
\* main branch can be used.
DesignIsFollowed ==
    pc = "send" /\ Available("main", base) # {} =>
        status.main = DesignMain /\ status.selected = DesignSelected

=============================================================================
