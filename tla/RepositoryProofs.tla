-------------------------- MODULE RepositoryProofs --------------------------
(***************************************************************************)
(* Proofs about Repository, for every number of remotes, every history of  *)
(* commits and every set of keys.                                          *)
(*                                                                         *)
(* While Update is under way the commit that it will report is in its      *)
(* local variable, or still in the status when no branch has been usable   *)
(* so far.  The inductive invariant is about this candidate: it is on top  *)
(* of the main commit in every step of the two loops.  That the loops      *)
(* compute the selection of docs/design.md rests on a second invariant,    *)
(* one clause per statement of Update: what the remotes that have been     *)
(* passed cannot contain, and what the local variable tells about them.    *)
(***************************************************************************)
EXTENDS Verification, WellFoundedInduction, TLAPS

\* The commit that Update reports if no further branch is selected.
Candidate == IF chosen # None THEN chosen ELSE status.selected

CandidateOnTopOfMain ==
    Candidate # None =>
        /\ status.branch # None
        /\ status.main # None => Behind(status.main, Candidate)
        /\ status.branch[2] = "main" => Candidate = status.main

\* The local variable only lives as long as the worker, and its value is reported.
ChosenIsLocal ==
    /\ pc = "idle" => chosen = None
    /\ pc = "send" /\ chosen # None => status.selected = chosen

DeployedBehindMain ==
    deployed # None => status.main # None /\ Behind(deployed, status.main)

Inv ==
    /\ TypeOK
    /\ CandidateOnTopOfMain
    /\ ChosenIsLocal
    /\ DeployedBehindMain
    /\ SignatureIsOfSelected

USE DEF CommitId

-----------------------------------------------------------------------------
\* The order of commits in the history is transitive (Ancestors is the set of commits
\* that isAncestor finds).
LEMMA BehindTransitive ==
    ASSUME NEW c \in Commits, NEW d \in Commits, NEW e \in Commits,
           Behind(c, d), Behind(d, e)
    PROVE  Behind(c, e)
BY AncestorsAssumption DEF Behind

\* hasNotBeenHardReset admits exactly the commits at or on top of the main commit.
LEMMA NotHardReset ==
    ASSUME NEW main \in CommitId, NEW head \in Commits, hasNotBeenHardReset(main, head),
           main # None
    PROVE  Behind(main, head)
BY DEF hasNotBeenHardReset, isAncestor, Behind

\* The loop over the remotes stays within the configuration.
LEMMA AdvanceType ==
    ASSUME TypeOK, NEW from, NEW after, Advance(from, after)
    PROVE  remote' \in Remotes /\ pc' \in {from, after}
BY RemotesAssumption DEF TypeOK, Advance, Remotes

\* A selection, in either loop of Update, keeps the type of the status.
LEMMA SelectionType ==
    ASSUME TypeOK, NEW head \in CommitId, NEW b \in Branches, NEW main \in CommitId,
           Selection(head, b, main)
    PROVE  status' \in Status /\ chosen' \in CommitId
<1>1. <<remote, b>> \in Remotes \X Branches
  BY DEF TypeOK
<1> QED BY <1>1 DEF TypeOK, Selection, Status

\* The type invariant is inductive.
LEMMA TypeStep == TypeOK /\ [Next]_vars => TypeOK'
<1> SUFFICES ASSUME TypeOK, [Next]_vars PROVE TypeOK'
  OBVIOUS
<1> USE DEF Status, Branches, repositoryVars, workerVars
<1>1. CASE \E names \in (SUBSET Remotes) \ {{}} : FetchAndUpdate(names) /\ UNCHANGED deployed
  BY <1>1, RemotesAssumption DEF TypeOK, FetchAndUpdate, Remotes
<1>2. CASE Fetch
  <2>1. pc' \in {"fetch", "main"} /\ remote' \in Remotes
    BY <1>2, AdvanceType DEF Fetch
  <2>2. fetchError' \in [Remotes -> BOOLEAN]
    BY <1>2 DEF Fetch, TypeOK
  <2>3. refs' \in [Remotes -> [Branches -> CommitId]]
    <3>1. CASE refs' = refs
      BY <3>1 DEF TypeOK
    <3>2. CASE \E heads \in [Branches -> CommitId] :
                  refs' = [refs EXCEPT ![remote] = Fetched(@, heads)]
      <4>1. PICK heads \in [Branches -> CommitId] :
                  refs' = [refs EXCEPT ![remote] = Fetched(@, heads)]
        BY <3>2
      <4>2. Fetched(refs[remote], heads) \in [Branches -> CommitId]
        BY <4>1 DEF Fetched, TypeOK
      <4> QED BY <4>1, <4>2 DEF TypeOK
    <3> QED BY <1>2, <3>1, <3>2 DEF Fetch
  <2> QED BY <1>2, <2>1, <2>2, <2>3 DEF Fetch, TypeOK
<1>3. CASE UpdateMain
  <2>1. pc' \in {"main", "testing"} /\ remote' \in Remotes
    BY <1>3, AdvanceType, RemotesAssumption DEF UpdateMain, Break, Remotes
  <2>2. refs[remote]["main"] \in CommitId
    BY DEF TypeOK
  <2>3. status' \in Status /\ chosen' \in CommitId
    <3>1. CASE UNCHANGED <<status, chosen>>
      BY <3>1 DEF TypeOK
    <3>2. CASE \E main \in CommitId : Selection(refs[remote]["main"], "main", main)
      BY <2>2, <3>2, SelectionType
    <3>3. status.main \in CommitId
      BY DEF TypeOK
    <3> QED BY <1>3, <2>2, <3>1, <3>2, <3>3 DEF UpdateMain
  <2> QED BY <1>3, <2>1, <2>3 DEF UpdateMain, TypeOK
<1>4. CASE UpdateTesting
  <2>1. pc' \in {"testing", "verify"} /\ remote' \in Remotes
    BY <1>4, AdvanceType, RemotesAssumption DEF UpdateTesting, Break, Remotes
  <2>2. refs[remote]["testing"] \in CommitId
    BY DEF TypeOK
  <2>3. status' \in Status /\ chosen' \in CommitId
    <3>1. CASE UNCHANGED <<status, chosen>>
      BY <3>1 DEF TypeOK
    <3>2. CASE \E main \in CommitId : Selection(refs[remote]["testing"], "testing", main)
      BY <2>2, <3>2, SelectionType
    <3>3. status.main \in CommitId
      BY DEF TypeOK
    <3> QED BY <1>4, <2>2, <3>1, <3>2, <3>3 DEF UpdateTesting
  <2> QED BY <1>4, <2>1, <2>3 DEF UpdateTesting, TypeOK
<1>5. CASE UpdateSelected
  <2>1. (Keys /\ commitSignedBy(chosen)) \in BOOLEAN
    BY KeysAssumption DEF commitSignedBy
  <2>2. status' \in Status
    BY <1>5, <2>1 DEF UpdateSelected, TypeOK
  <2> QED BY <1>5, <2>2 DEF UpdateSelected, TypeOK
<1>6. CASE Reply /\ UNCHANGED deployed
  BY <1>6 DEF Reply, TypeOK
<1>7. CASE Deploy(status)
  BY <1>7 DEF Deploy, TypeOK
<1>8. CASE Restart
  <2>1. deployed' \in CommitId
    BY <1>8 DEF Restart, Remembered, TypeOK
  <2> QED BY <1>8, <2>1, RemotesAssumption
          DEF Restart, repositoryOpen, NewGitRepositoryStatus, Status, TypeOK, Remotes
<1>9. CASE UNCHANGED vars
  BY <1>9 DEF vars, TypeOK
<1> QED BY <1>1, <1>2, <1>3, <1>4, <1>5, <1>6, <1>7, <1>8, <1>9 DEF Next, Worker

-----------------------------------------------------------------------------
\* The heads that the loops of Update compare are commits once HasHead holds.
LEMMA HeadIsCommit ==
    ASSUME TypeOK, NEW b \in Branches, HasHead(refs, status.main, remote, b)
    PROVE  /\ refs[remote][b] \in Commits
           /\ status.main # None => Behind(status.main, refs[remote][b])
<1>1. refs[remote][b] \in CommitId /\ status.main \in CommitId
  BY DEF TypeOK, Status
<1>2. refs[remote][b] \in Commits
  BY <1>1, NoneAssumption DEF HasHead
<1>3. hasNotBeenHardReset(status.main, refs[remote][b])
  BY DEF HasHead
<1> QED BY <1>1, <1>2, <1>3, NotHardReset

\* The fields of the status after a selection.
LEMMA SelectionFields ==
    ASSUME TypeOK, NEW head, NEW b \in Branches, NEW main, Selection(head, b, main)
    PROVE  /\ chosen' = head
           /\ status'.branch = <<remote, b>> /\ status'.branch # None
           /\ status'.main = main
           /\ status'.selected = status.selected /\ status'.signed = status.signed
<1>1. <<remote, b>> # None
  BY NoneAssumption DEF TypeOK
<1> QED BY <1>1 DEF Selection, TypeOK, Status

\* Each step preserves the inductive invariant.
LEMMA InvStep == Inv /\ [Next]_vars => Inv'
<1> SUFFICES ASSUME Inv, [Next]_vars PROVE Inv'
  OBVIOUS
<1>0. TypeOK /\ TypeOK'
  BY TypeStep DEF Inv
<1>b. "main" \in Branches /\ "testing" \in Branches
  BY DEF Branches
<1>1. CASE \E names \in (SUBSET Remotes) \ {{}} : FetchAndUpdate(names) /\ UNCHANGED deployed
  BY <1>0, <1>1 DEF Inv, FetchAndUpdate, repositoryVars, CandidateOnTopOfMain, Candidate,
                    ChosenIsLocal, DeployedBehindMain, SignatureIsOfSelected, Behind
<1>2. CASE Fetch
  <2>1. pc' \in {"fetch", "main"}
    BY <1>0, <1>2, AdvanceType DEF Fetch
  <2> QED
    BY <1>0, <1>2, <2>1 DEF Inv, Fetch, CandidateOnTopOfMain, Candidate, ChosenIsLocal,
                            DeployedBehindMain, SignatureIsOfSelected, Behind
<1>3. CASE UpdateMain
  <2> DEFINE head == refs[remote]["main"]
  <2>1. pc' \in {"main", "testing"}
    BY <1>0, <1>3, AdvanceType DEF UpdateMain, Break
  <2>2. ChosenIsLocal'
    BY <2>1 DEF ChosenIsLocal
  <2>3. CASE UNCHANGED <<status, chosen>>
    BY <1>0, <1>3, <2>2, <2>3 DEF UpdateMain, Inv, CandidateOnTopOfMain, Candidate,
                                  DeployedBehindMain, SignatureIsOfSelected, Behind
  <2>4. CASE HasHead(refs, status.main, remote, "main") /\ Selection(head, "main", head)
    <3>1. head \in Commits /\ (status.main # None => Behind(status.main, head))
      BY <1>0, <2>4, HeadIsCommit DEF Branches
    <3>2. /\ chosen' = head /\ status'.branch = <<remote, "main">> /\ status'.branch # None
          /\ status'.main = head
          /\ status'.selected = status.selected /\ status'.signed = status.signed
      BY <1>0, <1>b, <2>4, SelectionFields
    <3>3. CandidateOnTopOfMain'
      BY <3>1, <3>2, NoneAssumption DEF CandidateOnTopOfMain, Candidate, Behind
    <3>4. DeployedBehindMain'
      <4>1. deployed' = deployed
        BY <1>3 DEF UpdateMain
      <4>2. deployed \in CommitId /\ status.main \in CommitId
        BY <1>0 DEF TypeOK, Status
      <4>3. ASSUME deployed # None PROVE Behind(deployed, head)
        BY <3>1, <4>2, <4>3, BehindTransitive DEF Inv, DeployedBehindMain
      <4> QED BY <3>1, <3>2, <4>1, <4>3, NoneAssumption DEF DeployedBehindMain, Behind
    <3>5. SignatureIsOfSelected'
      BY <3>2 DEF Inv, SignatureIsOfSelected
    <3> QED BY <1>0, <2>2, <3>3, <3>4, <3>5 DEF Inv
  <2> QED BY <1>3, <2>3, <2>4 DEF UpdateMain
<1>4. CASE UpdateTesting
  <2> DEFINE head == refs[remote]["testing"]
  <2>1. pc' \in {"testing", "verify"}
    BY <1>0, <1>4, AdvanceType DEF UpdateTesting, Break
  <2>2. ChosenIsLocal'
    BY <2>1 DEF ChosenIsLocal
  <2>3. CASE UNCHANGED <<status, chosen>>
    BY <1>0, <1>4, <2>2, <2>3 DEF UpdateTesting, Inv, CandidateOnTopOfMain, Candidate,
                                  DeployedBehindMain, SignatureIsOfSelected, Behind
  <2>4. CASE /\ HasHead(refs, status.main, remote, "testing")
             /\ Selection(head, "testing", status.main)
    <3>1. head \in Commits /\ (status.main # None => Behind(status.main, head))
      BY <1>0, <2>4, HeadIsCommit DEF Branches
    <3>2. /\ chosen' = head /\ status'.branch = <<remote, "testing">>
          /\ status'.branch # None /\ status'.main = status.main
          /\ status'.selected = status.selected /\ status'.signed = status.signed
      BY <1>0, <1>b, <2>4, SelectionFields
    <3>3. CandidateOnTopOfMain'
      BY <3>1, <3>2, NoneAssumption DEF CandidateOnTopOfMain, Candidate, Behind
    <3>4. DeployedBehindMain' /\ SignatureIsOfSelected'
      BY <1>4, <3>2 DEF UpdateTesting, Inv, DeployedBehindMain, SignatureIsOfSelected, Behind
    <3> QED BY <1>0, <2>2, <3>3, <3>4 DEF Inv
  <2> QED BY <1>4, <2>3, <2>4 DEF UpdateTesting
<1>5. CASE UpdateSelected
  <2>1. /\ status'.selected = Candidate /\ Candidate' = Candidate
        /\ status'.main = status.main /\ status'.branch = status.branch
        /\ status'.signed = (Keys /\ commitSignedBy(chosen))
    BY <1>0, <1>5 DEF UpdateSelected, TypeOK, Status, Candidate
  <2>2. CandidateOnTopOfMain'
    BY <2>1 DEF Inv, CandidateOnTopOfMain, Behind
  <2>3. ChosenIsLocal'
    BY <1>5, <2>1 DEF UpdateSelected, ChosenIsLocal, Candidate
  <2>4. DeployedBehindMain'
    BY <1>5, <2>1 DEF UpdateSelected, Inv, DeployedBehindMain, Behind
  <2>5. SignatureIsOfSelected'
    BY <2>1, CommitsAssumption, NoneAssumption DEF SignatureIsOfSelected, commitSignedBy, Candidate
  <2> QED BY <1>0, <2>2, <2>3, <2>4, <2>5 DEF Inv
<1>6. CASE Reply /\ UNCHANGED deployed
  BY <1>0, <1>6 DEF Inv, Reply, repositoryVars, CandidateOnTopOfMain, Candidate,
                    ChosenIsLocal, DeployedBehindMain, SignatureIsOfSelected, Behind
<1>7. CASE Deploy(status)
  BY <1>0, <1>7 DEF Inv, Deploy, repositoryVars, workerVars, CandidateOnTopOfMain, Candidate,
                    ChosenIsLocal, DeployedBehindMain, SignatureIsOfSelected, Behind
<1>8. CASE Restart
  BY <1>0, <1>8 DEF Inv, Restart, NewGitRepositoryStatus, CandidateOnTopOfMain, Candidate,
                    ChosenIsLocal, DeployedBehindMain, SignatureIsOfSelected, Behind
<1>9. CASE UNCHANGED vars
  BY <1>0, <1>9 DEF Inv, vars, repositoryVars, workerVars, CandidateOnTopOfMain, Candidate,
                    ChosenIsLocal, DeployedBehindMain, SignatureIsOfSelected, Behind
<1> QED BY <1>1, <1>2, <1>3, <1>4, <1>5, <1>6, <1>7, <1>8, <1>9 DEF Next, Worker

\* The repository of a first start satisfies the inductive invariant.
LEMMA InvInit == Init => Inv
BY RemotesAssumption DEF Init, Inv, TypeOK, Status, Branches, Remotes, NewGitRepositoryStatus,
       CandidateOnTopOfMain, Candidate, ChosenIsLocal, DeployedBehindMain,
       SignatureIsOfSelected

\* The inductive invariant holds in every reachable state of the worker.
LEMMA Invariant == Spec => []Inv
BY InvInit, InvStep, PTL DEF Spec

\* The repository's variables keep their types, restarts included.
THEOREM TypeCorrect == Spec => []TypeOK
<1>1. Inv => TypeOK
  BY DEF Inv
<1> QED BY <1>1, Invariant, PTL

\* What Update reports is the last main commit or a testing commit on top of it, for
\* any number of remotes and any history that they serve.
THEOREM SelectionIsOnTopOfMain == Spec => []SelectedOnTopOfMain
<1>1. Inv => SelectedOnTopOfMain
  BY DEF Inv, CandidateOnTopOfMain, Candidate, ChosenIsLocal, SelectedOnTopOfMain
<1> QED BY <1>1, Invariant, PTL

\* A status is only reported as signed with a commit that was signed.
THEOREM SignedIsSigned == Spec => []SignatureIsOfSelected
<1>1. Inv => SignatureIsOfSelected
  BY DEF Inv
<1> QED BY <1>1, Invariant, PTL

\* A restart leaves the last deployment as it was, unless it does not find it in the store
\* or the clock was set back.
LEMMA RestartRemembers ==
    ASSUME Restart, deployed' # deployed
    PROVE  deployed' = None \/ ClockStepsBack
BY DEF Restart, Remembered

\* The main commits of successive deployments follow the line of history, across
\* forced pushes, failed fetches and restarts that find the last deployment.
THEOREM NoDeploymentGoesBack == Spec => DeployedMainAdvances
<1>1. Inv /\ [Next]_vars =>
        [\/ Restart /\ (deployed' = None \/ ClockStepsBack)
         \/ deployed # None => deployed' # None /\ Behind(deployed, deployed')]_deployed
  <2> SUFFICES ASSUME Inv, [Next]_vars, deployed' # deployed, ~Restart
               PROVE  deployed # None => deployed' # None /\ Behind(deployed, deployed')
    BY RestartRemembers
  <2>1. Deploy(status)
    BY DEF Next, Worker, Fetch, UpdateMain, UpdateTesting, UpdateSelected, vars
  <2> QED BY <2>1 DEF Deploy, Inv, DeployedBehindMain
<1> QED BY <1>1, Invariant, PTL DEF Spec, DeployedMainAdvances

-----------------------------------------------------------------------------
(* The loops of Update and the selection of docs/design.md.                *)

\* The remotes among which the design chooses.
NewerMain == {r \in Available("main", base) : refs[r]["main"] # base}
NewerTesting ==
    {r \in Available("testing", DesignMain) \intersect Testing : refs[r]["testing"] # DesignMain}

LoopInv ==
    /\ pc = "fetch" => status.main = base /\ chosen = None
    /\ pc = "main" =>
          /\ status.main = base /\ chosen \in {None, base}
          /\ \A r \in NewerMain : remote <= r
          /\ \A r \in Available("main", base) : r < remote => chosen # None
    /\ pc = "testing" =>
          /\ status.main = DesignMain /\ chosen \in {None, DesignMain}
          /\ \A r \in NewerTesting : remote <= r
          /\ Available("main", base) # {} => chosen # None
    /\ pc \in {"verify", "send"} =>
          /\ status.main = DesignMain
          /\ Available("main", base) # {} => chosen # None /\ chosen = DesignSelected

\* The first remote of a set is the one that no other is before.
LEMMA FirstOfIs ==
    ASSUME NEW S \in SUBSET Remotes, NEW r \in S, \A s \in S : r <= s
    PROVE  FirstOf(S) = r
<1>1. FirstOf(S) \in S /\ \A s \in S : FirstOf(S) <= s
  BY DEF FirstOf
<1>2. \A m, n \in Remotes : m <= n /\ n <= m => m = n
  BY RemotesAssumption DEF Remotes
<1>3. FirstOf(S) <= r /\ r <= FirstOf(S) /\ FirstOf(S) \in Remotes /\ r \in Remotes
  BY <1>1
<1> QED BY <1>2, <1>3

\* The main commit of the design, and its testing commit.
LEMMA DesignMainIs ==
    ASSUME NEW r \in NewerMain, \A s \in NewerMain : r <= s
    PROVE  DesignMain = refs[r]["main"]
<1>1. FirstOf(NewerMain) = r
  BY FirstOfIs DEF NewerMain, Available
<1> QED BY <1>1 DEF DesignMain, NewerMain

LEMMA DesignMainStays == NewerMain = {} => DesignMain = base
BY DEF DesignMain, NewerMain

LEMMA DesignSelectedIs ==
    ASSUME NEW r \in NewerTesting, \A s \in NewerTesting : r <= s
    PROVE  DesignSelected = refs[r]["testing"]
<1>1. FirstOf(NewerTesting) = r
  BY FirstOfIs DEF NewerTesting, Available
<1> QED BY <1>1 DEF DesignSelected, NewerTesting

LEMMA DesignSelectedStays == NewerTesting = {} => DesignSelected = DesignMain
BY DEF DesignSelected, NewerTesting

\* The design only depends on what the fetches have left and on the main commit at the
\* start of the worker.
LEMMA DesignUnchanged ==
    ASSUME UNCHANGED <<refs, fetchError, base>>
    PROVE  UNCHANGED <<NewerMain, NewerTesting, DesignMain, DesignSelected,
                       Available("main", base)>>
<1>1. Available("main", base)' = Available("main", base) /\ NewerMain' = NewerMain
  BY DEF Available, HasHead, hasNotBeenHardReset, isAncestor, NewerMain
<1>2. DesignMain' = DesignMain
  BY DEF DesignMain, Available, HasHead, hasNotBeenHardReset, isAncestor
<1>3. NewerTesting' = NewerTesting
  BY <1>2 DEF NewerTesting, Available, HasHead, hasNotBeenHardReset, isAncestor
<1>4. DesignSelected' = DesignSelected
  BY <1>2 DEF DesignSelected, Available, HasHead, hasNotBeenHardReset, isAncestor
<1> QED BY <1>1, <1>2, <1>3, <1>4

\* One iteration of the loop over the main branches.
LEMMA UpdateMainLoop ==
    ASSUME Inv, LoopInv, UpdateMain
    PROVE  LoopInv'
<1> DEFINE head == refs[remote]["main"]
<1>0. TypeOK /\ "main" \in Branches /\ remote \in Remotes /\ status.main = base
      /\ NRemotes \in Nat \ {0} /\ Remotes = 1 .. NRemotes
  BY RemotesAssumption DEF Inv, TypeOK, Branches, LoopInv, UpdateMain, Remotes
<1>1. UNCHANGED <<NewerMain, NewerTesting, DesignMain, DesignSelected, Available("main", base)>>
      /\ UNCHANGED base
  BY DesignUnchanged DEF UpdateMain
<1>2. NewerMain \subseteq Remotes /\ NewerTesting \subseteq Remotes
      /\ Available("main", base) \subseteq Remotes
  BY DEF NewerMain, NewerTesting, Available
<1>3. ASSUME NewerMain \subseteq Remotes, remote \notin NewerMain, Advance("main", "testing"),
             status'.main = base, chosen' \in {None, base},
             \A r \in Available("main", base) : r <= remote => chosen' # None
      PROVE  LoopInv'
  <2>1. \A r \in NewerMain : remote + 1 <= r
    BY <1>0, <1>3 DEF LoopInv, UpdateMain
  <2>2. CASE remote = NRemotes
    <3>1. NewerMain = {}
      BY <1>0, <1>2, <2>1, <2>2
    <3>2. DesignMain = base
      BY <3>1, DesignMainStays
    <3>3. Available("main", base) # {} => chosen' # None
      BY <1>0, <1>2, <1>3, <2>2
    <3>4. pc' = "testing" /\ remote' = 1
      BY <1>3, <2>2 DEF Advance
    <3>5. \A r \in NewerTesting : 1 <= r
      BY <1>0, <1>2
    <3> QED BY <1>1, <1>3, <3>2, <3>3, <3>4, <3>5 DEF LoopInv
  <2>3. CASE remote # NRemotes
    <3>1. pc' = "main" /\ remote' = remote + 1
      BY <1>3, <2>3 DEF Advance
    <3>2. \A r \in Available("main", base) : r < remote + 1 => chosen' # None
      BY <1>0, <1>2, <1>3
    <3> QED BY <1>1, <1>3, <2>1, <3>1, <3>2 DEF LoopInv
  <2> QED BY <2>2, <2>3
<1>4. \A r \in Available("main", base) : r < remote => chosen # None
  BY DEF LoopInv, UpdateMain
<1>5. \A r \in Available("main", base) : r <= remote => r < remote \/ r = remote
  BY <1>0, <1>2
<1>6. CASE /\ fetchError[remote] \/ ~HasHead(refs, status.main, remote, "main")
           /\ UNCHANGED <<status, chosen>> /\ Advance("main", "testing")
  <2>1. remote \notin Available("main", base)
    BY <1>0, <1>6 DEF Available
  <2>2. remote \notin NewerMain
    BY <2>1 DEF NewerMain
  <2>3. chosen' \in {None, base}
    BY <1>6 DEF LoopInv, UpdateMain
  <2> QED BY <1>0, <1>2, <1>3, <1>4, <1>5, <1>6, <2>1, <2>2, <2>3
<1>7. CASE /\ ~fetchError[remote] /\ HasHead(refs, status.main, remote, "main")
           /\ head = status.main
           /\ IF chosen = None THEN Selection(head, "main", status.main)
                               ELSE UNCHANGED <<status, chosen>>
           /\ Advance("main", "testing")
  <2>1. remote \notin NewerMain
    BY <1>0, <1>7 DEF NewerMain
  <2>2. head # None
    BY <1>7 DEF HasHead
  <2>3. status'.main = base /\ chosen' # None /\ chosen' \in {None, base}
    BY <1>0, <1>7, <2>2, SelectionFields DEF LoopInv, UpdateMain
  <2> QED BY <1>2, <1>3, <1>7, <2>1, <2>3
<1>8. CASE /\ ~fetchError[remote] /\ HasHead(refs, status.main, remote, "main")
           /\ head # status.main
           /\ Selection(head, "main", head)
           /\ Break("testing")
  <2>1. remote \in NewerMain
    BY <1>0, <1>8 DEF NewerMain, Available
  <2>2. DesignMain = head
    BY <2>1, DesignMainIs DEF LoopInv, UpdateMain
  <2>3. chosen' = head /\ status'.main = head /\ head # None
    BY <1>0, <1>8, SelectionFields DEF HasHead
  <2>4. pc' = "testing" /\ remote' = 1
    BY <1>8 DEF Break
  <2>5. \A r \in NewerTesting : 1 <= r
    BY <1>0, <1>2
  <2> QED BY <1>1, <2>2, <2>3, <2>4, <2>5 DEF LoopInv
<1> QED BY <1>6, <1>7, <1>8 DEF UpdateMain

\* One iteration of the loop over the testing branches.
LEMMA UpdateTestingLoop ==
    ASSUME Inv, LoopInv, UpdateTesting
    PROVE  LoopInv'
<1> DEFINE head == refs[remote]["testing"]
           eligible == /\ ~fetchError[remote]
                       /\ remote \in Testing
                       /\ HasHead(refs, status.main, remote, "testing")
                       /\ head \notin {chosen, status.main}
<1>0. TypeOK /\ "testing" \in Branches /\ remote \in Remotes /\ status.main = DesignMain
      /\ chosen \in {None, DesignMain}
      /\ NRemotes \in Nat \ {0} /\ Remotes = 1 .. NRemotes
  BY RemotesAssumption DEF Inv, TypeOK, Branches, LoopInv, UpdateTesting, Remotes
<1>1. UNCHANGED <<NewerMain, NewerTesting, DesignMain, DesignSelected, Available("main", base)>>
      /\ UNCHANGED base
  BY DesignUnchanged DEF UpdateTesting
<1>2. NewerTesting \subseteq Remotes
  BY DEF NewerTesting, Available
<1>3. eligible <=> remote \in NewerTesting
  BY <1>0 DEF NewerTesting, Available, HasHead
<1>4. /\ \A r \in NewerTesting : remote <= r
      /\ Available("main", base) # {} => chosen # None
  BY DEF LoopInv, UpdateTesting
<1>5. CASE ~eligible /\ UNCHANGED <<status, chosen>> /\ Advance("testing", "verify")
  <2>1. \A r \in NewerTesting : remote + 1 <= r
    BY <1>0, <1>2, <1>3, <1>4, <1>5
  <2>2. CASE remote = NRemotes
    <3>1. NewerTesting = {}
      BY <1>0, <1>2, <2>1, <2>2
    <3>2. DesignSelected = DesignMain
      BY <3>1, DesignSelectedStays
    <3>3. pc' = "verify"
      BY <1>5, <2>2 DEF Advance
    <3> QED BY <1>0, <1>1, <1>4, <1>5, <3>2, <3>3 DEF LoopInv
  <2>3. CASE remote # NRemotes
    <3>1. pc' = "testing" /\ remote' = remote + 1
      BY <1>5, <2>3 DEF Advance
    <3> QED BY <1>0, <1>1, <1>4, <1>5, <2>1, <3>1 DEF LoopInv
  <2> QED BY <2>2, <2>3
<1>6. CASE eligible /\ Selection(head, "testing", status.main) /\ Break("verify")
  <2>1. DesignSelected = head
    BY <1>3, <1>4, <1>6, DesignSelectedIs
  <2>2. chosen' = head /\ status'.main = DesignMain /\ head # None
    BY <1>0, <1>6, SelectionFields DEF HasHead
  <2>3. pc' = "verify"
    BY <1>6 DEF Break
  <2> QED BY <1>1, <2>1, <2>2, <2>3 DEF LoopInv
<1> QED BY <1>5, <1>6 DEF UpdateTesting

\* The loop invariant is about the repository and the worker alone.
LEMMA LoopUnchanged ==
    ASSUME LoopInv, UNCHANGED <<repositoryVars, workerVars>>
    PROVE  LoopInv'
<1>1. /\ UNCHANGED <<NewerMain, NewerTesting, DesignMain, DesignSelected,
                     Available("main", base)>>
      /\ UNCHANGED <<pc, status, chosen, base, remote>>
  BY DesignUnchanged DEF repositoryVars, workerVars
<1> QED BY <1>1 DEF LoopInv

\* Each step preserves the loop invariant, given the first one.
LEMMA LoopStep == Inv /\ LoopInv /\ [Next]_vars => LoopInv'
<1> SUFFICES ASSUME Inv, LoopInv, [Next]_vars PROVE LoopInv'
  OBVIOUS
<1>1. CASE \E names \in (SUBSET Remotes) \ {{}} : FetchAndUpdate(names) /\ UNCHANGED deployed
  BY <1>1 DEF FetchAndUpdate, repositoryVars, LoopInv, Inv, ChosenIsLocal
<1>2. CASE Fetch
  <2>1. status.main = base /\ chosen = None /\ UNCHANGED <<status, chosen, base>>
    BY <1>2 DEF Fetch, LoopInv
  <2>2. \/ pc' = "fetch"
        \/ pc' = "main" /\ remote' = 1
    BY <1>2 DEF Fetch, Advance
  <2>3. \A r \in Remotes : 1 <= r /\ ~(r < 1)
    BY RemotesAssumption DEF Remotes
  <2>4. NewerMain' \subseteq Remotes /\ Available("main", base)' \subseteq Remotes
    BY DEF NewerMain, Available
  <2> QED BY <2>1, <2>2, <2>3, <2>4 DEF LoopInv
<1>3. CASE UpdateMain
  BY <1>3, UpdateMainLoop
<1>4. CASE UpdateTesting
  BY <1>4, UpdateTestingLoop
<1>5. CASE UpdateSelected
  <2>1. UNCHANGED <<DesignMain, DesignSelected, Available("main", base), chosen>>
    BY <1>5, DesignUnchanged DEF UpdateSelected
  <2>2. status'.main = status.main /\ pc = "verify" /\ pc' = "send"
    BY <1>5 DEF UpdateSelected, Inv, TypeOK, Status
  <2> QED BY <2>1, <2>2 DEF LoopInv
<1>6. CASE Reply \/ Restart
  BY <1>6 DEF Reply, Restart, LoopInv
<1>7. CASE pc = "idle" /\ Deploy(status)
  BY <1>7 DEF Deploy, workerVars, LoopInv
<1>8. CASE UNCHANGED vars
  BY <1>8, LoopUnchanged DEF vars
<1> QED BY <1>1, <1>2, <1>3, <1>4, <1>5, <1>6, <1>7, <1>8 DEF Next, Worker

\* The loop invariant holds in every reachable state.
LEMMA LoopInvariant == Spec => []LoopInv
<1>1. Init => LoopInv
  BY DEF Init, LoopInv
<1> QED BY <1>1, LoopStep, Invariant, PTL DEF Spec

\* The two loops of Update, with their breaks, failed remotes and old heads, compute the
\* selection of docs/design.md, for any number of remotes and any history.
THEOREM UpdateFollowsDesign == Spec => []DesignIsFollowed
<1>1. Inv /\ LoopInv => DesignIsFollowed
  BY DEF Inv, ChosenIsLocal, LoopInv, DesignIsFollowed
<1> QED BY <1>1, Invariant, LoopInvariant, PTL

-----------------------------------------------------------------------------
(* The verdict on a signature.                                             *)

\* A set of line numbers that is not empty has a first one.
LEMMA LeastNatural ==
    ASSUME NEW T \in SUBSET Nat, T # {}
    PROVE  \E m \in T : \A n \in T : m <= n
<1> DEFINE R == OpToRel(<, Nat)
<1>1. IsWellFoundedOn(R, Nat)
  BY NatLessThanWellFounded, Zenon
<1>2. PICK m \in T : \A n \in T : <<n, m>> \notin R
  BY <1>1, WFMin, Zenon
<1>3. \A n \in T : <<n, m>> \notin R => m <= n
  BY DEF OpToRel
<1> QED BY <1>2, <1>3, Zenon

\* The empty list has no elements.
LEMMA RangeOfEmpty == Range(<<>>) = {}
  BY DEF Range

\* What can be read of a line: its key, the name of the first pattern, which is not empty,
\* and namespaces that allow git exactly when the text of the options does.
LEMMA SignerIs ==
    ASSUME NEW line, 1 \in DOMAIN line.principals, Signer(line) # Error
    PROVE  /\ Signer(line).key = line.key
           /\ Signer(line).principal \notin {"", Error}
           /\ allowsNamespace(Signer(line), "git") <=>
                  \/ line.options = <<>>
                  \/ \E n \in {"git", "*"} :
                        /\ Len(line.options) = 1
                        /\ line.options[1].name = "namespaces"
                        /\ n \in Range(line.options[1].value)
<1> DEFINE principal == sshPrincipalFromPatternList(line.principals)
           namespaces == sshNamespacesFromOptions(line.options)
<1>1. /\ principal # Error /\ namespaces # Error
      /\ Signer(line) = [principal |-> principal, key |-> line.key, namespaces |-> namespaces]
  BY DEF Signer
<1>2. principal # ""
  <2>1. /\ \A p \in Range(line.principals) : isSupportedSSHPattern(p)
        /\ principal = line.principals[1]
    BY <1>1 DEF sshPrincipalFromPatternList
  <2>2. line.principals[1] \in Range(line.principals)
    BY DEF Range
  <2> QED BY <2>1, <2>2 DEF isSupportedSSHPattern
<1>3. /\ Signer(line).key = line.key
      /\ Signer(line).principal = principal
      /\ Signer(line).namespaces = namespaces
  BY <1>1
<1>4. allowsNamespace(Signer(line), "git") <=>
          namespaces = <<>> \/ \E n \in {"git", "*"} : n \in Range(namespaces)
  BY <1>3 DEF allowsNamespace
<1> DEFINE text == \E n \in {"git", "*"} :
                       /\ Len(line.options) = 1
                       /\ line.options[1].name = "namespaces"
                       /\ n \in Range(line.options[1].value)
<1>5. allowsNamespace(Signer(line), "git") <=> line.options = <<>> \/ text
  <2>1. CASE line.options = <<>>
    <3>1. namespaces = <<>>
      BY <2>1 DEF sshNamespacesFromOptions
    <3> QED BY <1>4, <2>1, <3>1
  <2>2. CASE line.options # <<>>
    <3>1. /\ Len(line.options) = 1 /\ IsNamespaces(line.options[1])
          /\ namespaces = line.options[1].value
      BY <1>1, <2>2 DEF sshNamespacesFromOptions
    <3> HIDE DEF namespaces
    <3> QED BY <1>4, <2>2, <3>1 DEF IsNamespaces
  <2> QED BY <2>1, <2>2
<1> HIDE DEF principal
<1> QED BY <1>1, <1>2, <1>3, <1>5

\* A file that is accepted has a signer, and the signer of every line that is not blank.
LEMMA SignersAre ==
    ASSUME NEW lines, parseSSHAllowedSigners(lines) # Error
    PROVE  LET signers == parseSSHAllowedSigners(lines)
               entries == {i \in DOMAIN lines : lines[i] # Blank}
           IN  /\ signers = [i \in entries |-> Signer(lines[i])]
               /\ entries # {} /\ signers # <<>>
               /\ \A i \in entries : Signer(lines[i]) # Error
<1> DEFINE signers == parseSSHAllowedSigners(lines)
           entries == {i \in DOMAIN lines : lines[i] # Blank}
<1>1. /\ signers = [i \in entries |-> Signer(lines[i])]
      /\ entries # {} /\ Error \notin Range(signers)
  BY DEF parseSSHAllowedSigners
<1>2. DOMAIN signers = entries /\ \A i \in entries : signers[i] = Signer(lines[i])
  BY <1>1
<1>3. signers # <<>>
  BY <1>1, <1>2
<1>4. \A i \in entries : signers[i] # Error
  BY <1>1, <1>2 DEF Range
<1> QED BY <1>1, <1>2, <1>3, <1>4

\* The keys of a configuration that New does not refuse.
LEMMA NewKeysAre ==
    ASSUME NEW config, NewKeys(config) # Error
    PROVE  /\ NewKeys(config).gpg = config.gpgPublicKeys
           /\ config.allowedSigners = Error => NewKeys(config).ssh = <<>>
           /\ config.allowedSigners # Error =>
                 /\ NewKeys(config).ssh = parseSSHAllowedSigners(config.allowedSigners)
                 /\ parseSSHAllowedSigners(config.allowedSigners) # Error
  BY DEF NewKeys

\* The two sources of a configuration vouch for a commit.
VouchedByGPG(config, commit) ==
    LET s == commit.signature IN
    s.type = "pgp" /\ s.over = commit.payload /\ s.by \in Range(config.gpgPublicKeys)

VouchedBySSH(config, commit) ==
    LET s == commit.signature IN
    /\ s.type = "ssh" /\ s.version = 1 /\ s.algorithm \notin {"ssh-rsa", "ssh-dss"}
    /\ \E hash \in Hashes : s.hash = hash /\ s.over = GitData(commit, hash)
    /\ s.namespace = "git" /\ s.publicKey = s.by
    /\ config.allowedSigners # Error
    /\ \E line \in Range(config.allowedSigners) \ {Blank} :
          /\ line.key = s.by
          /\ \/ line.options = <<>>
             \/ \E n \in {"git", "*"} :
                    /\ Len(line.options) = 1
                    /\ line.options[1].name = "namespaces"
                    /\ n \in Range(line.options[1].value)

LEMMA VouchedBySource ==
    ASSUME NEW config, NEW commit
    PROVE  Vouched(config, commit) <=> VouchedByGPG(config, commit) \/ VouchedBySSH(config, commit)
  BY DEF Vouched, VouchedByGPG, VouchedBySSH

\* The GPG verification succeeds for the commits that a GPG key vouches for.
LEMMA GPGIsVouched ==
    ASSUME NEW config, NEW commit
    PROVE  LET gpg == commitSignedByGPG(commit, config.gpgPublicKeys)
           IN  /\ gpg # Error <=> VouchedByGPG(config, commit)
               /\ gpg # ""
<1>1. "gpg" # Error /\ "" # Error
  BY ErrorAssumption
<1> QED BY <1>1 DEF commitSignedByGPG, VouchedByGPG, PrimaryIdentity

\* The SSH verification succeeds for the commits that a line of the file vouches for.
LEMMA SSHIsVouched ==
    ASSUME NEW config \in Configurations, NEW commit \in SignedCommits,
           config.allowedSigners # Error,
           parseSSHAllowedSigners(config.allowedSigners) # Error
    PROVE  LET ssh == commitSignedBySSH(commit, parseSSHAllowedSigners(config.allowedSigners))
           IN  /\ ssh # Error <=> VouchedBySSH(config, commit)
               /\ ssh # ""
<1> DEFINE lines == config.allowedSigners
           signers == parseSSHAllowedSigners(lines)
           entries == {i \in DOMAIN lines : lines[i] # Blank}
           s == commit.signature
           data == sshSignedData(s.namespace, s.hash, commit.payload)
           matches(i) == /\ allowsNamespace(signers[i], s.namespace)
                         /\ signers[i].key = s.publicKey
                         /\ s.by = signers[i].key /\ s.over = data
           matching == {i \in DOMAIN signers : matches(i)}
           first == CHOOSE i \in matching : \A j \in matching : i <= j
           readable == /\ s.type = "ssh" /\ parseSSHSignature(s)
                       /\ s.namespace = "git" /\ data # Error
           allows(line) == \/ line.options = <<>>
                           \/ \E n \in {"git", "*"} :
                                  /\ Len(line.options) = 1
                                  /\ line.options[1].name = "namespaces"
                                  /\ n \in Range(line.options[1].value)
           ssh == commitSignedBySSH(commit, signers)
<1>1. /\ DOMAIN signers = entries
      /\ \A i \in entries : signers[i] = Signer(lines[i]) /\ Signer(lines[i]) # Error
  BY SignersAre
<1>2. /\ entries \subseteq Nat
      /\ \A i \in entries : lines[i] \in Range(lines) \ {Blank} /\ 1 \in DOMAIN lines[i].principals
  BY LinesAssumption DEF Range
<1>3. \A i \in entries :
          /\ signers[i].key = lines[i].key
          /\ signers[i].principal \notin {"", Error}
          /\ allowsNamespace(signers[i], "git") <=> allows(lines[i])
  BY <1>1, <1>2, SignerIs
<1>4. /\ ssh # Error <=> readable /\ matching # {}
      /\ ssh # ""
  <2>1. ssh = IF readable /\ matching # {} THEN signers[first].principal ELSE Error
    BY DEF commitSignedBySSH
  <2>2. matching # {} => first \in entries
    <3>1. matching \in SUBSET Nat /\ matching \subseteq entries
      BY <1>1, <1>2
    <3>2. matching # {} => \E i \in matching : \A j \in matching : i <= j
      BY <3>1, LeastNatural
    <3>3. matching # {} => first \in matching
      BY <3>2
    <3> HIDE DEF matching, first, entries
    <3> QED BY <3>1, <3>3
  <2>3. "" # Error
    BY ErrorAssumption
  <2> HIDE DEF readable, matching, first, ssh, signers
  <2> QED BY <1>3, <2>1, <2>2, <2>3
<1>5. s.namespace = "git" =>
          /\ data # Error <=> s.hash \in Hashes
          /\ data # Error => data = GitData(commit, s.hash)
  BY ErrorAssumption DEF sshSignedData, GitData
<1>6. readable /\ matching # {} <=> VouchedBySSH(config, commit)
  <2>1. ASSUME readable, NEW i \in matching
        PROVE  VouchedBySSH(config, commit)
    <3>1. /\ i \in entries /\ lines[i].key = s.by /\ s.publicKey = s.by
          /\ s.over = data /\ allows(lines[i])
      BY <1>1, <1>3, <2>1
    <3>2. s.version = 1 /\ s.algorithm \notin {"ssh-rsa", "ssh-dss"}
      BY <2>1 DEF parseSSHSignature
    <3>3. s.hash \in Hashes /\ s.over = GitData(commit, s.hash)
      BY <1>5, <2>1, <3>1
    <3>4. lines[i] \in Range(lines) \ {Blank}
      BY <1>2, <3>1
    <3> HIDE DEF data
    <3> QED BY <2>1, <3>1, <3>2, <3>3, <3>4 DEF VouchedBySSH
  <2>2. ASSUME VouchedBySSH(config, commit)
        PROVE  readable /\ matching # {}
    <3>1. PICK line \in Range(lines) \ {Blank} : line.key = s.by /\ allows(line)
      BY <2>2 DEF VouchedBySSH
    <3>2. PICK i \in entries : lines[i] = line
      BY <3>1 DEF Range
    <3>3. /\ s.namespace = "git" /\ s.hash \in Hashes /\ s.over = GitData(commit, s.hash)
          /\ s.type = "ssh" /\ s.version = 1 /\ s.algorithm \notin {"ssh-rsa", "ssh-dss"}
          /\ s.publicKey = s.by
      BY <2>2 DEF VouchedBySSH
    <3>4. readable /\ s.over = data
      BY <1>5, <3>3 DEF parseSSHSignature
    <3>5. matches(i)
      BY <1>3, <3>1, <3>2, <3>3, <3>4
    <3> QED BY <1>1, <3>2, <3>4, <3>5
  <2> QED BY <2>1, <2>2
<1> QED BY <1>4, <1>6

\* No GPG key vouches for a commit when none is configured.
LEMMA GPGIsConfigured ==
    ASSUME NEW config, NEW commit, VouchedByGPG(config, commit)
    PROVE  config.gpgPublicKeys # <<>>
  BY RangeOfEmpty DEF VouchedByGPG

\* Commits have to be signed exactly when the configuration has a source of signatures.
LEMMA ConfiguredIsRequired ==
    ASSUME NEW config, NewKeys(config) # Error
    PROVE  ShouldBeSigned(NewKeys(config)) <=> IsConfigured(config)
  BY NewKeysAre, SignersAre DEF ShouldBeSigned, IsConfigured

\* The verdict of Update on a commit is the one of the configuration's text.
LEMMA Verdict ==
    ASSUME NEW config \in Configurations, NEW commit \in SignedCommits,
           NewKeys(config) # Error
    PROVE  IsSigned(commit, NewKeys(config)) <=> Vouched(config, commit)
<1> DEFINE keys == NewKeys(config)
           gpg == commitSignedByGPG(commit, config.gpgPublicKeys)
           ssh == commitSignedBySSH(commit, keys.ssh)
           signedByGPG == keys.gpg # <<>> /\ gpg # Error
           signedBySSH == keys.ssh # <<>> /\ ssh # Error
<1>1. /\ keys.gpg = config.gpgPublicKeys
      /\ keys.ssh # <<>> <=> config.allowedSigners # Error
      /\ config.allowedSigners # Error =>
            /\ keys.ssh = parseSSHAllowedSigners(config.allowedSigners)
            /\ parseSSHAllowedSigners(config.allowedSigners) # Error
  BY NewKeysAre, SignersAre
<1>2. gpg # "" /\ (signedByGPG <=> VouchedByGPG(config, commit))
  BY <1>1, GPGIsVouched, GPGIsConfigured
<1>3. /\ signedBySSH <=> VouchedBySSH(config, commit)
      /\ signedBySSH => ssh # ""
  <2>1. CASE config.allowedSigners = Error
    BY <1>1, <2>1 DEF VouchedBySSH
  <2>2. CASE config.allowedSigners # Error
    BY <1>1, <2>2, SSHIsVouched
  <2> QED BY <2>1, <2>2
<1>4. IsSigned(commit, keys) <=> signedByGPG \/ signedBySSH
  <2>1. SignedBy(commit, keys.gpg, keys.ssh) =
            IF signedByGPG THEN gpg ELSE IF signedBySSH THEN ssh ELSE ""
    <3> HIDE DEF keys
    <3> QED BY <1>1 DEF SignedBy
  <2> HIDE DEF gpg, ssh, keys
  <2> QED BY <1>2, <1>3, <2>1 DEF IsSigned
<1> QED BY <1>2, <1>3, <1>4, VouchedBySource

\* A configuration of GPG keys and allowed signers accepts exactly the commits that its
\* text vouches for, through the parsing of the file and the emptiness of what was parsed.
THEOREM VerdictIsOfText == VerdictIsVouched
  BY Verdict, ConfiguredIsRequired DEF VerdictIsVouched

\* What may be deployed in a state of Repository is vouched for by the configuration.
LEMMA SignedIsVouched ==
    ASSUME NEW c \in Signed
    PROVE  Vouched(Config, CommitObject(c))
<1>1. /\ Config \in Configurations /\ NewKeys(Config) # Error
      /\ CommitObject(c) \in SignedCommits /\ IsSigned(CommitObject(c), NewKeys(Config))
  BY ConfigAssumption
<1> QED BY <1>1, Verdict

\* "If services.comin.gpgPublicKeyPaths != [] or services.comin.sshAllowedSignersPath is
\* set, comin only evaluates commits signed by a configured commit-signing trust source":
\* Update verifies exactly these, for every configuration and every signature, and the
\* status of the repository never offers another commit.
THEOREM VerifiedIsVouched == Spec => []OnlyVouchedIsVerified
<1>1. IsConfigured(Config) => Keys
  BY ConfiguredIsRequired, ConfigAssumption
<1>2. Inv => OnlyVouchedIsVerified
  BY <1>1, VerdictIsOfText, SignedIsVouched
     DEF Inv, SignatureIsOfSelected, Verified, OnlyVouchedIsVerified
<1> QED BY <1>2, Invariant, PTL

=============================================================================
