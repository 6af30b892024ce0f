------------------------------ MODULE Executor ------------------------------
(***************************************************************************)
(* What the executor of comin (internal/executor) returns to the builder.  *)
(* An evaluation is a sequence of steps, each of which may fail and ends   *)
(* it; the steps before have then filled in their results, which are       *)
(* returned with the error.  All commands run under one context: when it   *)
(* is cancelled or times out, the one that runs fails, and the caller is   *)
(* given the error of the context even when the last one has succeeded.    *)
(***************************************************************************)
CONSTANT RepositoryType   \* the option repositoryType, which selects the executor

ASSUME ExecutorAssumption == RepositoryType \in {"flake", "nix"}

\* Whether a command succeeds.
runNixCommand == BOOLEAN
runNixFlakeCommand == BOOLEAN

\* A step after which another one is taken: whether both succeed.
AndThen(first, second) == {a /\ b : a \in first, b \in second}

\* What an evaluation returns: an error or not, and an out path or the empty string.
Result(err, outPath) == [err |-> err, outPath |-> outPath]

\* The output may be of neither format; a derivation may have no out path.
parseDerivationWithFlake == {Result(TRUE, FALSE), Result(FALSE, TRUE), Result(FALSE, FALSE)}

showDerivationWithFlake ==
    UNION {IF ok THEN parseDerivationWithFlake ELSE {Result(TRUE, FALSE)} :
            ok \in runNixFlakeCommand}

\* The id that the configuration expects, if any: whether it can be had.
getExpectedMachineId == AndThen(runNixFlakeCommand, BOOLEAN)

\* Eval of GitNixFlake.  An error of the second command leaves the out path of the first.
EvalWithFlake ==
    UNION {IF r.err THEN {r} ELSE {[r EXCEPT !.err = ~ok] : ok \in getExpectedMachineId} :
                r \in showDerivationWithFlake}

\* The commit is cloned and checked out, under no context.
cloneRepoToTemp == BOOLEAN

\* The first command makes the derivation; the output of the second one has the out path,
\* or too few lines or elements.
showDerivationWithNix ==
    {Result(~ok, ok) : ok \in AndThen(runNixCommand, AndThen(runNixCommand, BOOLEAN))}

\* Eval of GitNix.
EvalWithNix ==
    UNION {IF cloned THEN showDerivationWithNix ELSE {Result(TRUE, FALSE)} :
            cloned \in cloneRepoToTemp}

Evaluation == IF RepositoryType = "flake" THEN EvalWithFlake ELSE EvalWithNix

\* Whether the context is done when the last step returns: it was cancelled, or its
\* timeout is over.
ContextDone(cancelled) == {cancelled, TRUE}

\* What Exec keeps of an evaluation and of a build: whether it succeeded.
EvalResults(cancelled) ==
    {[r EXCEPT !.err = @ \/ done] : r \in Evaluation, done \in ContextDone(cancelled)}

buildWithFlake == runNixFlakeCommand
buildWithNix == runNixCommand
BuildCommand == IF RepositoryType = "flake" THEN buildWithFlake ELSE buildWithNix

BuildResults(cancelled) ==
    {ok /\ ~done : ok \in BuildCommand, done \in ContextDone(cancelled)}

\* Whether the out path is in the Nix store: an empty one is not, nor is one that no
\* build or substitution has produced yet.
isStorePathExist(outPath) == IF outPath THEN BOOLEAN ELSE {FALSE}
=============================================================================
