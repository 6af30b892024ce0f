----------------------------- MODULE MCFetcher -----------------------------
(***************************************************************************)
(* An instance of Fetcher for TLC: a remote with a main and a testing      *)
(* branch, three commits of which c2 and d1 both follow c1 and d1 is not   *)
(* signed, and buffers of one event, so that events are dropped.           *)
(***************************************************************************)
EXTENDS Fetcher

CONSTANTS c1, c2, d1

MCAncestors == [c \in Commits |-> IF c = c1 THEN {} ELSE {c1}]
=============================================================================
