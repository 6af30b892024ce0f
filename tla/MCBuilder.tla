----------------------------- MODULE MCBuilder -----------------------------
(***************************************************************************)
(* Instances of Builder for TLC: up to three generations, of which one may *)
(* be meant for another machine, at most one client that suspends and      *)
(* resumes, and two builds whose goroutines overlap.                       *)
(***************************************************************************)
EXTENDS Builder, TLC

CONSTANTS g1, g2, g3, s1, s2, c1

\* Generations and slots are interchangeable.
BuilderSymmetry == Permutations(Generations) \union Permutations(Slots)
=============================================================================
