---------------------------- MODULE MCRetention ----------------------------
(***************************************************************************)
(* An instance of Retention for TLC: two systems with different kernels    *)
(* and units, small capacities and enough deployments to exceed each of    *)
(* them.                                                                   *)
(***************************************************************************)
EXTENDS Retention

CONSTANTS a, b

KernelOfEach == [p \in OutPaths |-> p]
UnitOfEach == [p \in OutPaths |-> p]

PathSymmetry == Permutations(OutPaths)
=============================================================================
