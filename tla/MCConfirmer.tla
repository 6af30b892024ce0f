---------------------------- MODULE MCConfirmer ----------------------------
(***************************************************************************)
(* The confirmer in its three modes, with three generations: one that      *)
(* waits, one that replaces it and one that is confirmed in advance.       *)
(***************************************************************************)
EXTENDS Confirmer

CONSTANTS u1, u2, u3
=============================================================================
