----------------------------- MODULE MCManager -----------------------------
(***************************************************************************)
(* Instances of Manager for TLC: three generations, so that one is         *)
(* deployed or waits while a second is built and a third preempts it, of   *)
(* which one is meant for another machine.                                 *)
(***************************************************************************)
EXTENDS Manager
=============================================================================
