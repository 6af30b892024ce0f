----------------------------- MODULE MCDeployer -----------------------------
(***************************************************************************)
(* Instances of Deployer for TLC: up to three out paths, of which b is     *)
(* from a testing branch and differs from the others in a switch           *)
(* inhibitor, so that every computed operation occurs and the running      *)
(* system can change, and one client.                                      *)
(***************************************************************************)
EXTENDS Deployer

CONSTANTS a, b, d, c1

MCInhibitors ==
    [p \in OutPaths |-> IF p = b THEN [systemd |-> 2, dbus |-> 1] ELSE [systemd |-> 1]]
=============================================================================
