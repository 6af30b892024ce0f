----------------------------- MODULE MCMonitor -----------------------------
(***************************************************************************)
(* An instance of Monitor for TLC: channels that fill up, a generation     *)
(* with a Suspend and a Resume, two deployments, a generation with a       *)
(* deployment and a fetch, each with a restart or a cut stream.            *)
(***************************************************************************)
EXTENDS Monitor

MCPlan(e, b, d, f, r, s) ==
    [eval |-> e, build |-> b, deployment |-> d, fetch |-> f, request |-> r, stop |-> s]

MCPlans ==
    {MCPlan(2, 1, 0, 0, 0, 1), MCPlan(1, 0, 0, 0, 2, 0), MCPlan(1, 0, 0, 0, 1, 1),
     MCPlan(0, 0, 2, 0, 0, 1), MCPlan(0, 0, 1, 0, 1, 0), MCPlan(0, 0, 0, 1, 1, 1)}
=============================================================================
