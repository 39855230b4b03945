---------------------------- MODULE MCAgentTurns ----------------------------
(* Instance for TLC: the process p1 has two threads, p2 has one. *)
EXTENDS AgentTurns, TLC

CONSTANTS p1, p2, t1, t2, t3

MCProcOf == t1 :> p1 @@ t2 :> p1 @@ t3 :> p2
=============================================================================
