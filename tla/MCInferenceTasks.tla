-------------------------- MODULE MCInferenceTasks --------------------------
(***************************************************************************)
(* Small instance of InferenceTasks: two workers of one harness and two    *)
(* tasks, one of them bound to no provider.                                *)
(***************************************************************************)
EXTENDS InferenceTasks, TLC

CONSTANTS t1, t2, w1, w2, hermes, gemini

MCRuns  == w1 :> hermes @@ w2 :> hermes
MCNeeds == t1 :> hermes @@ t2 :> AnyProvider
=============================================================================
