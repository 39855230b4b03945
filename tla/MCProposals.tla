---------------------------- MODULE MCProposals ----------------------------
(***************************************************************************)
(* Small instances of Proposals: an entity, a contradiction and a relation *)
(* whose source has diverged, one PARA classification, an operator (or two) *)
(* and the policy.                                                         *)
(***************************************************************************)
EXTENDS Proposals, TLC

CONSTANTS e1, k1, x1, a1, o1, o2

MCKind == e1 :> "entity" @@ k1 :> "contradiction" @@ x1 :> "relation"
=============================================================================
