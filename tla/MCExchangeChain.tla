-------------------------- MODULE MCExchangeChain --------------------------
(***************************************************************************)
(* A session of two turns with an event each, and two builders.            *)
(***************************************************************************)
EXTENDS ExchangeChain, TLC

CONSTANTS t1, t2, e1, e2, b1, b2

Prompts == e1 :> t1 @@ e2 :> t2

Messages == {<<t1, "assistant">>, <<t2, "user">>}

BuilderSymmetry == Permutations({b1, b2})
=============================================================================
