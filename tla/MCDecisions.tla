----------------------------- MODULE MCDecisions -----------------------------
(***************************************************************************)
(* Small instances of what is decided and advised on: the proposals of     *)
(* inference, with an operator and the policy, and the advisories of       *)
(* decision traces. They share no state, so a behaviour is about one of    *)
(* them, focus, chosen at the start; the other stays as it began.          *)
(***************************************************************************)
EXTENDS Proposals, DecisionTraces, TLC

CONSTANTS e1, k1, x1

\* An entity, a contradiction, and a relation whose source has diverged.
Extracted == e1 :> "entity" @@ k1 :> "contradiction" @@ x1 :> "relation"

VARIABLE focus

Focus == {"proposals", "traces"}

DecisionsVars ==
    <<proposalVars, traceVars, focus>>

DecisionsNext ==
    \/ /\ focus = "proposals" /\ ProposalsNext
       /\ UNCHANGED <<traceVars, focus>>
    \/ /\ focus = "traces" /\ TraceNext
       /\ UNCHANGED <<proposalVars, focus>>

DecisionsInit == focus \in Focus /\ ProposalsInit /\ TraceInit

FairDecisionsSpec ==
    DecisionsInit /\ [][DecisionsNext]_DecisionsVars /\ ProposalsFairness /\ TraceFairness

\* The state of each part has its type.
DecisionsTypeOK == ProposalsTypeOK /\ TraceTypeOK
=============================================================================
