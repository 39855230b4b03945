------------------------------ MODULE Proposals ------------------------------
(***************************************************************************)
(* Proposals of inference and the decisions on them: extraction proposals  *)
(* (entities, relations, contradictions) and PARA classifications in       *)
(* store.py, decided by operators (the console, the MCP server) and by the *)
(* confidence policy that the daemon runs after each cycle.                *)
(*                                                                         *)
(* A decision reads the proposal and its memories first and writes later,  *)
(* in another transaction; between the two a proposal is in the hand of    *)
(* its decider.                                                            *)
(***************************************************************************)
EXTENDS Integers, FiniteSets

CONSTANTS
    Extraction, Para,      \* proposals: rows of the two tables
    Kind,                  \* extraction proposal -> entity | relation | contradiction
    Diverged,              \* proposals whose content hash no longer fits the memory
    Confident,             \* proposals at or above the threshold of the policy
    ReviewContradictions,  \* contradictions_require_review
    Operator, policy, NoProposal

Proposal == Extraction \cup Para
Decider  == Operator \cup {policy}

ASSUME ProposalAssumption ==
    /\ Extraction \cap Para = {} /\ NoProposal \notin Proposal
    /\ policy \notin Operator /\ IsFiniteSet(Operator)
    /\ Kind \in [Extraction -> {"entity", "relation", "contradiction"}]
    /\ Diverged \subseteq Proposal /\ Confident \subseteq Proposal
    /\ ReviewContradictions \in BOOLEAN

VARIABLES
    standing,  \* proposal -> its status column, or "absent"
    hand,      \* decider -> the proposal it has read as decidable
    choice,    \* decider -> what it is about to decide
    selected,  \* what is left of the policy's SELECT ... status = 'proposed'
    records    \* extraction proposal -> decider -> derived records it wrote

proposalVars == <<standing, hand, choice, selected, records>>

\* Mutant of Decisions: an extraction proposal can be kept as it was, too.
DecisionsOfAll(p) == {"accept", "dismiss", "keep_original"}
Decisions(p) ==
    IF p \in Para THEN {"accept", "dismiss", "keep_original"} ELSE {"accept", "dismiss"}

StatusOf(decision) == CASE decision = "accept"        -> "accepted"
                        [] decision = "dismiss"       -> "dismissed"
                        [] decision = "keep_original" -> "kept_original"

ProposalsInit ==
    /\ standing = [p \in Proposal |-> "absent"]
    /\ hand = [d \in Decider |-> NoProposal]
    /\ choice = [d \in Decider |-> "accept"]
    /\ selected = {}
    /\ records = [p \in Extraction |-> [d \in Decider |-> 0]]

\* Inserted by the completion of its task, which InferenceTasks shows unique.
Propose(p) ==
    /\ standing[p] = "absent"
    /\ standing' = [standing EXCEPT ![p] = "proposed"]
    /\ UNCHANGED <<hand, choice, selected, records>>

-----------------------------------------------------------------------------
\* Mutant of Decidable: the status of an extraction proposal is not looked at.
DecidableAlways(p) == standing[p] # "absent"

(***************************************************************************)
(* decide_extraction_proposal requires "proposed"; accept_para_            *)
(* classification looks at no status at all, a decided one is re-decided.  *)
(***************************************************************************)
Decidable(p) == IF p \in Extraction THEN standing[p] = "proposed" ELSE standing[p] # "absent"

\* An operator asks for a decision, which reads the proposal.
PickUp(o, p, decision) ==
    /\ hand[o] = NoProposal
    /\ Decidable(p)
    /\ hand' = [hand EXCEPT ![o] = p]
    /\ choice' = [choice EXCEPT ![o] = decision]
    /\ UNCHANGED <<standing, selected, records>>

\* What the policy leaves to an operator whatever the confidence.
Reviewed(p) == p \in Extraction /\ Kind[p] = "contradiction" /\ ReviewContradictions

\* auto_accept_high_confidence_proposals: both SELECTs, and the skipped rows.
PolicySelect ==
    /\ hand[policy] = NoProposal /\ selected = {}
    /\ selected' = {p \in Confident : standing[p] = "proposed" /\ ~ Reviewed(p)}
    /\ selected' # {}
    /\ UNCHANGED <<standing, hand, choice, records>>

\* The next row of the SELECTs, extraction proposals first.
PolicyNext(p) ==
    /\ hand[policy] = NoProposal
    /\ p \in selected
    /\ p \in Para => selected \cap Extraction = {}
    /\ selected' = selected \ {p}
    /\ hand' = IF Decidable(p) THEN [hand EXCEPT ![policy] = p] ELSE hand
    /\ UNCHANGED <<standing, choice, records>>

-----------------------------------------------------------------------------
HandDone(d) == hand' = [hand EXCEPT ![d] = NoProposal]

\* Mutant of Fits: the content hash is not compared.
FitsAlways(p) == TRUE
Fits(p) == p \notin Diverged

\* The source (or, of a contradiction, the other memory) has another hash.
MarkStale(d) ==
    /\ hand[d] # NoProposal
    /\ ~ Fits(hand[d])
    /\ standing' = [standing EXCEPT ![hand[d]] = "stale"]
    /\ HandDone(d)
    /\ UNCHANGED <<choice, selected, records>>

\* One UPDATE ... WHERE id = ?, whatever the status has become.
Annotate(d) ==
    /\ hand[d] # NoProposal
    /\ Fits(hand[d])
    /\ choice[d] # "accept" \/ hand[d] \in Para
    /\ standing' = [standing EXCEPT ![hand[d]] = StatusOf(choice[d])]
    /\ HandDone(d)
    /\ UNCHANGED <<choice, selected, records>>

(***************************************************************************)
(* _apply_extraction_proposal: an entity is looked up before it is         *)
(* inserted; a relation gets a fresh id, a contradiction an autoincrement, *)
(* so both are inserted whether or not they are there.                     *)
(***************************************************************************)
Written(p) ==
    IF Kind[p] = "entity" /\ \E d \in Decider : records[p][d] > 0 THEN 0 ELSE 1

\* The accepting transaction: derived record and status together.
Accept(d) ==
    LET p == hand[d] IN
    /\ p \in Extraction /\ choice[d] = "accept"
    /\ Fits(p)
    /\ records' = [records EXCEPT ![p][d] = @ + Written(p)]
    /\ standing' = [standing EXCEPT ![p] = "accepted"]
    /\ HandDone(d)
    /\ UNCHANGED <<choice, selected>>

\* A database error: ROLLBACK; the policy pass ends with it.
DecisionFails(d) ==
    /\ hand[d] # NoProposal
    /\ HandDone(d)
    /\ selected' = IF d = policy THEN {} ELSE selected
    /\ UNCHANGED <<standing, choice, records>>

Decide(d) == MarkStale(d) \/ Annotate(d) \/ Accept(d)

ProposalsNext ==
    \/ \E p \in Proposal : Propose(p) \/ PolicyNext(p)
    \/ \E o \in Operator, p \in Proposal, c \in {"accept", "dismiss", "keep_original"} :
          c \in Decisions(p) /\ PickUp(o, p, c)
    \/ PolicySelect
    \/ \E d \in Decider : Decide(d) \/ DecisionFails(d)

ProposalsSpec == ProposalsInit /\ [][ProposalsNext]_proposalVars

\* The daemon keeps cycling; database errors do not go on for ever.
ProposalsFairness ==
    /\ WF_proposalVars(PolicySelect)
    /\ \A p \in Proposal : SF_proposalVars(PolicyNext(p))
    /\ SF_proposalVars(Decide(policy))

FairProposalsSpec == ProposalsSpec /\ ProposalsFairness

-----------------------------------------------------------------------------
Undecided == {"absent", "proposed"}
Total(p)  == Cardinality({d \in Decider : records[p][d] > 0})

ProposalsTypeOK ==
    /\ standing \in [Proposal -> {"absent", "proposed", "accepted", "dismissed",
                                "kept_original", "stale"}]
    /\ \A p \in Extraction : standing[p] # "kept_original"
    /\ hand \in [Decider -> Proposal \cup {NoProposal}]
    /\ choice \in [Decider -> {"accept", "dismiss", "keep_original"}]
    /\ choice[policy] = "accept"
    /\ selected \subseteq Confident
    /\ records \in [Extraction -> [Decider -> Nat]]

(***************************************************************************)
(* A race of decisions multiplies a derived record at most by the number   *)
(* of deciders: nobody writes the same proposal twice, and an entity is    *)
(* written once however many accept it.                                    *)
(***************************************************************************)
OneRecordPerDecider ==
    \A p \in Extraction :
        /\ \A d \in Decider : records[p][d] <= 1
        /\ Kind[p] = "entity" => Total(p) <= 1

(***************************************************************************)
(* A proposal whose evidence does not fit the memory any more becomes      *)
(* stale and nothing else, and leaves nothing in the graph.                *)
(***************************************************************************)
DivergedNeverApplied ==
    \A p \in Diverged :
        /\ standing[p] \in Undecided \cup {"stale"}
        /\ p \in Extraction => Total(p) = 0

(***************************************************************************)
(* A decided extraction proposal that nobody has in hand is final: neither *)
(* its status nor what it derived changes, and no one picks it up again.   *)
(***************************************************************************)
DecidedIsFinal ==
    [][\A p \in Extraction :
          standing[p] \notin Undecided /\ (\A d \in Decider : hand[d] # p)
              => /\ standing'[p] = standing[p] /\ records'[p] = records[p]
                 /\ \A d \in Decider : hand'[d] # p]_proposalVars

(***************************************************************************)
(* The policy drains what it may decide: a confident proposal that needs   *)
(* no review does not stay proposed.                                       *)
(***************************************************************************)
PolicyDrains ==
    \A p \in Confident : ~ Reviewed(p) =>
        (standing[p] = "proposed" ~> standing[p] # "proposed")

(***************************************************************************)
(* docs/wiki/concepts/contradiction-worker.md:35: "Repeated acceptance is  *)
(* rejected, preventing duplicate durable contradiction records."          *)
(***************************************************************************)
NoDuplicateContradiction ==
    \A p \in Extraction : Kind[p] = "contradiction" => Total(p) <= 1

(***************************************************************************)
(* The operators and the policy, deciding at once, agree on what a         *)
(* proposal leaves in the graph.                                           *)
(***************************************************************************)
DecidersAgree == OneRecordPerDecider /\ DivergedNeverApplied

(***************************************************************************)
(* What may be decided is decided, once and for good.                      *)
(***************************************************************************)
DecidedForGood == DecidedIsFinal /\ PolicyDrains
=============================================================================
