---------------------------- MODULE StoreEvidence ----------------------------
(***************************************************************************)
(* What the store holds out as evidence, gathered in several steps with no *)
(* lock over all of them: the file behind an attachment (attach_media),    *)
(* the link of a memory to a node of the integrity DAG                     *)
(* (verify_integrity_link), the comparison of a backup with the store      *)
(* (backup, reconcile_backup) and the replay of a session (session_replay).*)
(* Between the steps the file attached changes, nodes are added, rows are  *)
(* written, telemetry arrives and is removed, and processes stop.          *)
(***************************************************************************)
EXTENDS Naturals, Sequences, FiniteSets

CONSTANTS
    EvidenceCaller,    \* threads and processes, one call at a time
    EvidenceMemory,    \* memories, each with a content of its own
    Node,              \* nodes of the DAG
    Bytes,             \* contents of the file to attach
    ReplayTurn,        \* exchanges of a session: 1 .. n, in order
    Committed,         \* turn -> the tool events its exchange commits to
    MaxEvidenceCalls,  \* bound: calls
    MaxChanges         \* bound: changes made between their steps, stops included

Tool == {"call", "result", "late"}
\* "late" carries the prompt id of a turn and belongs to no exchange.
Domain == <<"memories", "entities", "relations">>
NoNode == "none"

ASSUME EvidenceAssumption ==
    /\ Committed \in [ReplayTurn -> SUBSET {"call", "result"}]
    /\ MaxEvidenceCalls \in Nat /\ MaxChanges \in Nat
    /\ IsFiniteSet(ReplayTurn) /\ ReplayTurn = 1 .. Cardinality(ReplayTurn)
    /\ NoNode \notin Node \cup EvidenceMemory \cup Bytes

VARIABLES
    path,      \* what the file to attach holds
    blob,      \* hash -> "none" | "partial" | what the blob of that name holds
    attached,  \* rows of attachments: hashes
    dag,       \* node -> content_hash of its line, or NoNode
    integrity, \* memory -> its row of integrity_links
    live,      \* domain -> version of its rows
    reports,   \* history: [copy, began, equal] of each reconciliation
    tools,     \* turn -> telemetry on disk for it
    replays,   \* history: [turn -> tools shown] of replays called replayable
    call, evidenceCalls, changes

evidenceVars ==
    <<path, blob, attached, dag, integrity, live, reports, tools, replays, call,
      evidenceCalls, changes>>

blobVars      == <<path, blob, attached>>
integrityVars == <<dag, integrity>>
backupVars    == <<live, reports>>
replayVars    == <<tools, replays>>

IdleCall == [at |-> "idle"]
Unlinked == [node |-> NoNode, state |-> "unlinked"]

EvidenceInit ==
    /\ path \in Bytes /\ blob = [h \in Bytes |-> NoNode] /\ attached = {}
    /\ dag = [n \in Node |-> NoNode] /\ integrity = [m \in EvidenceMemory |-> Unlinked]
    /\ live = [d \in {"memories", "entities", "relations"} |-> 0] /\ reports = {}
    /\ tools = Committed /\ replays = {}
    /\ call = [c \in EvidenceCaller |-> IdleCall] /\ evidenceCalls = 0 /\ changes = 0

BeginCall(c, step) ==
    /\ call[c] = IdleCall /\ evidenceCalls < MaxEvidenceCalls
    /\ evidenceCalls' = evidenceCalls + 1 /\ call' = [call EXCEPT ![c] = step]
    /\ UNCHANGED changes

In(c, step) == call[c].at = step
CarryOn(c, step) == call' = [call EXCEPT ![c] = step] /\ UNCHANGED <<evidenceCalls, changes>>
EndCall(c) == CarryOn(c, IdleCall)
Change == changes < MaxChanges /\ changes' = changes + 1 /\ UNCHANGED evidenceCalls

-----------------------------------------------------------------------------
(* attach_media                                                            *)

\* The name of the blob is the hash of what the file holds now.
AttachMedia(c) ==
    /\ BeginCall(c, [at |-> "hashed", hash |-> path])
    /\ UNCHANGED <<blobVars, integrityVars, backupVars, replayVars>>

FindBlob(c) ==
    /\ In(c, "hashed")
    /\ CarryOn(c, [call[c] EXCEPT !.at = IF blob[call[c].hash] = NoNode THEN "copy" ELSE "row"])
    /\ UNCHANGED <<blobVars, integrityVars, backupVars, replayVars>>

\* copyfile opens the blob, emptying it; then it holds what the file holds by now.
OpenBlob(c) ==
    /\ In(c, "copy")
    /\ blob' = [blob EXCEPT ![call[c].hash] = "partial"]
    /\ CarryOn(c, [call[c] EXCEPT !.at = "copying"])
    /\ UNCHANGED <<path, attached, integrityVars, backupVars, replayVars>>

CopyBlob(c) ==
    /\ In(c, "copying")
    /\ blob' = [blob EXCEPT ![call[c].hash] = path]
    /\ CarryOn(c, [call[c] EXCEPT !.at = "row"])
    /\ UNCHANGED <<path, attached, integrityVars, backupVars, replayVars>>

InsertAttachment(c) ==
    /\ In(c, "row")
    /\ attached' = attached \union {call[c].hash}
    /\ EndCall(c)
    /\ UNCHANGED <<path, blob, integrityVars, backupVars, replayVars>>

Rewrite(b) ==
    /\ path # b /\ path' = b /\ Change
    /\ UNCHANGED <<blob, attached, integrityVars, backupVars, replayVars, call>>

-----------------------------------------------------------------------------
(* verify_integrity_link                                                   *)

\* Without a node the one linked before is taken; without that, none is.
VerifyLink(c, m, n) ==
    /\ BeginCall(c, [at |-> "cited", memory |-> m,
                 node |-> IF n = NoNode THEN integrity[m].node ELSE n])
    /\ UNCHANGED <<blobVars, integrityVars, backupVars, replayVars>>

VerificationState(m, n) ==
    IF n = NoNode THEN "unlinked"
    ELSE CASE dag[n] = NoNode -> "content_unavailable"
           [] dag[n] = m      -> "hash_match_local"
           [] OTHER           -> "verification_failed"

FindDagNode(c) ==
    /\ In(c, "cited")
    /\ LET k == call[c] IN
       CarryOn(c, [at |-> "compared", memory |-> k.memory, node |-> k.node,
                 state |-> VerificationState(k.memory, k.node)])
    /\ UNCHANGED <<blobVars, integrityVars, backupVars, replayVars>>

\* ON CONFLICT(memory_id) DO UPDATE: node and state of the same verification.
Upserted(old, k) == [node |-> k.node, state |-> k.state]

UpsertLink(c) ==
    /\ In(c, "compared")
    /\ LET k == call[c] IN integrity' = [integrity EXCEPT ![k.memory] = Upserted(@, k)]
    /\ EndCall(c)
    /\ UNCHANGED <<dag, blobVars, backupVars, replayVars>>

AddNode(n, content) ==
    /\ dag[n] = NoNode /\ dag' = [dag EXCEPT ![n] = content] /\ Change
    /\ UNCHANGED <<integrity, blobVars, backupVars, replayVars, call>>

-----------------------------------------------------------------------------
(* backup, then reconcile_backup, one domain after the other               *)

BackupStore(c) ==
    /\ BeginCall(c, [at |-> "reconcile", copy |-> live, began |-> live, done |-> 0, equal |-> TRUE])
    /\ UNCHANGED <<blobVars, integrityVars, backupVars, replayVars>>

\* Mutant of AllEqual: the verdict of the last domain is the verdict.
LastEqual(before, now) == now
AllEqual(before, now) == before /\ now

CompareDomain(c) ==
    /\ In(c, "reconcile") /\ call[c].done < Len(Domain)
    /\ LET k == call[c]
           d == Domain[k.done + 1]
       IN CarryOn(c, [k EXCEPT !.began = IF k.done = 0 THEN live ELSE @,
                             !.done = @ + 1,
                             !.equal = AllEqual(@, k.copy[d] = live[d])])
    /\ UNCHANGED <<blobVars, integrityVars, backupVars, replayVars>>

RecordReconciliation(c) ==
    /\ In(c, "reconcile") /\ call[c].done = Len(Domain)
    /\ reports' = reports \union {[copy |-> call[c].copy, began |-> call[c].began,
                                   equal |-> call[c].equal]}
    /\ EndCall(c)
    /\ UNCHANGED <<live, blobVars, integrityVars, replayVars>>

\* Entities and relations are only added; a status of a memory can go back.
WriteRows(d) ==
    /\ \/ live' = [live EXCEPT ![d] = @ + 1]
       \/ d = "memories" /\ live[d] > 0 /\ live' = [live EXCEPT ![d] = @ - 1]
    /\ Change
    /\ UNCHANGED <<reports, blobVars, integrityVars, replayVars, call>>

-----------------------------------------------------------------------------
(* session_replay: every exchange is read, then the chain is verified      *)

\* get_exchange: the linked events, and those of the prompt when none is left.
ShownTools(t) ==
    LET linked == tools[t] \intersect Committed[t] IN
    IF linked # {} THEN linked ELSE tools[t] \intersect {"late"}

\* verify_exchange_chain, of one exchange.
TurnVerifies(t) == ShownTools(t) = Committed[t]

SessionReplay(c) ==
    /\ BeginCall(c, [at |-> "replay", shown |-> <<>>, verified |-> 0, valid |-> TRUE])
    /\ UNCHANGED <<blobVars, integrityVars, backupVars, replayVars>>

Passes == <<"read", "verify">>

\* The pass a replay is in, each goes over all turns, one at a time.
Through(k, pass) == (IF pass = "read" THEN Len(k.shown) ELSE k.verified) = Cardinality(ReplayTurn)
InPass(c, pass) ==
    /\ In(c, "replay") /\ ~ Through(call[c], pass)
    /\ pass = Passes[2] => Through(call[c], Passes[1])

ReadExchange(c) ==
    /\ InPass(c, "read")
    /\ CarryOn(c, [call[c] EXCEPT !.shown = Append(@, ShownTools(Len(@) + 1))])
    /\ UNCHANGED <<blobVars, integrityVars, backupVars, replayVars>>

VerifyExchange(c) ==
    /\ InPass(c, "verify")
    /\ CarryOn(c, [call[c] EXCEPT !.verified = @ + 1,
                               !.valid = @ /\ TurnVerifies(call[c].verified + 1)])
    /\ UNCHANGED <<blobVars, integrityVars, backupVars, replayVars>>

\* A tool call without its result is a missing pair.
MissingPair(shown) == "call" \in shown /\ "result" \notin shown

EndReplay(c) ==
    /\ In(c, "replay") /\ \A i \in {1, 2} : Through(call[c], Passes[i])
    /\ replays' = IF call[c].valid /\ \A t \in ReplayTurn : ~ MissingPair(call[c].shown[t])
                  THEN replays \union {call[c].shown} ELSE replays
    /\ EndCall(c)
    /\ UNCHANGED <<tools, blobVars, integrityVars, backupVars>>

\* delete_provider_telemetry and the retention sweep; record_otel_batch.
SweepTelemetry(t, e) ==
    /\ e \in tools[t] /\ tools' = [tools EXCEPT ![t] = @ \ {e}] /\ Change
    /\ UNCHANGED <<replays, blobVars, integrityVars, backupVars, call>>

LateTelemetry(t) ==
    /\ "late" \notin tools[t] /\ tools' = [tools EXCEPT ![t] = @ \union {"late"}] /\ Change
    /\ UNCHANGED <<replays, blobVars, integrityVars, backupVars, call>>

-----------------------------------------------------------------------------
Stop(c) ==
    /\ call[c] # IdleCall /\ call' = [call EXCEPT ![c] = IdleCall] /\ Change
    /\ UNCHANGED <<blobVars, integrityVars, backupVars, replayVars>>

EvidenceNext ==
    \/ \E c \in EvidenceCaller :
          \/ AttachMedia(c) \/ FindBlob(c) \/ OpenBlob(c) \/ CopyBlob(c) \/ InsertAttachment(c)
          \/ \E m \in EvidenceMemory, n \in Node \union {NoNode} : VerifyLink(c, m, n)
          \/ FindDagNode(c) \/ UpsertLink(c)
          \/ BackupStore(c) \/ CompareDomain(c) \/ RecordReconciliation(c)
          \/ SessionReplay(c) \/ ReadExchange(c) \/ VerifyExchange(c) \/ EndReplay(c)
          \/ Stop(c)
    \/ \E b \in Bytes : Rewrite(b)
    \/ \E n \in Node, m \in EvidenceMemory : AddNode(n, m)
    \/ \E d \in {"memories", "entities", "relations"} : WriteRows(d)
    \/ \E t \in ReplayTurn : LateTelemetry(t) \/ \E e \in Tool : SweepTelemetry(t, e)

EvidenceSpec == EvidenceInit /\ [][EvidenceNext]_evidenceVars

-----------------------------------------------------------------------------
\* Types; a blob of an attachment has at least been opened.
EvidenceTypeOK ==
    /\ path \in Bytes /\ blob \in [Bytes -> Bytes \union {NoNode, "partial"}]
    /\ \A h \in attached : blob[h] # NoNode
    /\ dag \in [Node -> EvidenceMemory \union {NoNode}]
    /\ \A m \in EvidenceMemory : integrity[m].node \in Node \union {NoNode}
    /\ \A t \in ReplayTurn : tools[t] \subseteq Tool
    /\ \A c \in EvidenceCaller : call[c].at \in {"idle", "hashed", "copy", "copying", "row", "cited",
                                         "compared", "reconcile", "replay"}
    /\ evidenceCalls \in 0 .. MaxEvidenceCalls /\ changes \in 0 .. MaxChanges

(***************************************************************************)
(* A backup reported equal was equal to the store, all domains at once, at *)
(* the moment the first was compared, although rows are written between    *)
(* the comparisons (reconcile_backup).                                     *)
(***************************************************************************)
EqualMeansSame == \A r \in reports : r.equal => r.copy = r.began

(***************************************************************************)
(* What integrity_links says of a node is so: the node holds the content   *)
(* of the memory, or another one, whatever verifications of other nodes    *)
(* ended in between (verify_integrity_link).                               *)
(***************************************************************************)
LinkIsSo ==
    \A m \in EvidenceMemory :
        /\ integrity[m].state = "hash_match_local" => dag[integrity[m].node] = m
        /\ integrity[m].state = "verification_failed" => dag[integrity[m].node] \notin {m, NoNode}
        /\ integrity[m].state = "unlinked" <=> integrity[m].node = NoNode

(***************************************************************************)
(* A replay called replayable shows every tool event its exchanges commit  *)
(* to, although telemetry is removed while it is put together              *)
(* (session_replay).                                                       *)
(***************************************************************************)
ReplayableIsWhole == \A r \in replays : \A t \in ReplayTurn : Committed[t] \subseteq r[t]

(***************************************************************************)
(* The blob of an attachment holds the bytes it is named for: "Stored      *)
(* content-addressed on disk" (docstring of attach_media).  It does not    *)
(* hold: a copy that stopped half way, or is under way, is taken for the   *)
(* blob by the next attachment of the same bytes.                          *)
(***************************************************************************)
AttachedIsWhole == \A h \in attached : blob[h] = h

(***************************************************************************)
(* Reports, links and replays say what was so when it was looked at.       *)
(***************************************************************************)
EvidenceHolds == EqualMeansSame /\ LinkIsSo /\ ReplayableIsWhole
=============================================================================
