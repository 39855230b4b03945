--------------------------- MODULE MemoryLifecycle ---------------------------
(***************************************************************************)
(* The life of a memory in store.py: stored, contradicted, superseded,     *)
(* forgotten by hand or by the retention sweep, embedded by the worker,    *)
(* and carried between stores in the bundles of structured_bundle.py.      *)
(*                                                                         *)
(* An event node commits to its parent by hash, so a node is modelled as   *)
(* the history it commits to: the sequence of entries that ends in it.     *)
(* A caller is a process or a request with a connection of its own; what   *)
(* the code does in one transaction is one action here.                    *)
(***************************************************************************)
EXTENDS Integers, Sequences, FiniteSets, SequencesExt

CONSTANTS
    Store, Memory, Caller,
    Embedder,        \* store with an embedding worker -> the worker
    Shared,          \* memories that every store already has a copy of
    Key,             \* idempotency keys
    Exporting,       \* bound: the stores that write bundles
    Given,           \* statuses that callers ask for
    NoMemory, NoKey,
    MaxCalls,        \* bound: calls that change a memory
    MaxFiles,        \* bound: exports
    MaxMemoryFaults  \* bound: callers that die or fail half way

Live == {"active", "confirmed"}
Worker == {Embedder[s] : s \in DOMAIN Embedder}

ASSUME LifecycleAssumption ==
    /\ Given \subseteq Live \cup {"candidate", "disputed"}
    /\ NoMemory \notin Memory /\ NoKey \notin Key
    /\ Worker \cap Caller = {} /\ DOMAIN Embedder \cup Exporting \subseteq Store
    /\ Shared \subseteq Memory /\ IsFiniteSet(Shared)

VARIABLES
    db,           \* store -> its rows: memories in order of insertion, and chains
    embedded,     \* store -> memories with a vector
    memoryStage,  \* process -> where it is, and with what
    at, memoryTodo, old, new,
    bundle,       \* the exported file
    merged,       \* store -> memories whose chain does not come from one writer
    partial,      \* stores that imported a bundle without the forgotten memories
    calls, files, memoryFaults

process    == <<memoryStage, at, memoryTodo, old, new>>
memoryVars == <<db, embedded, process, bundle, merged, partial, calls, files, memoryFaults>>

Entry(t, m) == [type |-> t, other |-> m]

\* The items of a sequence that are not in a set, in their order.  (SelectSeq
\* with a definition that can be expanded in a proof.)
Without(s, known) ==
    LET upto[i \in 0 .. Len(s)] ==
            IF i = 0 THEN <<>>
            ELSE IF s[i] \in known THEN upto[i - 1] ELSE Append(upto[i - 1], s[i])
    IN upto[Len(s)]

\* A store that was filled from a bundle with the memories ms in it.
Copy(ms) == [rows |-> SetToSeq(ms),
             status |-> [m \in Memory |-> IF m \in ms THEN "confirmed" ELSE "none"],
             key |-> [m \in Memory |-> NoKey],
             supersedes |-> [m \in Memory |-> NoMemory],
             events |-> [m \in Memory |->
                 IF m \in ms THEN << <<Entry("create", NoMemory)>> >> ELSE <<>>]]

AnyStore == CHOOSE s \in Store : TRUE
NoBundle == [from |-> NoMemory, done |-> FALSE, complete |-> TRUE, data |-> Copy({}), tainted |-> {}]

MemoryInit ==
    /\ db = [s \in Store |-> Copy(Shared)]
    /\ embedded = [s \in Store |-> {}]
    /\ memoryStage = [p \in Caller \cup Worker |-> "idle"]
    /\ at = [p \in Caller \cup Worker |-> AnyStore]
    /\ memoryTodo = [p \in Caller \cup Worker |-> {}]
    /\ old = [p \in Caller \cup Worker |-> NoMemory]
    /\ new = [p \in Caller \cup Worker |-> NoMemory]
    /\ bundle = NoBundle
    /\ merged = [s \in Store |-> {}]
    /\ partial = {}
    /\ calls = 0 /\ files = 0 /\ memoryFaults = 0

Call(c) == memoryStage[c] = "idle" /\ calls < MaxCalls /\ calls' = calls + 1
\* A call that is over has no locals.
ReturnMemory(p) ==
    /\ memoryStage' = [memoryStage EXCEPT ![p] = "idle"]
    /\ at' = [at EXCEPT ![p] = AnyStore]
    /\ memoryTodo' = [memoryTodo EXCEPT ![p] = {}]
    /\ old' = [old EXCEPT ![p] = NoMemory]
    /\ new' = [new EXCEPT ![p] = NoMemory]
MemoryFault == memoryFaults < MaxMemoryFaults /\ memoryFaults' = memoryFaults + 1

-----------------------------------------------------------------------------
(* Rows and chains                                                         *)

Ids(d) == ToSet(d.rows)
Head0(d, m) == IF d.events[m] = <<>> THEN <<>> ELSE Last(d.events[m])
\* _append_event: a node whose parent is the last row of the memory's chain.
AppendEvent(d, m, e) == [d EXCEPT !.events[m] = Append(@, Append(Head0(d, m), e))]

\* store_memory: a known key answers with its memory, whatever it holds.
\* Quarantine is decided by the content, not by the caller.
Created(d, m, s, k) ==
    AppendEvent([d EXCEPT !.rows = Append(@, m), !.status[m] = s, !.key[m] = k],
                m, Entry(IF s = "quarantined" THEN "quarantine" ELSE "create", NoMemory))

Holders(d, k) == {m \in Ids(d) : k # NoKey /\ d.key[m] = k}
Fresh == {m \in Memory : \A s \in Store : m \notin Ids(db[s])}

Stores(d) ==
    {[memory |-> m, data |-> d] : m \in UNION {Holders(d, k) : k \in Key}}
    \cup {[memory |-> x[1], data |-> Created(d, x[1], x[2], x[3])] :
            x \in {y \in Fresh \X (Given \cup {"quarantined"}) \X (Key \cup {NoKey}) :
                     Holders(d, y[3]) = {}}}

StoreMemory(c) ==
    /\ Call(c)
    /\ \E s \in Store : \E r \in Stores(db[s]) : db' = [db EXCEPT ![s] = r.data]
    /\ UNCHANGED <<embedded, process, bundle, merged, partial, files, memoryFaults>>

\* _mark_contradiction_locked: an event for both sides, no status changes.
MarkContradiction(c) ==
    /\ Call(c)
    /\ \E s \in Store : \E a, b \in Ids(db[s]) :
         db' = [db EXCEPT ![s] =
             AppendEvent(AppendEvent(@, a, Entry("contradict", b)), b, Entry("contradict", a))]
    /\ UNCHANGED <<embedded, process, bundle, merged, partial, files, memoryFaults>>

-----------------------------------------------------------------------------
(* supersede_memory: two transactions                                      *)

SupersedeStore(c) ==
    /\ Call(c)
    /\ \E s \in Store : \E o \in Ids(db[s]), r \in Stores(db[s]) :
         /\ db' = [db EXCEPT ![s] = r.data]
         /\ at' = [at EXCEPT ![c] = s]
         /\ old' = [old EXCEPT ![c] = o]
         /\ new' = [new EXCEPT ![c] = r.memory]
    /\ memoryStage' = [memoryStage EXCEPT ![c] = "linking"]
    /\ UNCHANGED <<embedded, memoryTodo, bundle, merged, partial, files, memoryFaults>>

Replaced(d, o, n) ==
    AppendEvent([d EXCEPT !.status[o] = "superseded", !.supersedes[n] = o],
                o, Entry("supersede", n))

SupersedeLink(c) ==
    /\ memoryStage[c] = "linking"
    /\ db' = [db EXCEPT ![at[c]] = Replaced(@, old[c], new[c])]
    /\ ReturnMemory(c)
    /\ UNCHANGED <<embedded, bundle, merged, partial, calls, files, memoryFaults>>

-----------------------------------------------------------------------------
(* forget_memory, alone or from a sweep over a list taken beforehand       *)

BeginForget(c) ==
    /\ Call(c)
    /\ \E s \in Store : \E ms \in SUBSET Ids(db[s]) \ {{}} :
         /\ \/ Cardinality(ms) = 1
            \/ \A m \in ms : db[s].status[m] # "forgotten"
         /\ at' = [at EXCEPT ![c] = s]
         /\ memoryTodo' = [memoryTodo EXCEPT ![c] = ms]
    /\ memoryStage' = [memoryStage EXCEPT ![c] = "forgetting"]
    /\ UNCHANGED <<db, embedded, old, new, bundle, merged, partial, files, memoryFaults>>

Forgotten(d, m) == AppendEvent([d EXCEPT !.status[m] = "forgotten"], m, Entry("forget", NoMemory))

Forget(c) ==
    /\ memoryStage[c] = "forgetting"
    /\ \E m \in memoryTodo[c] :
         /\ db' = [db EXCEPT ![at[c]] = Forgotten(@, m)]
         /\ old' = [old EXCEPT ![c] = m]
         /\ memoryTodo' = [memoryTodo EXCEPT ![c] = @ \ {m}]
    /\ memoryStage' = [memoryStage EXCEPT ![c] = "receipt"]
    /\ UNCHANGED <<embedded, at, new, bundle, merged, partial, calls, files, memoryFaults>>

\* Mutant of Witness: the receipt names the first event.
WitnessFirst(d, m) == d.events[m][1]
\* events[-1], read after the commit.
Witness(d, m) == Last(d.events[m])

Receipt(c) ==
    /\ memoryStage[c] = "receipt"
    /\ IF memoryTodo[c] = {} THEN ReturnMemory(c)
       ELSE /\ memoryStage' = [memoryStage EXCEPT ![c] = "forgetting"]
            /\ UNCHANGED <<at, memoryTodo, old, new>>
    /\ UNCHANGED <<db, embedded, bundle, merged, partial, calls, files, memoryFaults>>

-----------------------------------------------------------------------------
(* embedding_worker.py                                                     *)

LiveIn(s) == {m \in Ids(db[s]) : db[s].status[m] \in Live}
\* Mutant of Eligible: memories that an event was added to are left out.
EligibleNew(s) == {m \in LiveIn(s) \ embedded[s] : Len(db[s].events[m]) = 1}
Eligible(s) == LiveIn(s) \ embedded[s]

Scan(s) == LET w == Embedder[s] IN
    /\ memoryStage[w] = "idle" /\ Eligible(s) # {}
    /\ memoryTodo' = [memoryTodo EXCEPT ![w] = Eligible(s)]
    /\ memoryStage' = [memoryStage EXCEPT ![w] = "scanned"]
    /\ UNCHANGED <<db, embedded, at, old, new, bundle, merged, partial, calls, files, memoryFaults>>

\* On to the next memory of the pass, if there is one.
NextItem(w, rest) ==
    IF rest = {} THEN ReturnMemory(w)
    ELSE /\ memoryStage' = [memoryStage EXCEPT ![w] = "scanned"]
         /\ memoryTodo' = [memoryTodo EXCEPT ![w] = rest]
         /\ old' = [old EXCEPT ![w] = NoMemory]
         /\ UNCHANGED <<at, new>>

\* The first look of store_embedding, before BEGIN IMMEDIATE.
CheckEligible(s) == LET w == Embedder[s] IN
    /\ memoryStage[w] = "scanned"
    /\ \E m \in memoryTodo[w] :
         IF m \in LiveIn(s)
         THEN /\ memoryStage' = [memoryStage EXCEPT ![w] = "writing"]
              /\ old' = [old EXCEPT ![w] = m]
              /\ memoryTodo' = [memoryTodo EXCEPT ![w] = @ \ {m}]
              /\ UNCHANGED <<at, new>>
         ELSE NextItem(w, memoryTodo[w] \ {m})
    /\ UNCHANGED <<db, embedded, bundle, merged, partial, calls, files, memoryFaults>>

\* The second look, inside the transaction.
Written(s, m) == embedded[s] \cup ({m} \cap LiveIn(s))

WriteEmbedding(s) == LET w == Embedder[s] IN
    /\ memoryStage[w] = "writing"
    /\ embedded' = [embedded EXCEPT ![s] = Written(s, old[w])]
    /\ NextItem(w, memoryTodo[w])
    /\ UNCHANGED <<db, bundle, merged, partial, calls, files, memoryFaults>>

-----------------------------------------------------------------------------
(* structured_bundle.py: one SELECT per table, and one transaction to load *)

ExportRows(c) ==
    /\ memoryStage[c] = "idle" /\ files < MaxFiles /\ files' = files + 1
    /\ \A p \in Caller : memoryStage[p] # "exporting"     \* bound: one file
    /\ \E s \in Exporting :
         /\ bundle' = [NoBundle EXCEPT !.from = s, !.data = db[s]]
         /\ at' = [at EXCEPT ![c] = s]
    /\ memoryStage' = [memoryStage EXCEPT ![c] = "exporting"]
    /\ UNCHANGED <<db, embedded, memoryTodo, old, new, merged, partial, calls, memoryFaults>>

Kept(d) == {m \in Ids(d) : d.status[m] # "forgotten"}

\* Another process may have written between the two reads.
ExportEvents(c) ==
    /\ memoryStage[c] = "exporting"
    /\ \E all \in BOOLEAN :
         LET s    == at[c]
             d    == bundle.data
             keep == IF all THEN Memory ELSE Kept(d)
             chain == [m \in Memory |-> IF m \in keep THEN db[s].events[m] ELSE <<>>]
         IN bundle' = [bundle EXCEPT
              !.done = TRUE,
              !.complete = all /\ s \notin partial,
              !.data = [d EXCEPT !.rows = Without(@, Memory \ keep), !.events = chain],
              !.tainted = merged[s] \cup {m \in Memory : chain[m] # d.events[m]}]
    /\ ReturnMemory(c)
    /\ UNCHANGED <<db, embedded, merged, partial, calls, files, memoryFaults>>

\* Mutant of Missing: every row is inserted.
MissingAll(s) == bundle.data.rows
\* The rows of the file that the store lacks, in the order of the file.
Missing(s) == Without(bundle.data.rows, Ids(db[s]))

\* What _validate and the constraints of the schema demand; else it rolls back.
Importable(s) ==
    LET b == bundle.data
        in == Missing(s) IN
    /\ \A m \in Memory : b.events[m] # <<>> => m \in Ids(b) \cup Ids(db[s])
    /\ \A i \in DOMAIN in :
         /\ b.supersedes[in[i]] \in {NoMemory} \cup Ids(db[s]) \cup {in[j] : j \in 1..i}
         /\ Holders(db[s], b.key[in[i]]) = {}

Unknown(s, m) == Without(bundle.data.events[m], ToSet(db[s].events[m]))

\* The value a column has after the import: rows that exist are left alone.
Loaded(f, g, m, s) == IF m \in ToSet(Missing(s)) THEN f[m] ELSE g[m]

Extended(s, m) == db[s].events[m] \o Unknown(s, m)

Import(c) ==
    /\ memoryStage[c] = "idle" /\ bundle.done
    /\ \E s \in Store :
         /\ Importable(s)
         /\ LET b == bundle.data
                d == db[s] IN
            /\ db' = [db EXCEPT ![s] =
                 [rows |-> @.rows \o Missing(s),
                  status |-> [m \in Memory |-> Loaded(b.status, d.status, m, s)],
                  key |-> [m \in Memory |-> Loaded(b.key, d.key, m, s)],
                  supersedes |-> [m \in Memory |-> Loaded(b.supersedes, d.supersedes, m, s)],
                  events |-> [m \in Memory |-> Extended(s, m)]]]
            /\ merged' = [merged EXCEPT ![s] = @ \cup
                 {m \in Memory :
                    \/ m \in Ids(d) /\ Unknown(s, m) # <<>>
                    \/ m \in ToSet(Missing(s)) \cap bundle.tainted}]
            /\ partial' = IF bundle.complete THEN partial ELSE partial \cup {s}
    /\ UNCHANGED <<embedded, process, bundle, calls, files, memoryFaults>>

-----------------------------------------------------------------------------
\* A process dies, or its next transaction fails and the call raises.
Abandon(p) ==
    /\ memoryStage[p] # "idle" /\ MemoryFault
    /\ ReturnMemory(p)
    /\ UNCHANGED <<db, embedded, bundle, merged, partial, calls, files>>

Embed(s) == Scan(s) \/ CheckEligible(s) \/ WriteEmbedding(s)

MemoryNext ==
    \/ \E c \in Caller :
         \/ StoreMemory(c) \/ MarkContradiction(c)
         \/ SupersedeStore(c) \/ SupersedeLink(c)
         \/ BeginForget(c) \/ Forget(c) \/ Receipt(c)
         \/ ExportRows(c) \/ ExportEvents(c) \/ Import(c)
    \/ \E s \in DOMAIN Embedder : Embed(s)
    \/ \E p \in Caller \cup Worker : Abandon(p)

MemorySpec == MemoryInit /\ [][MemoryNext]_memoryVars
\* The worker runs as a service and scans again after every pass.
MemoryFairness == \A s \in DOMAIN Embedder : WF_memoryVars(Embed(s))
FairMemorySpec == MemorySpec /\ MemoryFairness

-----------------------------------------------------------------------------
(* Properties                                                              *)

Status == {"none", "confirmed", "quarantined", "superseded", "forgotten"} \cup Given

\* Every variable holds what its column or local may hold.
MemoryTypeOK ==
    /\ \A s \in Store :
         /\ db[s].status \in [Memory -> Status]
         /\ db[s].key \in [Memory -> Key \cup {NoKey}]
         /\ db[s].supersedes \in [Memory -> Memory \cup {NoMemory}]
         /\ Ids(db[s]) = {m \in Memory : db[s].status[m] # "none"}
         /\ Len(db[s].rows) = Cardinality(Ids(db[s]))
         /\ embedded[s] \cup merged[s] \subseteq Ids(db[s])
    /\ \A p \in Caller \cup Worker :
         memoryStage[p] \in {"idle", "linking", "forgetting", "receipt", "scanned", "writing", "exporting"}
    /\ partial \subseteq Store

\* verify_chain: every row is the child of the row before it.
ChainVerifies(s, m) == LET c == db[s].events[m] IN
    \A i \in DOMAIN c : Front(c[i]) = IF i = 1 THEN <<>> ELSE c[i - 1]

Deciding == [create |-> Given \cup {"confirmed"}, quarantine |-> {"quarantined"},
             supersede |-> {"superseded"}, forget |-> {"forgotten"}]
\* The last deciding event of a node's history allows this status.
Implies(n, status) ==
    \E i \in DOMAIN n :
        /\ n[i].type \in DOMAIN Deciding /\ status \in Deciding[n[i].type]
        /\ \A j \in DOMAIN n : j > i => n[j].type \notin DOMAIN Deciding

\* A memory whose chain was not merged from two writers verifies, and its
\* status is the one its last event gave it: lifecycle mutation always appends.
ChainSound ==
    \A s \in Store : \A m \in Ids(db[s]) \ merged[s] :
        ChainVerifies(s, m) /\ Implies(Last(db[s].events[m]), db[s].status[m])

\* Even a merged chain is whole: it has one root, every other node's parent is
\* in an earlier row, and no node is there twice.
NodesResolve ==
    \A s \in Store, m \in Memory : LET c == db[s].events[m] IN
        /\ IsInjective(c)
        /\ \A i \in DOMAIN c :
             Front(c[i]) \in {c[j] : j \in 1..(i - 1)} \cup (IF i = 1 THEN {<<>>} ELSE {})

\* A memory that was superseded, forgotten or quarantined is never recalled
\* again, whatever is retried, imported or swept.
RetiredStaysRetired ==
    [][\A s \in Store, m \in Memory :
         db[s].status[m] \in {"superseded", "forgotten", "quarantined"}
         => db'[s].status[m] \in {"superseded", "forgotten", "quarantined"}]_memoryVars

\* A link to a replaced memory has its event in that memory's chain, unless a
\* bundle that leaves forgotten memories out was imported.
LinksRecorded ==
    \A s \in Store \ partial : \A n \in Ids(db[s]) : LET o == db[s].supersedes[n] IN
        o # NoMemory => \E i \in DOMAIN db[s].events[o] : Last(db[s].events[o][i]) = Entry("supersede", n)

\* Whatever event is the last one when forget_memory reads it for the deletion
\* receipt, its history contains the forgetting; only an import in between can
\* make the receipt name a branch without it.
ReceiptCoversForget ==
    \A c \in Caller : memoryStage[c] = "receipt" /\ old[c] \notin merged[at[c]] =>
        LET n == Witness(db[at[c]], old[c]) IN \E i \in DOMAIN n : n[i].type = "forget"

\* A memory that stays live gets its vector, however the worker's passes fail.
LiveIsEmbedded ==
    \A s \in DOMAIN Embedder, m \in Memory : (m \in LiveIn(s)) ~> (m \in embedded[s] \/ m \notin LiveIn(s))

\* What store-contract.md and import_structured_bundle promise together: a
\* memory with a forget event is not recalled.
ForgottenNotRecalled ==
    \A s \in Store, m \in Memory :
        (\E i \in DOMAIN db[s].events[m] : Last(db[s].events[m][i]).type = "forget")
        => db[s].status[m] \notin Live

(***************************************************************************)
(* The event chains tell the lifecycle of the memories they belong to, in  *)
(* whatever order callers, retries and bundles changed them.               *)
(***************************************************************************)
ChainsHold == ChainSound /\ NodesResolve /\ LinksRecorded /\ ReceiptCoversForget

(***************************************************************************)
(* What recall and the embedding worker make of a memory's status.         *)
(***************************************************************************)
MemoriesHold == RetiredStaysRetired /\ LiveIsEmbedded
=============================================================================
