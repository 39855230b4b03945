------------------------------- MODULE Retrieval -------------------------------
(***************************************************************************)
(* Embeddings and recall of store.py: the registry of embedding models,    *)
(* each with a table of vectors of its own and one active, the sidecar     *)
(* that embeds what is missing in batches, search and hybrid_retrieve,     *)
(* which read one channel after another while memories change status, and  *)
(* the checkpoints of projections that retrieval traces name.              *)
(***************************************************************************)
EXTENDS Integers, Sequences, FiniteSets

CONSTANTS
    Memory, RecallAgent,
    Model,      \* keys of embedding models, revision included
    Pinned,     \* the one every store is made with
    ModelId,    \* Model -> the model's name, without the revision
    Querier,    \* callers of search and hybrid_retrieve
    Question,   \* what the callers ask, of all they may
    Limit,      \* results a query asks for
    MaxEdits,   \* bound: writes to memories, registry and checkpoints
    MaxQueries  \* bound: queries and backfills

Eligible == {"active", "confirmed"}
Anyone == "anyone"
\* What a query may ask: whose memories, of which statuses, with a vector, by identifier.
Asked == [agent : RecallAgent \cup {Anyone}, statuses : {Eligible, Eligible \cup {"candidate"}},
          vector : BOOLEAN, exact : {{}} \cup {{m} : m \in Memory}]

ASSUME RetrievalAssumption ==
    /\ Question \subseteq Asked
    /\ Pinned \in Model /\ DOMAIN ModelId = Model
    /\ Limit \in Nat \ {0} /\ MaxEdits \in Nat /\ MaxQueries \in Nat

VARIABLES
    memory,      \* Memory -> [status, owner]
    registry,    \* registered models, in order -> [model, state]
    vector,      \* Model -> memories with a vector in its table
    meta,        \* Memory -> {the model of its row in embeddings_meta}
    failure,     \* rows of embedding_failures
    sidecar,     \* the embedding worker
    query,       \* Querier -> the query it is in
    answer,      \* Querier -> the trace of its last hybrid_retrieve
    checkpoint,  \* rows of projection_checkpoints
    reconciler,  \* a reconcile or a rebuild under way
    edits, queries

recallVars == <<memory, registry, vector, meta, failure, sidecar, query, answer,
                checkpoint, reconciler, edits, queries>>
stored == <<memory, registry, vector, meta, failure>>

AtRest == [step |-> "rest"]
RetrievalInit ==
    /\ memory = [m \in Memory |-> [status |-> "absent", owner |-> Anyone]]
    /\ registry = <<[model |-> Pinned, state |-> "active"]>>
    /\ vector = [x \in Model |-> {}]
    /\ meta = [m \in Memory |-> {}]
    /\ failure = {}
    /\ sidecar = AtRest
    /\ query = [q \in Querier |-> AtRest]
    /\ answer = [q \in Querier |-> {}]
    /\ checkpoint = <<>> /\ reconciler = AtRest
    /\ edits = 0 /\ queries = 0

Edit      == edits < MaxEdits /\ edits' = edits + 1
Asks      == queries < MaxQueries /\ queries' = queries + 1
Status(m) == memory[m].status
Present   == {m \in Memory : Status(m) # "absent"}

-----------------------------------------------------------------------------
(* Memories and models                                                     *)

Remember(m, a, s) ==
    /\ Edit /\ Status(m) = "absent"
    /\ memory' = [memory EXCEPT ![m] = [status |-> s, owner |-> a]]
    /\ UNCHANGED <<registry, vector, meta, failure, sidecar, query, answer,
                   checkpoint, reconciler, queries>>

\* forget_memory, supersede_memory and the decision about a candidate: the
\* vectors stay in their tables.
Settle(m, s) ==
    /\ Edit /\ Status(m) \notin {"absent", "forgotten", s}
    /\ memory' = [memory EXCEPT ![m].status = s]
    /\ UNCHANGED <<registry, vector, meta, failure, sidecar, query, answer,
                   checkpoint, reconciler, queries>>

Keys == {registry[i].model : i \in DOMAIN registry}

\* register_embedding_model: a row that is there takes the state it is given.
Register(x, s) ==
    /\ Edit
    /\ registry' = IF x \in Keys
                   THEN [i \in DOMAIN registry |->
                           IF registry[i].model = x THEN [registry[i] EXCEPT !.state = s]
                           ELSE registry[i]]
                   ELSE Append(registry, [model |-> x, state |-> s])
    /\ UNCHANGED <<memory, vector, meta, failure, sidecar, query, answer,
                   checkpoint, reconciler, queries>>

Promote(x) ==
    /\ Edit /\ x \in Keys
    /\ registry' = [i \in DOMAIN registry |->
                      IF registry[i].model = x THEN [registry[i] EXCEPT !.state = "active"]
                      ELSE IF registry[i].state = "active"
                           THEN [registry[i] EXCEPT !.state = "deprecated"] ELSE registry[i]]
    /\ UNCHANGED <<memory, vector, meta, failure, sidecar, query, answer,
                   checkpoint, reconciler, queries>>

\* get_active_embedding_model: the last registered of those that are active, if any.
Actives == {i \in DOMAIN registry : registry[i].state = "active"}
Active  == {registry[i].model : i \in {j \in Actives : \A k \in Actives : k <= j}}

\* What embedding_coverage counts as current, and what the sidecar need not embed.
CurrentModel(x) == {m \in Memory : /\ Status(m) \in Eligible
                              /\ \E y \in meta[m] : ModelId[y] = ModelId[x]}

-----------------------------------------------------------------------------
(* The sidecar                                                             *)

Missing(x) == {m \in Memory : Status(m) \in Eligible} \ CurrentModel(x)

\* eligible_memories, for the model that is active then.
StartBackfill ==
    /\ sidecar.step = "rest" /\ Asks
    /\ \E x \in Active :
         /\ Missing(x) # {}
         /\ sidecar' = [step |-> "encode", batch |-> Missing(x)]
    /\ UNCHANGED <<stored, query, answer, checkpoint, reconciler, edits>>

\* The model answers, with vectors or not: a batch fails together.
Encode ==
    /\ sidecar.step = "encode"
    /\ \/ sidecar' = [sidecar EXCEPT !.step = "store"] /\ UNCHANGED failure
       \/ /\ failure' = failure \cup {<<m, x>> : m \in sidecar.batch, x \in Active}
          /\ sidecar' = AtRest
    /\ UNCHANGED <<memory, registry, vector, meta, query, answer, checkpoint, reconciler,
                   edits, queries>>

TableOf(x) == x

\* The write of store_embedding for a model, of a memory it may embed.
Embed(m, x) ==
    IF m \in CurrentModel(x) THEN UNCHANGED <<vector, meta, failure>>
    ELSE /\ vector' = [vector EXCEPT ![TableOf(x)] = @ \cup {m}]
         /\ meta' = [meta EXCEPT ![m] = {x}]
         /\ failure' = {f \in failure : f[1] # m}

\* store_embedding of one of the batch; the sidecar names no model, which means
\* the pinned one, and a refusal is recorded.
StoreOne(m) ==
    /\ sidecar.step = "store" /\ m \in sidecar.batch
    /\ sidecar' = IF sidecar.batch = {m} THEN AtRest ELSE [sidecar EXCEPT !.batch = @ \ {m}]
    /\ \/ \E x \in Active : /\ ModelId[x] = ModelId[Pinned] /\ Status(m) \in Eligible
                            /\ Embed(m, x)
       \/ /\ Status(m) \notin Eligible \/ \A x \in Active : ModelId[x] # ModelId[Pinned]
          /\ failure' = failure \cup {<<m, x>> : x \in Active}
          /\ UNCHANGED <<vector, meta>>
    /\ UNCHANGED <<memory, registry, query, answer, checkpoint, reconciler, edits, queries>>

\* A caller that computed a vector for the active model stores it, by its name.
StoreEmbedding(m) ==
    /\ Edit /\ Status(m) \in Eligible
    /\ \E x \in Active : Embed(m, x)
    /\ UNCHANGED <<memory, registry, sidecar, query, answer, checkpoint, reconciler, queries>>

-----------------------------------------------------------------------------
(* Recall                                                                  *)

RecallAt(q, step) == query[q].step = step
Then(q, next) == query' = [query EXCEPT ![q] = next]
Reading == UNCHANGED <<stored, sidecar, checkpoint, reconciler, edits>>

Owned(ids, asked) == {m \in ids : asked.agent \in {Anyone, memory[m].owner}}

\* The lexical channel, by a read connection; the ids and nothing else are kept.
Lexical(q) ==
    /\ RecallAt(q, "rest") /\ Asks
    /\ \E asked \in Question, hybrid \in BOOLEAN :
         \E hits \in SUBSET {m \in Memory : Status(m) \in asked.statuses} :
            /\ hybrid \/ asked.exact = {}
            /\ Then(q, [step |-> "vector", hybrid |-> hybrid, asked |-> asked,
                        lexical |-> IF hybrid THEN Owned(hits, asked) ELSE hits])
    /\ UNCHANGED answer /\ Reading

\* The vector channel: the table of the active model, by the lock.
VectorHits(asked) ==
    IF asked.vector
    THEN {m \in UNION {vector[TableOf(x)] : x \in Active} : Status(m) \in asked.statuses}
    ELSE {}

Vector(q) ==
    /\ RecallAt(q, "vector")
    /\ query[q].asked.vector => Active # {}
    /\ LET hits == VectorHits(query[q].asked)
           ids  == IF query[q].hybrid THEN Owned(hits, query[q].asked) ELSE hits
       IN Then(q, [query[q] EXCEPT !.step = IF query[q].hybrid THEN "others" ELSE "get",
                                   !.lexical = @ \cup ids])
    /\ UNCHANGED <<answer, queries>> /\ Reading

\* Without a registered active model a query with a vector is refused.
NoModel(q) ==
    /\ RecallAt(q, "vector") /\ query[q].asked.vector /\ Active = {}
    /\ Then(q, AtRest)
    /\ UNCHANGED <<answer, queries>> /\ Reading

\* The graph, the identifier and the most recent: evidence of edges and an
\* identifier lead to memories of any agent and status.
Others(q) ==
    /\ RecallAt(q, "others")
    /\ \E graph \in SUBSET Present :
         LET asked  == query[q].asked
             recent == {m \in Memory : Status(m) \in asked.statuses}
             exact  == asked.exact \cap Present
         IN Then(q, [step |-> "fetch", asked |-> asked, hybrid |-> TRUE, exact |-> exact,
                     ids |-> query[q].lexical \cup graph \cup recent \cup exact])
    /\ UNCHANGED <<answer, queries>> /\ Reading

\* Mutant of Passes: a candidate of a channel is not looked at again.
PassesUnseen(m, asked) == TRUE
Passes(m, asked) ==
    /\ memory[m].status \in asked.statuses
    /\ asked.agent \in {Anyone, memory[m].owner}

\* What is left of the candidates, as it is read into the cache of the query.
Fetch(q) ==
    /\ RecallAt(q, "fetch")
    /\ LET keep == {m \in query[q].ids : Passes(m, query[q].asked)}
       IN Then(q, [step |-> "record", asked |-> query[q].asked, exact |-> query[q].exact \cap keep,
                   cache |-> {[memory |-> m, status |-> Status(m), owner |-> memory[m].owner] :
                                 m \in keep}])
    /\ UNCHANGED <<answer, queries>> /\ Reading

\* The order of the fused ranks, cut at the limit: an exact match is first.
CutPage(cache, exact) ==
    {s \in SUBSET cache :
        /\ Cardinality(s) = IF Cardinality(cache) < Limit THEN Cardinality(cache) ELSE Limit
        /\ exact \subseteq {x.memory : x \in s}}

\* What the caps on sources and characters leave of it is recorded, with the
\* latest checkpoint of the memories.
RecordTrace(q) ==
    /\ RecallAt(q, "record")
    /\ \E ranked \in CutPage(query[q].cache, query[q].exact) : \E kept \in SUBSET ranked :
         answer' = [answer EXCEPT ![q] =
            {[asked |-> query[q].asked, results |-> kept, degraded |-> ranked \ kept,
              checkpoint |-> Len(checkpoint)]}]
    /\ Then(q, AtRest)
    /\ UNCHANGED queries /\ Reading

\* search gets the memories it ranked, cut before those of others are left out.
Get(q) ==
    /\ RecallAt(q, "get")
    /\ Then(q, AtRest)
    /\ UNCHANGED <<answer, queries>> /\ Reading

-----------------------------------------------------------------------------
(* Projections                                                             *)

\* _compute_leaves of the memories: their ids and statuses.
Leaves == {<<m, Status(m)>> : m \in Present}
Projecting == UNCHANGED <<stored, sidecar, query, answer, queries>>

\* reconcile_projection_checkpoint compares the latest row, rebuild_projection_checkpoint
\* a new one; the leaves are computed, and then written in a transaction of their own.
StartReconcile(rebuild) ==
    /\ reconciler.step = "rest" /\ Edit
    /\ reconciler' = IF rebuild \/ checkpoint = <<>>
                     THEN [step |-> "insert", leaves |-> Leaves, rebuild |-> rebuild]
                     ELSE [step |-> "compare", row |-> Len(checkpoint), rebuild |-> FALSE]
    /\ UNCHANGED checkpoint /\ Projecting

InsertCheckpoint ==
    /\ reconciler.step = "insert"
    /\ checkpoint' = Append(checkpoint, [leaves |-> reconciler.leaves, status |-> "active"])
    /\ reconciler' = [step |-> "compare", row |-> Len(checkpoint) + 1,
                      rebuild |-> reconciler.rebuild]
    /\ UNCHANGED edits /\ Projecting

\* A checkpoint the leaves have moved away from is degraded.
CompareCheckpoint ==
    /\ reconciler.step = "compare"
    /\ checkpoint' = IF checkpoint[reconciler.row].leaves = Leaves THEN checkpoint
                     ELSE [checkpoint EXCEPT ![reconciler.row].status = "degraded"]
    /\ reconciler' = AtRest
    /\ UNCHANGED edits /\ Projecting

RetrievalNext ==
    \/ \E m \in Memory :
         \/ \E a \in RecallAgent, s \in {"active", "candidate"} : Remember(m, a, s)
         \/ \E s \in {"confirmed", "forgotten"} : Settle(m, s)
         \/ StoreOne(m) \/ StoreEmbedding(m)
    \/ \E x \in Model : Promote(x) \/ \E s \in {"shadow", "active"} : Register(x, s)
    \/ StartBackfill \/ Encode
    \/ \E q \in Querier : \/ Lexical(q) \/ Vector(q) \/ NoModel(q) \/ Others(q)
                          \/ Fetch(q) \/ RecordTrace(q) \/ Get(q)
    \/ \E b \in BOOLEAN : StartReconcile(b)
    \/ InsertCheckpoint \/ CompareCheckpoint

RetrievalSpec == RetrievalInit /\ [][RetrievalNext]_recallVars

-----------------------------------------------------------------------------
RetrievalTypeOK ==
    /\ \A m \in Memory : /\ Status(m) \in {"absent", "active", "candidate", "confirmed", "forgotten"}
                         /\ meta[m] \subseteq Model
    /\ Keys \subseteq Model
    /\ vector \in [Model -> SUBSET Memory]
    /\ failure \subseteq Memory \X Model
    /\ \A q \in Querier : Cardinality(answer[q]) <= 1

\* No trace lists a memory that, when the query read it, had a status or an
\* owner the query did not ask for, whatever channel led to it and whatever
\* happened to it since the channel was read (store.py hybrid_retrieve).
ResultsAdmitted ==
    \A q \in Querier : \A t \in answer[q] : \A r \in t.results :
        r.status \in t.asked.statuses /\ t.asked.agent \in {Anyone, r.owner}

\* What coverage reports as current for the active model is in the table that
\* recall with the active model reads. Fails when two revisions of one model are
\* registered (store.py embedding_coverage, embedding_worker.py eligible_memories).
CurrentHasVector == \A x \in Active : CurrentModel(x) \subseteq vector[x]

(***************************************************************************)
(* Recall answers from what is admitted and from the table of the active   *)
(* model.                                                                  *)
(***************************************************************************)
RecallHolds == ResultsAdmitted /\ CurrentHasVector
=============================================================================
