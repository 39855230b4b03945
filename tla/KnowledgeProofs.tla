--------------------------- MODULE KnowledgeProofs ----------------------------
(*************************************************************************)
(* Proofs about what is captured, searched and shown of what a store     *)
(* knows: Retrieval, KnowledgeGraph and TranscriptIngest.  For any       *)
(* number of agents, memories, models, queries, names, connectors,       *)
(* transcripts and runs, recall and the graph show what the one who asks *)
(* may see, whatever changes in between, and what was read of a          *)
(* transcript is in the store.                                           *)
(*************************************************************************)
EXTENDS Retrieval, KnowledgeGraph, TranscriptIngest,
        FiniteSetTheorems, SequenceTheorems, WellFoundedInduction, TLAPS

-----------------------------------------------------------------------------
(* Retrieval: the inductive invariant *)

MemoryStatus == {"absent", "active", "candidate", "confirmed", "forgotten"}
Admitted(status, whose, asked) == status \in asked.statuses /\ asked.agent \in {Anyone, whose}

\* What a query has in hand, from its question to the cache it answers from.
Hit      == [memory : Memory, status : MemoryStatus, owner : RecallAgent \cup {Anyone}]
Channels == [step : {"vector", "others", "get"}, hybrid : BOOLEAN, asked : Asked, lexical : SUBSET Memory]
Fetching == [step : {"fetch"}, asked : Asked, hybrid : {TRUE}, exact : SUBSET Memory, ids : SUBSET Memory]
Cached   == [step : {"record"}, asked : Asked, exact : SUBSET Memory, cache : SUBSET Hit]
Trace    == [asked : Asked, results : SUBSET Hit, degraded : SUBSET Hit, checkpoint : Nat]

ModelState == {"active", "shadow", "deprecated"}
RecallTyped ==
    /\ memory \in [Memory -> [status : MemoryStatus, owner : RecallAgent \cup {Anyone}]]
    /\ registry \in Seq([model : Model, state : ModelState])
    /\ vector \in [Model -> SUBSET Memory] /\ meta \in [Memory -> SUBSET Model]
    /\ failure \subseteq Memory \X Model
    /\ sidecar \in {AtRest} \cup [step : {"encode", "store"}, batch : SUBSET Memory]
    /\ query \in [Querier -> {AtRest} \cup Channels \cup Fetching \cup Cached]
    /\ answer \in [Querier -> {{}} \cup {{t} : t \in Trace}]

\* The cache of a query holds what it asked for, and so does what it answered.
CacheFits(q) ==
    query[q] \in Cached => \A r \in query[q].cache : Admitted(r.status, r.owner, query[q].asked)
AnswerFits(q) ==
    \A t \in answer[q] : \A r \in t.results : Admitted(r.status, r.owner, t.asked)

RecallInv ==
    /\ RecallTyped
    /\ \A m \in Memory : \A x \in meta[m] : m \in vector[x]
    /\ \A q \in Querier : CacheFits(q) /\ AnswerFits(q)

\* Checkpoints are rows; a reconciliation compares one that is there.
LeafSet   == SUBSET (Memory \X MemoryStatus)
Row       == [leaves : LeafSet, status : {"active", "degraded"}]
Inserting == [step : {"insert"}, leaves : LeafSet, rebuild : BOOLEAN]
Comparing(rows) == [step : {"compare"}, row : 1 .. rows, rebuild : BOOLEAN]
CheckpointTyped ==
    /\ checkpoint \in Seq(Row)
    /\ reconciler \in {AtRest} \cup Inserting \cup Comparing(Len(checkpoint))

LEMMA RegistryFacts ==
    ASSUME RecallInv
    PROVE  /\ Active \subseteq Model /\ Keys \subseteq Model
           /\ \A i \in DOMAIN registry : registry[i] \in [model : Model, state : ModelState]
<1>1. \A i \in DOMAIN registry : registry[i] \in [model : Model, state : ModelState]
  <2>1. registry \in Seq([model : Model, state : ModelState])
    BY DEF RecallInv, RecallTyped
  <2>2. /\ DOMAIN registry = 1 .. Len(registry)
        /\ registry \in [1 .. Len(registry) -> [model : Model, state : ModelState]]
    BY <2>1, LenProperties
  <2>3. QED
    BY <2>2
<1>2. QED
  BY <1>1 DEF Active, Actives, Keys

\* Memories and models are edited while queries are under way.
LEMMA EditKeeps ==
    ASSUME RecallInv, UNCHANGED <<query, answer>>,
           memory' \in [Memory -> [status : MemoryStatus, owner : RecallAgent \cup {Anyone}]],
           registry' \in Seq([model : Model, state : ModelState]),
           UNCHANGED <<vector, meta>>, failure' \subseteq Memory \X Model,
           sidecar' \in {AtRest} \cup [step : {"encode", "store"}, batch : SUBSET Memory]
    PROVE  RecallInv'
<1>1. RecallTyped'
  BY DEF RecallInv, RecallTyped
<1>2. \A q \in Querier : CacheFits(q)' /\ AnswerFits(q)'
  BY DEF RecallInv, CacheFits, AnswerFits
<1>3. QED
  BY <1>1, <1>2 DEF RecallInv

LEMMA RememberSteps ==
    ASSUME RecallInv, NEW m \in Memory,
           \/ \E a \in RecallAgent, s \in {"active", "candidate"} : Remember(m, a, s)
           \/ \E s \in {"confirmed", "forgotten"} : Settle(m, s)
    PROVE  RecallInv'
<1>1. /\ memory' \in [Memory -> [status : MemoryStatus, owner : RecallAgent \cup {Anyone}]]
      /\ UNCHANGED <<registry, vector, meta, failure, sidecar, query, answer>>
  BY DEF Remember, Settle, RecallInv, RecallTyped, MemoryStatus
<1>2. QED
  BY <1>1, EditKeeps DEF RecallInv, RecallTyped

LEMMA FunctionIsSeq ==
    ASSUME NEW S, NEW k \in Nat, NEW f \in [1 .. k -> S] PROVE f \in Seq(S)
  BY SeqDef

LEMMA RegisterSteps ==
    ASSUME RecallInv, NEW x \in Model, Promote(x) \/ \E s \in {"shadow", "active"} : Register(x, s)
    PROVE  RecallInv'
<1>1. UNCHANGED <<memory, vector, meta, failure, sidecar, query, answer>>
  BY DEF Promote, Register
<1> DEFINE n == Len(registry)
<1>2. n \in Nat /\ registry \in [1 .. n -> [model : Model, state : ModelState]]
  BY LenProperties DEF RecallInv, RecallTyped
<1>3. DOMAIN registry = 1 .. n
  BY <1>2
<1> HIDE DEF n
<1>4. \A i \in 1 .. n, s \in ModelState :
         [registry[i] EXCEPT !.state = s] \in [model : Model, state : ModelState]
  BY <1>2
<1>5. registry' \in Seq([model : Model, state : ModelState])
  <2>1. CASE Promote(x)
    <3>1. registry' = [i \in 1 .. n |->
              IF registry[i].model = x THEN [registry[i] EXCEPT !.state = "active"]
              ELSE IF registry[i].state = "active"
                   THEN [registry[i] EXCEPT !.state = "deprecated"] ELSE registry[i]]
      BY <1>3, <2>1 DEF Promote
    <3>a. {"active", "deprecated"} \subseteq ModelState
      BY DEF ModelState
    <3>b. \A i \in 1 .. n : registry[i] \in [model : Model, state : ModelState]
      BY <1>2
    <3>c. \A i \in 1 .. n : registry'[i] \in [model : Model, state : ModelState]
      <4>1. TAKE i \in 1 .. n
      <4>2. /\ [registry[i] EXCEPT !.state = "active"] \in [model : Model, state : ModelState]
            /\ [registry[i] EXCEPT !.state = "deprecated"] \in [model : Model, state : ModelState]
        BY <1>4, <3>a
      <4>3. \/ registry'[i] = [registry[i] EXCEPT !.state = "active"]
            \/ registry'[i] = [registry[i] EXCEPT !.state = "deprecated"]
            \/ registry'[i] = registry[i]
        BY <3>1, Zenon
      <4>4. QED
        BY <4>2, <4>3, <3>b
    <3>2. registry' \in [1 .. n -> [model : Model, state : ModelState]]
      BY <3>1, <3>c, Zenon
    <3>3. QED
      BY <1>2, <3>2, FunctionIsSeq
  <2>2. ASSUME NEW s \in {"shadow", "active"}, Register(x, s), x \in Keys
        PROVE  registry' \in Seq([model : Model, state : ModelState])
    <3>1. registry' = [i \in 1 .. n |->
              IF registry[i].model = x THEN [registry[i] EXCEPT !.state = s] ELSE registry[i]]
      BY <1>3, <2>2 DEF Register
    <3>a. s \in ModelState
      BY DEF ModelState
    <3>b. \A i \in 1 .. n : registry[i] \in [model : Model, state : ModelState]
      BY <1>2
    <3>c. \A i \in 1 .. n : registry'[i] \in [model : Model, state : ModelState]
      <4>1. TAKE i \in 1 .. n
      <4>2. [registry[i] EXCEPT !.state = s] \in [model : Model, state : ModelState]
        BY <1>4, <3>a
      <4>3. \/ registry'[i] = [registry[i] EXCEPT !.state = s]
            \/ registry'[i] = registry[i]
        BY <3>1, Zenon
      <4>4. QED
        BY <4>2, <4>3, <3>b
    <3>2. registry' \in [1 .. n -> [model : Model, state : ModelState]]
      BY <3>1, <3>c, Zenon
    <3>3. QED
      BY <1>2, <3>2, FunctionIsSeq
  <2>3. ASSUME NEW s \in {"shadow", "active"}, Register(x, s), x \notin Keys
        PROVE  registry' \in Seq([model : Model, state : ModelState])
    <3>1. /\ registry' = Append(registry, [model |-> x, state |-> s])
          /\ [model |-> x, state |-> s] \in [model : Model, state : ModelState]
      BY <2>3 DEF Register, ModelState
    <3>2. QED
      BY <3>1, AppendProperties DEF RecallInv, RecallTyped
  <2>4. QED
    BY <2>1, <2>2, <2>3
<1>6. QED
  BY <1>1, <1>5, EditKeeps DEF RecallInv, RecallTyped

LEMMA SidecarSteps ==
    ASSUME RecallInv, StartBackfill \/ Encode
    PROVE  RecallInv'
<1>1. UNCHANGED <<memory, registry, vector, meta, query, answer>>
  BY DEF StartBackfill, Encode, stored
<1>2. failure' \subseteq Memory \X Model
  <2>1. CASE StartBackfill
    BY <2>1 DEF StartBackfill, stored, RecallInv, RecallTyped
  <2>2. CASE Encode
    BY <2>2, RegistryFacts DEF Encode, AtRest, RecallInv, RecallTyped
  <2>3. QED
    BY <2>1, <2>2
<1>3. sidecar' \in {AtRest} \cup [step : {"encode", "store"}, batch : SUBSET Memory]
  <2>1. CASE StartBackfill
    BY <2>1 DEF StartBackfill, Missing
  <2>2. CASE Encode
    <3>1. sidecar \in [step : {"encode", "store"}, batch : SUBSET Memory]
      BY <2>2 DEF Encode, AtRest, RecallInv, RecallTyped
    <3>2. sidecar' \in {AtRest, [sidecar EXCEPT !.step = "store"]}
      BY <2>2 DEF Encode
    <3>3. QED
      BY <3>1, <3>2
  <2>3. QED
    BY <2>1, <2>2
<1>4. QED
  BY <1>1, <1>2, <1>3, EditKeeps DEF RecallInv, RecallTyped

\* A row in embeddings_meta is written with the vector it speaks of.
LEMMA EmbedSteps ==
    ASSUME RecallInv, NEW m \in Memory, StoreOne(m) \/ StoreEmbedding(m)
    PROVE  RecallInv'
<1>1. UNCHANGED <<memory, registry, query, answer>>
  BY DEF StoreOne, StoreEmbedding
<1>2. sidecar' \in {AtRest} \cup [step : {"encode", "store"}, batch : SUBSET Memory]
  BY DEF StoreOne, StoreEmbedding, AtRest, RecallInv, RecallTyped
<1>3. CASE \E x \in Active : Embed(m, x)
  <2>1. PICK x \in Model : Embed(m, x)
    BY <1>3, RegistryFacts
  <2>0. /\ vector \in [Model -> SUBSET Memory] /\ meta \in [Memory -> SUBSET Model]
        /\ failure \subseteq Memory \X Model
        /\ \A n \in Memory : \A y \in meta[n] : n \in vector[y]
    BY DEF RecallInv, RecallTyped
  <2>a. CASE UNCHANGED <<vector, meta, failure>>
    <3>1. /\ vector' \in [Model -> SUBSET Memory] /\ meta' \in [Memory -> SUBSET Model]
          /\ failure' \subseteq Memory \X Model
          /\ \A n \in Memory : \A y \in meta'[n] : n \in vector'[y]
      BY <2>0, <2>a
    <3>2. QED
      BY <1>1, <1>2, <2>a, <3>1, EditKeeps DEF RecallInv, RecallTyped
  <2>b. CASE /\ vector' = [vector EXCEPT ![x] = @ \cup {m}] /\ meta' = [meta EXCEPT ![m] = {x}]
             /\ failure' = {f \in failure : f[1] # m}
    <3>1. vector' \in [Model -> SUBSET Memory]
      BY <2>0, <2>b
    <3>2. meta' \in [Memory -> SUBSET Model]
      BY <2>0, <2>b
    <3>3. failure' \subseteq Memory \X Model
      BY <2>0, <2>b
    <3>4. \A y \in Model : vector[y] \subseteq vector'[y] /\ m \in vector'[x]
      BY <2>0, <2>b
    <3>5. \A n \in Memory : \A y \in meta'[n] : n \in vector'[y]
      BY <2>0, <2>b, <3>4
    <3>6. RecallTyped'
      BY <1>1, <1>2, <3>1, <3>2, <3>3 DEF RecallInv, RecallTyped
    <3>7. \A q \in Querier : CacheFits(q)' /\ AnswerFits(q)'
      BY <1>1 DEF RecallInv, CacheFits, AnswerFits
    <3>8. QED
      BY <3>5, <3>6, <3>7 DEF RecallInv
  <2>6. QED
    BY <2>1, <2>a, <2>b DEF Embed, TableOf
<1>4. CASE failure' = failure \cup {<<m, x>> : x \in Active} /\ UNCHANGED <<vector, meta>>
  <2>1. failure' \subseteq Memory \X Model
    BY <1>4, RegistryFacts DEF RecallInv, RecallTyped
  <2>2. QED
    BY <1>1, <1>2, <1>4, <2>1, EditKeeps DEF RecallInv, RecallTyped
<1>5. QED
  BY <1>3, <1>4 DEF StoreOne, StoreEmbedding

-----------------------------------------------------------------------------
(* Queries *)

QueryState == {AtRest} \cup Channels \cup Fetching \cup Cached

\* Only the query of q, and what it answered, change.
LEMMA QueryMoves ==
    ASSUME RecallInv, NEW q \in Querier,
           UNCHANGED <<memory, registry, vector, meta, failure, sidecar>>,
           NEW next \in QueryState, query' = [query EXCEPT ![q] = next],
           next \in Cached => \A r \in next.cache : Admitted(r.status, r.owner, next.asked),
           answer' \in [Querier -> {{}} \cup {{t} : t \in Trace}],
           \A p \in Querier : AnswerFits(p)'
    PROVE  RecallInv'
<1>1. query \in [Querier -> QueryState]
  BY DEF RecallInv, RecallTyped, QueryState
<1>2. query' \in [Querier -> QueryState] /\ \A p \in Querier : query'[p] = IF p = q THEN next ELSE query[p]
  BY <1>1
<1>3. RecallTyped'
  BY <1>2 DEF RecallInv, RecallTyped, QueryState
<1>4. \A p \in Querier : CacheFits(p)'
  BY <1>2 DEF RecallInv, CacheFits
<1>5. QED
  BY <1>3, <1>4 DEF RecallInv

\* A query at a step is in the state its step says.
LEMMA QueryAt ==
    ASSUME RecallInv, NEW q \in Querier
    PROVE  /\ query[q].step \in {"vector", "others", "get"} => query[q] \in Channels
           /\ query[q].step = "fetch" => query[q] \in Fetching
           /\ query[q].step = "record" => query[q] \in Cached
<1>1. query[q] \in {AtRest} \cup Channels \cup Fetching \cup Cached
  BY DEF RecallInv, RecallTyped
<1>2. /\ AtRest.step = "rest" /\ \A c \in Channels : c.step \in {"vector", "others", "get"}
      /\ \A c \in Fetching : c.step = "fetch"
      /\ \A c \in Cached : c.step = "record"
  BY DEF AtRest, Channels, Fetching, Cached
<1>3. QED
  BY <1>1, <1>2

LEMMA ChannelSteps ==
    ASSUME RecallInv, NEW q \in Querier, Lexical(q) \/ Vector(q) \/ NoModel(q) \/ Others(q) \/ Get(q)
    PROVE  RecallInv'
<1>1. UNCHANGED <<memory, registry, vector, meta, failure, sidecar, answer>>
  BY DEF Lexical, Vector, NoModel, Others, Get, Reading, stored
<1>2. /\ answer' \in [Querier -> {{}} \cup {{t} : t \in Trace}]
      /\ \A p \in Querier : AnswerFits(p)'
  BY <1>1 DEF RecallInv, RecallTyped, AnswerFits
<1>3. \A next \in Channels \cup Fetching \cup {AtRest} : next \notin Cached
  <2>1. /\ AtRest.step = "rest" /\ \A c \in Channels : c.step \in {"vector", "others", "get"}
        /\ \A c \in Fetching : c.step = "fetch"
        /\ \A c \in Cached : c.step = "record"
    BY DEF AtRest, Channels, Fetching, Cached
  <2>2. QED
    BY <2>1
<1>4. \E next \in Channels \cup Fetching \cup {AtRest} : query' = [query EXCEPT ![q] = next]
  <2>1. CASE Lexical(q)
    <3>1. PICK asked \in Question, hybrid \in BOOLEAN :
             \E hits \in SUBSET {m \in Memory : Status(m) \in asked.statuses} :
                Then(q, [step |-> "vector", hybrid |-> hybrid, asked |-> asked,
                        lexical |-> IF hybrid THEN Owned(hits, asked) ELSE hits])
      BY <2>1 DEF Lexical
    <3>2. PICK hits \in SUBSET Memory :
                Then(q, [step |-> "vector", hybrid |-> hybrid, asked |-> asked,
                        lexical |-> IF hybrid THEN Owned(hits, asked) ELSE hits])
      BY <3>1
    <3>3. asked \in Asked /\ (IF hybrid THEN Owned(hits, asked) ELSE hits) \subseteq Memory
      BY RetrievalAssumption DEF Owned
    <3> DEFINE leading == IF hybrid THEN Owned(hits, asked) ELSE hits
    <3>4. query' = [query EXCEPT ![q] = [step |-> "vector", hybrid |-> hybrid, asked |-> asked,
                                         lexical |-> leading]]
      BY <3>2 DEF Then
    <3>5. leading \subseteq Memory
      BY <3>3
    <3> HIDE DEF leading
    <3>6. [step |-> "vector", hybrid |-> hybrid, asked |-> asked, lexical |-> leading] \in Channels
      BY <3>3, <3>5 DEF Channels
    <3>7. QED
      BY <3>4, <3>6
  <2>2. CASE Vector(q)
    <3>1. query[q] \in Channels
      BY <2>2, QueryAt DEF Vector, RecallAt
    <3> DEFINE hits == VectorHits(query[q].asked)
               ids == IF query[q].hybrid THEN Owned(hits, query[q].asked) ELSE hits
    <3>2. hits \subseteq Memory
      BY RegistryFacts DEF VectorHits, TableOf, RecallInv, RecallTyped
    <3>3. ids \subseteq Memory
      BY <3>2 DEF Owned
    <3>4. Then(q, [query[q] EXCEPT !.step = IF query[q].hybrid THEN "others" ELSE "get",
                                   !.lexical = @ \cup ids])
      BY <2>2 DEF Vector
    <3> HIDE DEF ids
    <3>5. [query[q] EXCEPT !.step = IF query[q].hybrid THEN "others" ELSE "get",
                           !.lexical = @ \cup ids] \in Channels
      BY <3>1, <3>3 DEF Channels
    <3>6. QED
      BY <3>4, <3>5 DEF Then
  <2>3. CASE NoModel(q) \/ Get(q)
    BY <2>3 DEF NoModel, Get, Then
  <2>4. CASE Others(q)
    <3>1. query[q] \in Channels
      BY <2>4, QueryAt DEF Others, RecallAt
    <3>2. PICK graph \in SUBSET Present :
             Then(q, [step |-> "fetch", asked |-> query[q].asked, hybrid |-> TRUE,
                      exact |-> query[q].asked.exact \cap Present,
                      ids |-> query[q].lexical \cup graph
                              \cup {m \in Memory : Status(m) \in query[q].asked.statuses}
                              \cup (query[q].asked.exact \cap Present)])
      BY <2>4 DEF Others
    <3>3. Present \subseteq Memory
      BY DEF Present
    <3>4. [step |-> "fetch", asked |-> query[q].asked, hybrid |-> TRUE,
           exact |-> query[q].asked.exact \cap Present,
           ids |-> query[q].lexical \cup graph
                   \cup {m \in Memory : Status(m) \in query[q].asked.statuses}
                   \cup (query[q].asked.exact \cap Present)] \in Fetching
      BY <3>1, <3>3 DEF Channels, Fetching
    <3>5. QED
      BY <3>2, <3>4 DEF Then
  <2>5. QED
    BY <2>1, <2>2, <2>3, <2>4
<1>5. QED
  BY <1>1, <1>2, <1>3, <1>4, QueryMoves DEF QueryState

\* What is left of the candidates passes the filter as it is read into the cache.
LEMMA FetchStep ==
    ASSUME RecallInv, NEW q \in Querier, Fetch(q)
    PROVE  RecallInv'
<1>1. UNCHANGED <<memory, registry, vector, meta, failure, sidecar, answer>>
  BY DEF Fetch, Reading, stored
<1>2. /\ answer' \in [Querier -> {{}} \cup {{t} : t \in Trace}]
      /\ \A p \in Querier : AnswerFits(p)'
  BY <1>1 DEF RecallInv, RecallTyped, AnswerFits
<1>3. query[q] \in Fetching
  BY QueryAt DEF Fetch, RecallAt
<1> DEFINE keep == {m \in query[q].ids : Passes(m, query[q].asked)}
           rows == {[memory |-> m, status |-> Status(m), owner |-> memory[m].owner] : m \in keep}
           next == [step |-> "record", asked |-> query[q].asked,
                    exact |-> query[q].exact \cap keep, cache |-> rows]
<1>4. query' = [query EXCEPT ![q] = next]
  BY DEF Fetch, Then
<1>5. keep \subseteq Memory /\ query[q].asked \in Asked /\ query[q].exact \subseteq Memory
  BY <1>3 DEF Fetching
<1>6. \A r \in rows : r \in Hit /\ Admitted(r.status, r.owner, query[q].asked)
  <2>1. \A m \in Memory : memory[m] \in [status : MemoryStatus, owner : RecallAgent \cup {Anyone}]
    BY DEF RecallInv, RecallTyped
  <2>2. QED
    BY <1>5, <2>1 DEF Hit, Admitted, Passes, Status
<1> HIDE DEF keep, rows
<1>7. next \in Cached
  BY <1>5, <1>6 DEF Cached
<1>8. \A r \in next.cache : Admitted(r.status, r.owner, next.asked)
  BY <1>6
<1>9. QED
  BY <1>1, <1>2, <1>4, <1>7, <1>8, QueryMoves DEF QueryState

\* What is recorded was in the cache.
LEMMA TraceStep ==
    ASSUME RecallInv, checkpoint \in Seq(Row), NEW q \in Querier, RecordTrace(q)
    PROVE  RecallInv'
<1>1. UNCHANGED <<memory, registry, vector, meta, failure, sidecar>>
  BY DEF RecordTrace, Reading, stored
<1>2. query[q] \in Cached
  BY QueryAt DEF RecordTrace, RecallAt
<1>3. PICK ranked \in CutPage(query[q].cache, query[q].exact) : \E shown \in SUBSET ranked :
         answer' = [answer EXCEPT ![q] =
            {[asked |-> query[q].asked, results |-> shown, degraded |-> ranked \ shown,
              checkpoint |-> Len(checkpoint)]}]
  BY DEF RecordTrace
<1>a. PICK shown \in SUBSET ranked :
         answer' = [answer EXCEPT ![q] =
            {[asked |-> query[q].asked, results |-> shown, degraded |-> ranked \ shown,
              checkpoint |-> Len(checkpoint)]}]
  BY <1>3
<1>4. /\ query[q].asked \in Asked /\ query[q].cache \in SUBSET Hit
      /\ \A r \in query[q].cache : Admitted(r.status, r.owner, query[q].asked)
  BY <1>2 DEF Cached, RecallInv, CacheFits
<1>5. ranked \subseteq query[q].cache
  BY <1>3 DEF CutPage
<1> DEFINE recorded == [asked |-> query[q].asked, results |-> shown, degraded |-> ranked \ shown,
                     checkpoint |-> Len(checkpoint)]
<1>6. recorded \in Trace /\ \A r \in recorded.results : Admitted(r.status, r.owner, recorded.asked)
  BY <1>4, <1>5, LenProperties DEF Trace
<1>7. answer' = [answer EXCEPT ![q] = {recorded}]
  BY <1>a
<1> HIDE DEF recorded
<1>8. /\ answer' \in [Querier -> {{}} \cup {{t} : t \in Trace}]
      /\ \A p \in Querier : AnswerFits(p)'
  <2>1. answer \in [Querier -> {{}} \cup {{t} : t \in Trace}] /\ \A p \in Querier : AnswerFits(p)
    BY DEF RecallInv, RecallTyped
  <2>2. answer'[q] = {recorded} /\ \A p \in Querier : p # q => answer'[p] = answer[p]
    BY <1>7, <2>1
  <2>3. answer' \in [Querier -> {{}} \cup {{t} : t \in Trace}]
    BY <1>6, <1>7, <2>1
  <2>4. \A p \in Querier : AnswerFits(p)'
    BY <1>6, <2>1, <2>2 DEF AnswerFits
  <2>5. QED
    BY <2>3, <2>4
<1>9. query' = [query EXCEPT ![q] = AtRest] /\ AtRest \in QueryState /\ AtRest \notin Cached
  <2>1. AtRest.step = "rest" /\ \A c \in Cached : c.step = "record"
    BY DEF AtRest, Cached
  <2>2. QED
    BY <2>1 DEF RecordTrace, Then, QueryState
<1>10. QED
  BY <1>1, <1>8, <1>9, QueryMoves

\* A checkpoint is appended, and degraded in its place.
LEMMA CheckpointSteps ==
    ASSUME RecallInv, CheckpointTyped,
           (\E b \in BOOLEAN : StartReconcile(b)) \/ InsertCheckpoint \/ CompareCheckpoint
    PROVE  RecallInv' /\ CheckpointTyped'
<1>1. UNCHANGED <<memory, registry, vector, meta, failure, sidecar, query, answer>>
  BY DEF StartReconcile, InsertCheckpoint, CompareCheckpoint, Projecting, stored
<1>2. RecallInv'
  BY <1>1, EditKeeps DEF RecallInv, RecallTyped
<1>3. checkpoint \in Seq(Row) /\ Len(checkpoint) \in Nat
  BY LenProperties DEF CheckpointTyped
<1>4. Leaves \in LeafSet
  BY DEF Leaves, LeafSet, Present, Status, RecallInv, RecallTyped
<1>5. CASE \E b \in BOOLEAN : StartReconcile(b)
  <2>1. /\ UNCHANGED checkpoint
        /\ \/ \E b \in BOOLEAN : reconciler' = [step |-> "insert", leaves |-> Leaves, rebuild |-> b]
           \/ /\ checkpoint # <<>>
              /\ reconciler' = [step |-> "compare", row |-> Len(checkpoint), rebuild |-> FALSE]
    BY <1>5 DEF StartReconcile
  <2>2. checkpoint # <<>> => Len(checkpoint) \in 1 .. Len(checkpoint)
    BY <1>3, EmptySeq
  <2>3. reconciler' \in Inserting \cup Comparing(Len(checkpoint))
    <3>1. CASE \E b \in BOOLEAN : reconciler' = [step |-> "insert", leaves |-> Leaves, rebuild |-> b]
      BY <1>4, <3>1 DEF Inserting
    <3>2. CASE /\ checkpoint # <<>>
               /\ reconciler' = [step |-> "compare", row |-> Len(checkpoint), rebuild |-> FALSE]
      BY <2>2, <3>2 DEF Comparing
    <3>3. QED
      BY <2>1, <3>1, <3>2
  <2>4. QED
    BY <1>2, <1>3, <2>1, <2>3 DEF CheckpointTyped
<1>6. CASE InsertCheckpoint
  <2>1. reconciler \in Inserting
    BY <1>6 DEF InsertCheckpoint, CheckpointTyped, Inserting, Comparing, AtRest
  <2>2. [leaves |-> reconciler.leaves, status |-> "active"] \in Row
    BY <2>1 DEF Inserting, Row
  <2>3. checkpoint' \in Seq(Row) /\ Len(checkpoint') = Len(checkpoint) + 1
    BY <1>3, <1>6, <2>2, AppendProperties DEF InsertCheckpoint
  <2>4. Len(checkpoint) + 1 \in 1 .. Len(checkpoint') /\ reconciler.rebuild \in BOOLEAN
    BY <1>3, <2>1, <2>3 DEF Inserting
  <2>5. reconciler' \in Comparing(Len(checkpoint'))
    BY <1>6, <2>4 DEF InsertCheckpoint, Comparing
  <2>6. QED
    BY <1>2, <2>3, <2>5 DEF CheckpointTyped
<1>7. CASE CompareCheckpoint
  <2>1. reconciler \in Comparing(Len(checkpoint)) /\ reconciler' = AtRest
    BY <1>7 DEF CompareCheckpoint, CheckpointTyped, Inserting, Comparing, AtRest
  <2>2. checkpoint[reconciler.row] \in Row /\ reconciler.row \in 1 .. Len(checkpoint)
    BY <1>3, <2>1, ElementOfSeq DEF Comparing
  <2>3. [checkpoint[reconciler.row] EXCEPT !.status = "degraded"] \in Row
    BY <2>2 DEF Row
  <2>4. checkpoint' \in Seq(Row)
    <3>1. \/ checkpoint' = checkpoint
          \/ checkpoint' = [checkpoint EXCEPT ![reconciler.row] =
                              [checkpoint[reconciler.row] EXCEPT !.status = "degraded"]]
      BY <1>7 DEF CompareCheckpoint
    <3>2. QED
      BY <1>3, <2>2, <2>3, <3>1, ExceptSeq
  <2>5. QED
    BY <1>2, <2>1, <2>4 DEF CheckpointTyped
<1>8. QED
  BY <1>5, <1>6, <1>7

LEMMA RecallStarts == ASSUME RetrievalInit PROVE RecallInv /\ CheckpointTyped
<1>1. registry \in Seq([model : Model, state : ModelState])
  <2>1. [model |-> Pinned, state |-> "active"] \in [model : Model, state : ModelState]
    BY RetrievalAssumption DEF ModelState
  <2>2. QED
    BY <2>1 DEF RetrievalInit
<1>2. RecallTyped
  BY <1>1 DEF RetrievalInit, RecallTyped, MemoryStatus
<1>3. \A q \in Querier : CacheFits(q) /\ AnswerFits(q)
  <2>1. AtRest.step = "rest" /\ \A c \in Cached : c.step = "record"
    BY DEF AtRest, Cached
  <2>2. QED
    BY <2>1 DEF RetrievalInit, CacheFits, AnswerFits
<1>4. QED
  BY <1>2, <1>3, EmptySeq DEF RetrievalInit, RecallInv, CheckpointTyped

LEMMA RecallSteps ==
    ASSUME RecallInv, CheckpointTyped, [RetrievalNext]_recallVars
    PROVE  RecallInv' /\ CheckpointTyped'
<1>1. CASE UNCHANGED recallVars
  BY <1>1, EditKeeps DEF recallVars, RecallInv, RecallTyped, CheckpointTyped, Comparing
<1>2. ASSUME NEW m \in Memory,
             \/ \E a \in RecallAgent, s \in {"active", "candidate"} : Remember(m, a, s)
             \/ \E s \in {"confirmed", "forgotten"} : Settle(m, s)
      PROVE  RecallInv' /\ CheckpointTyped'
  <2>1. UNCHANGED <<checkpoint, reconciler>>
    BY <1>2 DEF Remember, Settle
  <2>2. QED
    BY <1>2, <2>1, RememberSteps DEF CheckpointTyped
<1>3. ASSUME NEW m \in Memory, StoreOne(m) \/ StoreEmbedding(m)
      PROVE  RecallInv' /\ CheckpointTyped'
  BY <1>3, EmbedSteps DEF CheckpointTyped, StoreOne, StoreEmbedding
<1>4. ASSUME NEW x \in Model, Promote(x) \/ \E s \in {"shadow", "active"} : Register(x, s)
      PROVE  RecallInv' /\ CheckpointTyped'
  <2>1. UNCHANGED <<checkpoint, reconciler>>
    BY <1>4 DEF Promote, Register
  <2>2. QED
    BY <1>4, <2>1, RegisterSteps DEF CheckpointTyped
<1>5. CASE StartBackfill \/ Encode
  BY <1>5, SidecarSteps DEF CheckpointTyped, StartBackfill, Encode
<1>6. ASSUME NEW q \in Querier, Lexical(q) \/ Vector(q) \/ NoModel(q) \/ Others(q) \/ Get(q)
      PROVE  RecallInv' /\ CheckpointTyped'
  <2>1. UNCHANGED <<checkpoint, reconciler>>
    BY <1>6 DEF Lexical, Vector, NoModel, Others, Get, Reading
  <2>2. QED
    BY <1>6, <2>1, ChannelSteps DEF CheckpointTyped
<1>7. ASSUME NEW q \in Querier, Fetch(q) \/ RecordTrace(q)
      PROVE  RecallInv' /\ CheckpointTyped'
  <2>1. UNCHANGED <<checkpoint, reconciler>>
    BY <1>7 DEF Fetch, RecordTrace, Reading
  <2>2. QED
    BY <1>7, <2>1, FetchStep, TraceStep DEF CheckpointTyped
<1>8. CASE (\E b \in BOOLEAN : StartReconcile(b)) \/ InsertCheckpoint \/ CompareCheckpoint
  BY <1>8, CheckpointSteps
<1>9. QED
  BY <1>1, <1>2, <1>3, <1>4, <1>5, <1>6, <1>7, <1>8 DEF RetrievalNext

LEMMA RecallAlways == RetrievalSpec => [](RecallInv /\ CheckpointTyped)
<1>1. RetrievalInit => RecallInv /\ CheckpointTyped
  BY RecallStarts
<1>2. RecallInv /\ CheckpointTyped /\ [RetrievalNext]_recallVars => (RecallInv /\ CheckpointTyped)'
  BY RecallSteps
<1>3. QED
  BY <1>1, <1>2, PTL DEF RetrievalSpec

\* Memories, models, vectors and answers keep their types, whoever edits while
\* queries, the sidecar and reconciliations are under way.
THEOREM RecallTypesHold == RetrievalSpec => []RetrievalTypeOK
<1>1. RecallInv => RetrievalTypeOK
  <2> SUFFICES ASSUME RecallInv PROVE RetrievalTypeOK
    OBVIOUS
  <2>1. \A q \in Querier : Cardinality(answer[q]) <= 1
    <3>1. TAKE q \in Querier
    <3>2. answer[q] \in {{}} \cup {{t} : t \in Trace}
      BY DEF RecallInv, RecallTyped
    <3>3. CASE answer[q] = {}
      <4>1. Cardinality(answer[q]) = 0
        BY <3>3, FS_EmptySet, Zenon
      <4>2. QED
        BY <4>1
    <3>4. ASSUME NEW t, answer[q] = {t} PROVE Cardinality(answer[q]) <= 1
      <4>1. Cardinality(answer[q]) = 1
        BY <3>4, FS_Singleton, Zenon
      <4>2. QED
        BY <4>1
    <3>5. QED
      BY <3>2, <3>3, <3>4
  <2>2. \A m \in Memory : Status(m) \in MemoryStatus /\ meta[m] \subseteq Model
    BY DEF RecallInv, RecallTyped, Status
  <2>3. vector \in [Model -> SUBSET Memory] /\ failure \subseteq Memory \X Model
    BY DEF RecallInv, RecallTyped
  <2>4. QED
    BY <2>1, <2>2, <2>3, RegistryFacts DEF RetrievalTypeOK, MemoryStatus
<1>2. QED
  BY <1>1, RecallAlways, PTL

\* No trace lists a memory that its query, reading it, was not to see: of any
\* number of agents, models and queries, with any edits between the channels.
THEOREM ResultsAlwaysAdmitted == RetrievalSpec => []ResultsAdmitted
<1>1. RecallInv => ResultsAdmitted
  BY DEF RecallInv, AnswerFits, Admitted, ResultsAdmitted
<1>2. QED
  BY <1>1, RecallAlways, PTL

\* While no two models share a name, what coverage calls current for the active
\* model is in the table that recall reads, so recall holds as a whole.
THEOREM RecallAlwaysHolds ==
    (\A x, y \in Model : ModelId[x] = ModelId[y] => x = y) => (RetrievalSpec => []RecallHolds)
<1> SUFFICES ASSUME \A x, y \in Model : ModelId[x] = ModelId[y] => x = y
             PROVE  RetrievalSpec => []RecallHolds
  OBVIOUS
<1>1. RecallInv => CurrentHasVector
  <2> SUFFICES ASSUME RecallInv, NEW x \in Active, NEW m \in CurrentModel(x) PROVE m \in vector[x]
    BY DEF CurrentHasVector
  <2>1. PICK y \in meta[m] : ModelId[y] = ModelId[x]
    BY DEF CurrentModel
  <2>2. m \in Memory /\ x \in Model /\ y \in Model /\ m \in vector[y]
    BY <2>1, RegistryFacts DEF CurrentModel, RecallInv, RecallTyped
  <2>3. QED
    BY <2>1, <2>2
<1>2. RecallInv => ResultsAdmitted
  BY DEF RecallInv, AnswerFits, Admitted, ResultsAdmitted
<1>3. QED
  BY <1>1, <1>2, RecallAlways, PTL DEF RecallHolds

-----------------------------------------------------------------------------
(* KnowledgeGraph: the inductive invariant *)

EntityRow   == [name : Name, kind : EntityKind, scope : Scope]
RelationRow == [subject : Nat, predicate : Predicate, object : Nat, evidence : Nat, scope : Scope]

\* A relation is shared, or its scope is its evidence's, as a connector or as
\* the store writes the agent's name.
ScopeFits(scope, source) ==
    \/ scope \in {Public, source}
    \/ \E a \in Reader : source = StoredTriple(a) /\ scope = Raw(a)

\* A connector between its two transactions knows its memory and its scope.
Between(g, memories) ==
    /\ g.op \in {"triples", "article", "bundle", "sample", "summary"}
    /\ g.claim \in Claims /\ g.memory \in DOMAIN memories /\ g.scope \in Scope
    /\ ScopeFits(g.scope, memories[g.memory])

GraphTyped ==
    /\ entity \in Seq(EntityRow) /\ Len(entity) <= MaxEntity
    /\ alias \subseteq [entity : DOMAIN entity, name : Name]
    /\ relation \in Seq(RelationRow) /\ evidence \in Seq(Scope)
    /\ graphCalls \in 0 .. MaxGraphCalls
    /\ DOMAIN ingest = Ingester
    /\ \A i \in Ingester : ingest[i].op \in {"none", "retype"} \/ Between(ingest[i], evidence)

\* Both ends of a relation are of its scope or shared.
RelationFits(r, rows, memories) ==
    /\ r.subject \in DOMAIN rows /\ r.object \in DOMAIN rows /\ r.evidence \in DOMAIN memories
    /\ ScopeFits(r.scope, memories[r.evidence])
    /\ {rows[r.subject].scope, rows[r.object].scope} \subseteq {r.scope, Public}

GraphInv == GraphTyped /\ \A i \in DOMAIN relation : RelationFits(relation[i], entity, evidence)

-----------------------------------------------------------------------------
(* Rows of entities are only added, and keep their names and scopes *)

Extends(es, rows) ==
    /\ rows \in Seq(EntityRow) /\ Len(es) <= Len(rows)
    /\ \A e \in DOMAIN es : e \in DOMAIN rows /\ rows[e].scope = es[e].scope
Holds(rows, e, scope) == e \in DOMAIN rows /\ rows[e].scope \in {scope, Public}

LEMMA SeqFacts ==
    ASSUME NEW S, NEW q \in Seq(S)
    PROVE  /\ Len(q) \in Nat /\ DOMAIN q = 1 .. Len(q)
           /\ \A i \in DOMAIN q : q[i] \in S
           /\ \A x \in S : /\ Append(q, x) \in Seq(S) /\ Len(Append(q, x)) = Len(q) + 1
                           /\ DOMAIN Append(q, x) = 1 .. (Len(q) + 1)
                           /\ Append(q, x)[Len(q) + 1] = x
                           /\ \A i \in DOMAIN q : Append(q, x)[i] = q[i]
<1>1. Len(q) \in Nat /\ DOMAIN q = 1 .. Len(q) /\ \A i \in DOMAIN q : q[i] \in S
  BY LenProperties, ElementOfSeq
<1>2. ASSUME NEW x \in S
      PROVE  /\ Append(q, x) \in Seq(S) /\ Len(Append(q, x)) = Len(q) + 1
             /\ DOMAIN Append(q, x) = 1 .. (Len(q) + 1)
             /\ Append(q, x)[Len(q) + 1] = x
             /\ \A i \in DOMAIN q : Append(q, x)[i] = q[i]
  <2>1. /\ Append(q, x) \in Seq(S) /\ Len(Append(q, x)) = Len(q) + 1
        /\ \A i \in 1 .. Len(q) : Append(q, x)[i] = q[i]
        /\ Append(q, x)[Len(q) + 1] = x
    BY <1>1, AppendProperties
  <2>2. DOMAIN Append(q, x) = 1 .. (Len(q) + 1)
    BY <2>1, LenProperties
  <2>3. QED
    BY <1>1, <2>1, <2>2
<1>3. QED
  BY <1>1, <1>2

\* An entity that is found or made is of the scope asked for, or shared.
LEMMA GetOrCreateFits ==
    ASSUME NEW es \in Seq(EntityRow), Extends(entity, es), GraphTyped,
           NEW n \in Name, NEW k \in EntityKind, NEW scope \in Scope,
           NEW x \in GetOrCreate(es, n, k, scope)
    PROVE  Extends(es, x.rows) /\ Holds(x.rows, x.id, scope)
<1>1. \A e \in Aliased(n) : e \in DOMAIN es
  BY DEF Aliased, GraphTyped, Extends
<1>2. Extends(es, es)
  BY SeqFacts DEF Extends
<1>3. CASE \E e \in Aliased(n) : Usable(es, e, scope) /\ x = [id |-> e, rows |-> es]
  BY <1>1, <1>2, <1>3 DEF Holds, Usable
<1>4. CASE \E e \in Exact(es, n, k, scope) : x = [id |-> e, rows |-> es]
  BY <1>2, <1>4 DEF Holds, Exact
<1>5. CASE x = [id |-> Len(es) + 1, rows |-> Append(es, [name |-> n, kind |-> k, scope |-> scope])]
  <2> DEFINE made == [name |-> n, kind |-> k, scope |-> scope]
  <2>1. made \in EntityRow
    BY DEF EntityRow
  <2>2. /\ Append(es, made) \in Seq(EntityRow) /\ Len(Append(es, made)) = Len(es) + 1
        /\ DOMAIN Append(es, made) = 1 .. (Len(es) + 1) /\ Append(es, made)[Len(es) + 1] = made
        /\ \A i \in DOMAIN es : Append(es, made)[i] = es[i]
        /\ Len(es) \in Nat /\ DOMAIN es = 1 .. Len(es)
    BY <2>1, SeqFacts
  <2>3. Extends(es, Append(es, made))
    BY <2>2 DEF Extends
  <2>4. Holds(Append(es, made), Len(es) + 1, scope)
    BY <2>2 DEF Holds
  <2>5. QED
    BY <1>5, <2>3, <2>4
<1>6. QED
  BY <1>3, <1>4, <1>5 DEF GetOrCreate

LEMMA EndsFit ==
    ASSUME GraphTyped, NEW c \in Claims, NEW k \in EntityKind, NEW scope \in Scope,
           NEW x \in Ends(c, k, scope)
    PROVE  /\ Extends(entity, x.rows)
           /\ Holds(x.rows, x.subject, scope) /\ Holds(x.rows, x.object, scope)
<1>1. PICK s \in GetOrCreate(entity, c.subject, k, scope) :
         x \in {[subject |-> s.id, object |-> o.id, rows |-> o.rows] :
                  o \in GetOrCreate(s.rows, c.object, k, scope)}
  BY DEF Ends
<1>2. PICK o \in GetOrCreate(s.rows, c.object, k, scope) :
         x = [subject |-> s.id, object |-> o.id, rows |-> o.rows]
  BY <1>1
<1>3. c.subject \in Name /\ c.object \in Name
  BY DEF Claims
<1>4. entity \in Seq(EntityRow) /\ Extends(entity, entity)
  BY SeqFacts DEF GraphTyped, Extends
<1>5. Extends(entity, s.rows) /\ Holds(s.rows, s.id, scope)
  BY <1>1, <1>3, <1>4, GetOrCreateFits
<1>6. s.rows \in Seq(EntityRow)
  BY <1>5 DEF Extends
<1>7. Extends(s.rows, o.rows) /\ Holds(o.rows, o.id, scope)
  BY <1>2, <1>3, <1>5, <1>6, GetOrCreateFits
<1>8. Extends(entity, o.rows)
  <2>1. Len(entity) \in Nat /\ Len(s.rows) \in Nat /\ Len(o.rows) \in Nat
    BY <1>4, <1>6, <1>7, LenProperties DEF Extends
  <2>2. QED
    BY <1>5, <1>7, <2>1 DEF Extends
<1>9. Holds(o.rows, s.id, scope)
  BY <1>5, <1>7 DEF Extends, Holds
<1>10. QED
  BY <1>2, <1>7, <1>8, <1>9

-----------------------------------------------------------------------------
(* Every step keeps the invariant *)

\* More entities and memories, the same relations and connectors.
LEMMA RowsAdded ==
    ASSUME GraphInv, Extends(entity, entity'), Len(entity') <= MaxEntity,
           evidence' \in Seq(Scope),
           \A m \in DOMAIN evidence : m \in DOMAIN evidence' /\ evidence'[m] = evidence[m],
           alias' \subseteq [entity : DOMAIN entity', name : Name],
           graphCalls' \in 0 .. MaxGraphCalls, DOMAIN ingest' = Ingester,
           \A i \in Ingester :
              ingest'[i] = ingest[i] \/ ingest'[i].op \in {"none", "retype"} \/ Between(ingest'[i], evidence'),
           \/ UNCHANGED relation
           \/ \E r \in RelationRow : relation' = Append(relation, r) /\ RelationFits(r, entity', evidence')
    PROVE  GraphInv'
<1>1. \A g : Between(g, evidence) => Between(g, evidence')
  BY DEF Between
<1>2. \A i \in Ingester : ingest'[i].op \in {"none", "retype"} \/ Between(ingest'[i], evidence')
  BY <1>1 DEF GraphInv, GraphTyped
<1>3. \A r : RelationFits(r, entity, evidence) => RelationFits(r, entity', evidence')
  BY DEF RelationFits, Extends
<1>4. relation \in Seq(RelationRow)
  BY DEF GraphInv, GraphTyped
<1>5. relation' \in Seq(RelationRow) /\ \A i \in DOMAIN relation' : RelationFits(relation'[i], entity', evidence')
  <2>1. CASE UNCHANGED relation
    BY <1>3, <1>4, <2>1 DEF GraphInv
  <2>2. ASSUME NEW r \in RelationRow, relation' = Append(relation, r), RelationFits(r, entity', evidence')
        PROVE  relation' \in Seq(RelationRow) /\ \A i \in DOMAIN relation' : RelationFits(relation'[i], entity', evidence')
    <3>1. /\ relation' \in Seq(RelationRow) /\ DOMAIN relation' = 1 .. (Len(relation) + 1)
          /\ relation'[Len(relation) + 1] = r
          /\ \A i \in DOMAIN relation : relation'[i] = relation[i]
          /\ Len(relation) \in Nat /\ DOMAIN relation = 1 .. Len(relation)
      BY <1>4, <2>2, SeqFacts
    <3>2. \A i \in DOMAIN relation' : i \in DOMAIN relation \/ i = Len(relation) + 1
      BY <3>1
    <3>3. QED
      BY <1>3, <2>2, <3>1, <3>2 DEF GraphInv
  <2>3. QED
    BY <2>1, <2>2
<1>6. GraphTyped'
  BY <1>2, <1>5 DEF GraphTyped, Extends
<1>7. QED
  BY <1>5, <1>6 DEF GraphInv

LEMMA CallsCount == ASSUME GraphInv, WriteGraph PROVE graphCalls' \in 0 .. MaxGraphCalls
  BY GraphAssumption DEF WriteGraph, GraphInv, GraphTyped

LEMMA Unextended == ASSUME GraphInv PROVE Extends(entity, entity)
  BY SeqFacts DEF GraphInv, GraphTyped, Extends

LEMMA ScopesStored ==
    ASSUME NEW a \in Reader PROVE {Public, Raw(a), StoredTriple(a)} \subseteq Scope
  BY DEF Scope

LEMMA StoreEvidenceStep ==
    ASSUME GraphInv, NEW scope \in Scope, StoreEvidence(scope)
    PROVE  GraphInv'
<1>1. /\ evidence' \in Seq(Scope)
      /\ \A m \in DOMAIN evidence : m \in DOMAIN evidence' /\ evidence'[m] = evidence[m]
  <2>1. evidence \in Seq(Scope) /\ evidence' = Append(evidence, scope)
    BY DEF StoreEvidence, GraphInv, GraphTyped
  <2>2. QED
    BY <2>1, SeqFacts
<1>2. UNCHANGED <<entity, alias, relation, ingest>> /\ WriteGraph
  BY DEF StoreEvidence
<1>3. QED
  BY <1>1, <1>2, Unextended, CallsCount, RowsAdded DEF GraphInv, GraphTyped

LEMMA RelateStep ==
    ASSUME GraphInv, NEW c \in Claims, NEW m \in DOMAIN evidence, NEW scope \in Scope,
           ScopeFits(scope, evidence[m]), Relate(c, m, scope)
    PROVE  GraphInv'
<1>1. PICK x \in Ends(c, "unknown", scope) :
         /\ Room(x.rows, 1) /\ entity' = x.rows
         /\ relation' = Append(relation, Edge(x, c.predicate, m, scope))
  BY DEF Relate
<1>2. UNCHANGED <<alias, evidence, ingest>> /\ WriteGraph
  BY DEF Relate
<1>3. /\ Extends(entity, entity')
      /\ Holds(entity', x.subject, scope) /\ Holds(entity', x.object, scope)
  BY <1>1, EndsFit DEF EntityKind, GraphInv
<1>4. Edge(x, c.predicate, m, scope) \in RelationRow /\ RelationFits(Edge(x, c.predicate, m, scope), entity', evidence')
  <2>1. \A q \in Seq(EntityRow) : \A e \in DOMAIN q : e \in Nat
    BY SeqFacts
  <2>2. x.subject \in Nat /\ x.object \in Nat
    BY <1>3, <2>1 DEF Extends, Holds
  <2>3. m \in Nat
    BY SeqFacts DEF GraphInv, GraphTyped
  <2>4. Edge(x, c.predicate, m, scope) \in RelationRow
    BY <2>2, <2>3 DEF Edge, RelationRow, Claims
  <2>5. RelationFits(Edge(x, c.predicate, m, scope), entity', evidence')
    BY <1>2, <1>3 DEF Edge, RelationFits, Holds
  <2>6. QED
    BY <2>4, <2>5
<1>5. alias' \subseteq [entity : DOMAIN entity', name : Name]
  BY <1>2, <1>3 DEF GraphInv, GraphTyped, Extends
<1>6. Len(entity') <= MaxEntity
  BY <1>1 DEF Room
<1>7. QED
  BY <1>1, <1>2, <1>3, <1>4, <1>5, <1>6, CallsCount, RowsAdded DEF GraphInv, GraphTyped

LEMMA AcceptEntityStep ==
    ASSUME GraphInv, NEW n \in Name, NEW k \in EntityKind, NEW m \in DOMAIN evidence,
           AcceptEntity(n, k, m)
    PROVE  GraphInv'
<1>1. PICK x \in GetOrCreate(entity, n, k, evidence[m]) : Len(x.rows) <= MaxEntity /\ entity' = x.rows
  BY DEF AcceptEntity
<1>2. UNCHANGED <<alias, relation, evidence, ingest>> /\ WriteGraph
  BY DEF AcceptEntity
<1>3. evidence[m] \in Scope
  BY SeqFacts DEF GraphInv, GraphTyped
<1>4. Extends(entity, entity')
  BY <1>1, <1>3, Unextended, GetOrCreateFits DEF GraphInv, GraphTyped
<1>5. alias' \subseteq [entity : DOMAIN entity', name : Name]
  BY <1>2, <1>4 DEF GraphInv, GraphTyped, Extends
<1>6. QED
  BY <1>1, <1>2, <1>4, <1>5, CallsCount, RowsAdded DEF GraphInv, GraphTyped

LEMMA AddAliasStep ==
    ASSUME GraphInv, NEW e, NEW n \in Name, AddAlias(e, n)
    PROVE  GraphInv'
<1>1. UNCHANGED <<entity, relation, evidence, ingest>> /\ WriteGraph
  BY DEF AddAlias
<1>2. alias' \subseteq [entity : DOMAIN entity', name : Name]
  BY <1>1 DEF AddAlias, GraphInv, GraphTyped
<1>3. QED
  BY <1>1, <1>2, Unextended, CallsCount, RowsAdded DEF GraphInv, GraphTyped

\* The first transaction of a connector: the memory, of the agent it names.
LEMMA TranscriptStep ==
    ASSUME GraphInv, NEW i \in Ingester, NEW c \in Claims, NEW shared \in BOOLEAN,
           NEW op \in {"triples", "article", "bundle", "sample", "summary"},
           NEW named \in {{}} \cup {{a} : a \in Reader}, named = {} => shared,
           Ingest(i, op, named, c, shared)
    PROVE  GraphInv'
<1> DEFINE source == IF named = {} THEN Public ELSE StoredTriple(CHOOSE x \in named : TRUE)
           scope  == IF shared \/ named = {} THEN Public ELSE Raw(CHOOSE x \in named : TRUE)
           g == [op |-> op, claim |-> c, memory |-> Len(evidence) + 1, scope |-> scope]
<1>1. source \in Scope /\ scope \in Scope /\ ScopeFits(scope, source)
  <2>1. CASE named = {}
    BY <2>1 DEF Scope, ScopeFits
  <2>2. ASSUME NEW a \in Reader, named = {a} PROVE source \in Scope /\ scope \in Scope /\ ScopeFits(scope, source)
    <3>1. (CHOOSE x \in named : TRUE) = a
      BY <2>2
    <3>2. source = StoredTriple(a) /\ scope \in {Public, Raw(a)}
      BY <2>2, <3>1
    <3>3. QED
      BY <3>2 DEF Scope, ScopeFits
  <2>3. QED
    BY <2>1, <2>2
<1>2. /\ evidence' = Append(evidence, source) /\ ingest' = [ingest EXCEPT ![i] = g]
      /\ UNCHANGED <<entity, alias, relation>> /\ WriteGraph
  BY DEF Ingest, Now
<1> HIDE DEF source, scope
<1>3. /\ evidence' \in Seq(Scope) /\ Len(evidence) + 1 \in DOMAIN evidence'
      /\ evidence'[Len(evidence) + 1] = source
      /\ \A m \in DOMAIN evidence : m \in DOMAIN evidence' /\ evidence'[m] = evidence[m]
  <2>1. evidence \in Seq(Scope)
    BY DEF GraphInv, GraphTyped
  <2>2. QED
    BY <1>1, <1>2, <2>1, SeqFacts
<1>4. Between(g, evidence')
  BY <1>1, <1>3 DEF Between
<1>5. \A j \in Ingester : ingest'[j] = ingest[j] \/ Between(ingest'[j], evidence')
  BY <1>2, <1>4 DEF GraphInv, GraphTyped
<1>6. QED
  BY <1>2, <1>3, <1>5, Unextended, CallsCount, RowsAdded DEF GraphInv, GraphTyped

\* A connector that ends its graph transaction retypes or is done.
LEMMA IngesterMoves ==
    ASSUME GraphInv, NEW i \in Ingester, NEW next, next.op \in {"none", "retype"}, Now(i, next)
    PROVE  /\ DOMAIN ingest' = Ingester
           /\ \A j \in Ingester : ingest'[j] = ingest[j] \/ ingest'[j].op \in {"none", "retype"}
  BY DEF Now, GraphInv, GraphTyped

\* Its second transaction: the entities, the edge and the aliases.
LEMMA IngestCommitStep ==
    ASSUME GraphInv, NEW i \in Ingester, IngestCommit(i)
    PROVE  GraphInv'
<1> DEFINE g == ingest[i]
<1>1. Between(g, evidence)
  BY DEF IngestCommit, GraphInv, GraphTyped
<1>2. PICK x \in Ends(g.claim, KindOf(g.op), g.scope) :
         /\ Room(x.rows, 1) /\ entity' = x.rows
         /\ relation' = IF Repeated(x, g.claim.predicate, g.scope) THEN relation
                        ELSE Append(relation, Edge(x, g.claim.predicate, g.memory, g.scope))
         /\ alias' = alias \cup NewAliases(g, x)
  BY DEF IngestCommit
<1>3. UNCHANGED <<evidence, graphCalls>>
  BY DEF IngestCommit
<1>4. /\ DOMAIN ingest' = Ingester
      /\ \A j \in Ingester : ingest'[j] = ingest[j] \/ ingest'[j].op \in {"none", "retype"}
  <2> DEFINE next == IF g.op \in {"sample", "summary"}
                     THEN [op |-> "retype", names |-> {g.claim.subject, g.claim.object} \cap Sampled,
                           summary |-> g.op = "summary"]
                     ELSE AtEase
  <2>1. Now(i, next)
    BY DEF IngestCommit
  <2>2. next.op \in {"none", "retype"}
    BY DEF AtEase
  <2> HIDE DEF next
  <2>3. QED
    BY <2>1, <2>2, IngesterMoves
<1>5. g.claim \in Claims /\ g.scope \in Scope /\ KindOf(g.op) \in EntityKind /\ GraphTyped
  BY <1>1 DEF Between, KindOf, EntityKind, GraphInv
<1> HIDE DEF g
<1>6. /\ Extends(entity, entity')
      /\ Holds(entity', x.subject, g.scope) /\ Holds(entity', x.object, g.scope)
  BY <1>2, <1>5, EndsFit
<1> DEFINE edge == Edge(x, g.claim.predicate, g.memory, g.scope)
<1>7. edge \in RelationRow /\ RelationFits(edge, entity', evidence')
  <2>1. \A q \in Seq(EntityRow) : \A e \in DOMAIN q : e \in Nat
    BY SeqFacts
  <2>2. x.subject \in Nat /\ x.object \in Nat
    BY <1>6, <2>1 DEF Extends, Holds
  <2>3. g.memory \in Nat
    BY <1>1, SeqFacts DEF Between, GraphInv, GraphTyped
  <2>4. edge \in RelationRow
    BY <1>5, <2>2, <2>3 DEF Edge, RelationRow, Claims
  <2>5. RelationFits(edge, entity', evidence')
    BY <1>1, <1>3, <1>6 DEF Edge, RelationFits, Holds, Between
  <2>6. QED
    BY <2>4, <2>5
<1>8. alias' \subseteq [entity : DOMAIN entity', name : Name]
  <2>1. alias \subseteq [entity : DOMAIN entity', name : Name]
    BY <1>6 DEF GraphInv, GraphTyped, Extends
  <2>2. NewAliases(g, x) \subseteq [entity : DOMAIN entity', name : Name]
    BY <1>6 DEF NewAliases, Holds
  <2>3. QED
    BY <1>2, <2>1, <2>2
<1>9. UNCHANGED relation \/ relation' = Append(relation, edge)
  BY <1>2
<1>10. Len(entity') <= MaxEntity
  BY <1>2 DEF Room
<1> HIDE DEF edge
<1>11. QED
  BY <1>3, <1>4, <1>6, <1>7, <1>8, <1>9, <1>10, RowsAdded DEF GraphInv, GraphTyped

\* Retyping leaves names and scopes alone.
LEMMA RetypeSteps ==
    ASSUME GraphInv, NEW i \in Ingester,
           (\E n \in Sampled : RetypeName(i, n)) \/ RetypeDone(i) \/ IngestDies(i)
    PROVE  GraphInv'
<1>1. /\ DOMAIN ingest' = Ingester
      /\ \A j \in Ingester : ingest'[j] = ingest[j] \/ ingest'[j].op \in {"none", "retype"}
  <2>1. CASE RetypeDone(i) \/ IngestDies(i)
    BY <2>1, IngesterMoves DEF RetypeDone, IngestDies, AtEase
  <2>2. ASSUME NEW n \in Sampled, RetypeName(i, n)
        PROVE  /\ DOMAIN ingest' = Ingester
               /\ \A j \in Ingester : ingest'[j] = ingest[j] \/ ingest'[j].op \in {"none", "retype"}
    <3> DEFINE next == [ingest[i] EXCEPT !.names = @ \ {n}]
    <3>1. Now(i, next) /\ ingest[i].op = "retype"
      BY <2>2 DEF RetypeName
    <3>2. next.op = "retype"
      BY <3>1
    <3> HIDE DEF next
    <3>3. QED
      BY <3>1, <3>2, IngesterMoves
  <2>3. QED
    BY <2>1, <2>2
<1>2. UNCHANGED <<alias, relation, graphCalls>>
  BY DEF RetypeName, RetypeDone, IngestDies
<1>3. /\ evidence' \in Seq(Scope)
      /\ \A m \in DOMAIN evidence : m \in DOMAIN evidence' /\ evidence'[m] = evidence[m]
  <2>1. evidence \in Seq(Scope) /\ Public \in Scope
    BY DEF GraphInv, GraphTyped, Scope
  <2>2. UNCHANGED evidence \/ evidence' = Append(evidence, Public)
    BY DEF RetypeName, RetypeDone, IngestDies
  <2>3. QED
    BY <2>1, <2>2, SeqFacts
<1>4. Extends(entity, entity') /\ Len(entity') <= MaxEntity /\ DOMAIN entity' = DOMAIN entity
  <2>1. CASE UNCHANGED entity
    BY <2>1, Unextended DEF GraphInv, GraphTyped
  <2>2. ASSUME NEW n \in Sampled, RetypeName(i, n)
        PROVE  Extends(entity, entity') /\ Len(entity') <= MaxEntity /\ DOMAIN entity' = DOMAIN entity
    <3>1. /\ entity \in Seq(EntityRow) /\ Len(entity) \in Nat /\ DOMAIN entity = 1 .. Len(entity)
          /\ Len(entity) <= MaxEntity /\ \A e \in DOMAIN entity : entity[e] \in EntityRow
      BY SeqFacts DEF GraphInv, GraphTyped
    <3> DEFINE again == [e \in DOMAIN entity |->
                            /\ entity[e].name = n
                            /\ Exact(entity, n, "typed", entity[e].scope) = {}
                            /\ \A f \in 1..(e - 1) :
                                  entity[f].name = n => entity[f].scope # entity[e].scope]
    <3>2. entity' = [e \in DOMAIN entity |->
                        IF again[e] THEN [entity[e] EXCEPT !.kind = "typed"] ELSE entity[e]]
      BY <2>2 DEF RetypeName, Retyped
    <3> HIDE DEF again
    <3>3. \A e \in DOMAIN entity :
             /\ [entity[e] EXCEPT !.kind = "typed"] \in EntityRow
             /\ [entity[e] EXCEPT !.kind = "typed"].scope = entity[e].scope
      BY <3>1 DEF EntityRow, EntityKind
    <3>4. \A e \in DOMAIN entity : entity'[e] \in EntityRow /\ entity'[e].scope = entity[e].scope
      BY <3>1, <3>2, <3>3
    <3>5. entity' \in [1 .. Len(entity) -> EntityRow]
      BY <3>1, <3>2, <3>4
    <3>6. entity' \in Seq(EntityRow) /\ Len(entity') = Len(entity)
      BY <3>1, <3>5, SeqDef, LenProperties
    <3>7. QED
      BY <3>1, <3>4, <3>5, <3>6 DEF Extends
  <2>3. QED
    BY <2>1, <2>2 DEF RetypeDone, IngestDies
<1>5. alias' \subseteq [entity : DOMAIN entity', name : Name]
  BY <1>2, <1>4 DEF GraphInv, GraphTyped
<1>6. QED
  BY <1>1, <1>2, <1>3, <1>4, <1>5, RowsAdded DEF GraphInv, GraphTyped

LEMMA GraphStarts == ASSUME GraphInit PROVE GraphInv
  BY EmptySeq, GraphAssumption DEF GraphInit, GraphInv, GraphTyped, AtEase

LEMMA GraphSteps ==
    ASSUME GraphInv, [GraphNext]_graphVars
    PROVE  GraphInv'
<1>1. CASE UNCHANGED graphVars
  BY <1>1 DEF graphVars, GraphInv, GraphTyped
<1>2. ASSUME NEW scope \in {Public} \cup {StoredTriple(a) : a \in Reader}, StoreEvidence(scope)
      PROVE  GraphInv'
  BY <1>2, StoreEvidenceStep DEF Scope
<1>3. ASSUME NEW c \in Claims, NEW m \in DOMAIN evidence,
             AcceptRelation(c, m) \/ \E shared \in BOOLEAN : LinkEntities(c, m, shared)
      PROVE  GraphInv'
  <2>1. evidence[m] \in Scope /\ Public \in Scope
    BY SeqFacts DEF GraphInv, GraphTyped, Scope
  <2>2. \E scope \in {Public, evidence[m]} : Relate(c, m, scope)
    BY <1>3 DEF AcceptRelation, LinkEntities
  <2>3. QED
    BY <2>1, <2>2, RelateStep DEF ScopeFits
<1>4. ASSUME NEW n \in Name, NEW k \in EntityKind, NEW m \in DOMAIN evidence, AcceptEntity(n, k, m)
      PROVE  GraphInv'
  BY <1>4, AcceptEntityStep
<1>5. ASSUME NEW e \in 1 .. MaxEntity, NEW n \in Name, AddAlias(e, n) PROVE GraphInv'
  BY <1>5, AddAliasStep
<1>6. ASSUME NEW i \in Ingester, NEW c \in Claims, NEW a \in Reader, NEW shared \in BOOLEAN,
             IngestTriples(i, a, c, shared) \/ IngestArticle(i, a, c, shared) \/ IngestBundle(i, a, c, shared)
      PROVE  GraphInv'
  <2>1. {a} \in {{}} \cup {{b} : b \in Reader} /\ {a} # {}
    OBVIOUS
  <2>2. \E op \in {"triples", "article", "bundle", "sample", "summary"} : Ingest(i, op, {a}, c, shared)
    BY <1>6 DEF IngestTriples, IngestArticle, IngestBundle
  <2>3. QED
    BY <2>1, <2>2, TranscriptStep
<1>7. ASSUME NEW i \in Ingester, NEW c \in Claims,
             SummarizeSession(i, c) \/ \E force \in BOOLEAN : SeedSample(i, c, force)
      PROVE  GraphInv'
  <2>1. \E op \in {"triples", "article", "bundle", "sample", "summary"} : Ingest(i, op, {}, c, TRUE)
    BY <1>7 DEF SummarizeSession, SeedSample
  <2>2. QED
    BY <2>1, TranscriptStep
<1>8. ASSUME NEW i \in Ingester,
             IngestCommit(i) \/ RetypeDone(i) \/ IngestDies(i) \/ \E n \in Sampled : RetypeName(i, n)
      PROVE  GraphInv'
  BY <1>8, IngestCommitStep, RetypeSteps
<1>9. QED
  BY <1>1, <1>2, <1>3, <1>4, <1>5, <1>6, <1>7, <1>8 DEF GraphNext

LEMMA GraphAlways == GraphSpec => []GraphInv
<1>1. GraphInit => GraphInv
  BY GraphStarts
<1>2. GraphInv /\ [GraphNext]_graphVars => GraphInv'
  BY GraphSteps
<1>3. QED
  BY <1>1, <1>2, PTL DEF GraphSpec

\* Rows of the graph have their columns and name rows that are there, whatever
\* connectors interleave, die or repeat.
THEOREM GraphTypesHold == GraphSpec => []GraphTypeOK
<1>1. GraphInv => GraphTypeOK
  <2> SUFFICES ASSUME GraphInv PROVE GraphTypeOK
    OBVIOUS
  <2>1. \A r \in DOMAIN relation : relation[r] \in RelationRow
    BY SeqFacts DEF GraphInv, GraphTyped
  <2>2. \A r \in DOMAIN relation :
           /\ relation[r].subject \in DOMAIN entity /\ relation[r].object \in DOMAIN entity
           /\ relation[r].evidence \in DOMAIN evidence /\ relation[r].scope \in Scope
    BY <2>1 DEF GraphInv, RelationFits, RelationRow
  <2>3. QED
    BY <2>2 DEF GraphInv, GraphTyped, GraphTypeOK, EntityRow
<1>2. QED
  BY <1>1, GraphAlways, PTL

-----------------------------------------------------------------------------
(* What the reads show *)

LEMMA LeaksNothing == ASSUME GraphInv PROVE NothingLeaks
<1> SUFFICES ASSUME NEW a \in Reader, NEW r \in Payload(a) \cup UNION {Neighbors(n, a, 3) : n \in Name},
                    NEW s \in {relation[r].scope, entity[relation[r].subject].scope,
                               entity[relation[r].object].scope}
             PROVE  s \in {Public, Raw(a), StoredTriple(a)}
  BY DEF NothingLeaks
<1>1. CASE r \in Payload(a)
  <2>1. /\ RelationFits(relation[r], entity, evidence)
        /\ evidence[relation[r].evidence] = StoredTriple(a)
    BY <1>1 DEF Payload, GraphInv
  <2>2. \A b : StoredTriple(a) = StoredTriple(b) => a = b
    BY DEF StoredTriple, Raw
  <2>3. relation[r].scope \in {Public, Raw(a), StoredTriple(a)}
    BY <2>1, <2>2 DEF RelationFits, ScopeFits
  <2>4. QED
    BY <2>1, <2>3 DEF RelationFits
<1>2. CASE r \in UNION {Neighbors(n, a, 3) : n \in Name}
  <2>1. r \in Visible(a)
    BY <1>2 DEF Neighbors
  <2>2. RelationFits(relation[r], entity, evidence) /\ relation[r].scope \in {StoredTriple(a), Public}
    BY <2>1 DEF Visible, GraphInv
  <2>3. QED
    BY <2>2 DEF RelationFits
<1>3. QED
  BY <1>1, <1>2

\* The layers of a search of depth two, one after another.
LEMMA PathLayers ==
    ASSUME NEW s, NEW g, NEW a, s # g,
           \/ g \in Targets({s}, Visible(a))
           \/ g \in Targets(Targets({s}, Visible(a)), Visible(a))
    PROVE  FindPath(s, g, a, 2)
<1> DEFINE layer == CHOOSE f : f = [k \in 0 .. 2 |-> IF k = 0 THEN {s} ELSE Targets(f[k - 1], Visible(a))]
           known == [k \in 0 .. 2 |-> IF k = 0 THEN {s} ELSE IF k = 1 THEN Targets({s}, Visible(a))
                                      ELSE Targets(Targets({s}, Visible(a)), Visible(a))]
<1>1. known = [k \in 0 .. 2 |-> IF k = 0 THEN {s} ELSE Targets(known[k - 1], Visible(a))]
  <2>1. known[0] = {s} /\ known[1] = Targets({s}, Visible(a))
    OBVIOUS
  <2>2. \A k \in 0 .. 2 : k # 0 => k - 1 \in {0, 1} /\ (k = 1 <=> k - 1 = 0)
    OBVIOUS
  <2> QED
    BY <2>1, <2>2
<1>2. layer = [k \in 0 .. 2 |-> IF k = 0 THEN {s} ELSE Targets(layer[k - 1], Visible(a))]
  <2> HIDE DEF known
  <2>1. QED
    BY <1>1, Zenon
<1>3. FindPath(s, g, a, 2) <=> s # g /\ \E k \in 1 .. 2 : g \in layer[k]
  BY Zenon DEF FindPath
<1> HIDE DEF layer
<1>4. /\ layer[0] = {s} /\ layer[1] = Targets(layer[0], Visible(a))
      /\ layer[2] = Targets(layer[1], Visible(a))
  BY <1>2
<1>5. QED
  BY <1>3, <1>4

LEMMA NameLayers ==
    ASSUME NEW n, NEW o, NEW a, n # o,
           NEW Next1, NEW Next2,
           Next1 = {x[2] : x \in {y \in Arcs(a) : y[1] \in {n}}},
           Next2 = {x[2] : x \in {y \in Arcs(a) : y[1] \in Next1}},
           o \in Next1 \/ o \in Next2
    PROVE  Mechanism(n, o, a, 2)
<1> DEFINE layer == CHOOSE f : f = [k \in 0 .. 2 |-> IF k = 0 THEN {n}
                                       ELSE {x[2] : x \in {y \in Arcs(a) : y[1] \in f[k - 1]}}]
           known == [k \in 0 .. 2 |-> IF k = 0 THEN {n} ELSE IF k = 1 THEN Next1 ELSE Next2]
<1>1. known = [k \in 0 .. 2 |-> IF k = 0 THEN {n}
                                ELSE {x[2] : x \in {y \in Arcs(a) : y[1] \in known[k - 1]}}]
  <2>1. known[0] = {n} /\ known[1] = Next1
    OBVIOUS
  <2>2. \A k \in 0 .. 2 : k # 0 => k - 1 \in {0, 1} /\ (k = 1 <=> k - 1 = 0)
    OBVIOUS
  <2> QED
    BY <2>1, <2>2
<1>2. layer = [k \in 0 .. 2 |-> IF k = 0 THEN {n}
                                ELSE {x[2] : x \in {y \in Arcs(a) : y[1] \in layer[k - 1]}}]
  <2> HIDE DEF known
  <2>1. QED
    BY <1>1, Zenon
<1>3. Mechanism(n, o, a, 2) <=> n # o /\ \E k \in 1 .. 2 : o \in layer[k]
  BY Zenon DEF Mechanism
<1> HIDE DEF layer
<1>4. layer[0] = {n} /\ layer[1] = Next1 /\ layer[2] = Next2
  BY <1>2
<1>5. QED
  BY <1>3, <1>4

LEMMA ArcReaches ==
    ASSUME NEW arcs, NEW from, NEW u \in from, NEW v, <<u, v>> \in arcs
    PROVE  v \in {x[2] : x \in {y \in arcs : y[1] \in from}}
<1>1. <<u, v>> \in {y \in arcs : y[1] \in from} /\ v = <<u, v>>[2]
  OBVIOUS
<1>2. QED
  BY <1>1, Zenon

\* Edges that lead from one entity to another within two steps are a path, and
\* so are the names at their ends.
LEMMA PathsAlwaysAgree == PathsAgree
<1> SUFFICES ASSUME NEW a \in Reader, NEW s \in DOMAIN entity, NEW g \in DOMAIN entity, s # g,
                    NEW k \in 1 .. 2, NEW path \in [1 .. k -> Visible(a)], Joins(path, s, g)
             PROVE  /\ FindPath(s, g, a, 2)
                    /\ entity[s].name # entity[g].name => Mechanism(entity[s].name, entity[g].name, a, 2)
  BY DEF PathsAgree
<1> DEFINE nameOf(e) == entity[e].name
           Next1 == {x[2] : x \in {y \in Arcs(a) : y[1] \in {nameOf(s)}}}
           Next2 == {x[2] : x \in {y \in Arcs(a) : y[1] \in Next1}}
<1>1. Len(path) = k
  BY LenProperties, SeqDef
<1>2. \A r \in Visible(a) : <<nameOf(relation[r].subject), nameOf(relation[r].object)>> \in Arcs(a)
  BY DEF Arcs
<1>3. CASE k = 1
  <2>1. relation[path[1]].subject = s /\ relation[path[1]].object = g /\ path[1] \in Visible(a)
    BY <1>1, <1>3 DEF Joins
  <2>2. g \in Targets({s}, Visible(a))
    BY <2>1 DEF Targets
  <2>3. nameOf(g) \in Next1
    <3>1. <<nameOf(s), nameOf(g)>> \in Arcs(a) /\ nameOf(s) \in {nameOf(s)}
      BY <1>2, <2>1
    <3> HIDE DEF nameOf
    <3>2. QED
      BY <3>1, ArcReaches
  <2> HIDE DEF Next1, Next2
  <2>4. QED
    BY <2>2, <2>3, PathLayers, NameLayers DEF Next1, Next2
<1>4. CASE k = 2
  <2>1. /\ relation[path[1]].subject = s /\ relation[path[2]].object = g
        /\ relation[path[1]].object = relation[path[2]].subject
        /\ path[1] \in Visible(a) /\ path[2] \in Visible(a)
    BY <1>1, <1>4 DEF Joins, Connected
  <2>2. g \in Targets(Targets({s}, Visible(a)), Visible(a))
    BY <2>1 DEF Targets
  <2>3. nameOf(relation[path[1]].object) \in Next1
    <3>1. <<nameOf(s), nameOf(relation[path[1]].object)>> \in Arcs(a) /\ nameOf(s) \in {nameOf(s)}
      BY <1>2, <2>1
    <3> HIDE DEF nameOf
    <3>2. QED
      BY <3>1, ArcReaches
  <2>4. nameOf(g) \in Next2
    <3>1. <<nameOf(relation[path[1]].object), nameOf(g)>> \in Arcs(a)
      BY <1>2, <2>1
    <3> HIDE DEF Next1, nameOf
    <3>2. QED
      BY <2>3, <3>1, ArcReaches
  <2>5. QED
    BY <2>2, <2>4, PathLayers, NameLayers
<1>5. QED
  BY <1>3, <1>4

\* An agent is shown what is its own or shared, ends of edges included, and
\* every path of two edges it may see is found, by entity and by name.
THEOREM GraphAlwaysHolds == GraphSpec => []GraphHolds
<1>1. GraphInv => GraphHolds
  BY LeaksNothing, PathsAlwaysAgree DEF GraphHolds
<1>2. QED
  BY <1>1, GraphAlways, PTL

-----------------------------------------------------------------------------
(* TranscriptIngest: the inductive invariant *)

CapturePlace ==
    {"idle", "open", "hermes", "append", "load", "read", "lines", "save", "artifact", "close"}
DigestSet == {<<>>} \cup (Nat \X BOOLEAN)
RunnerState ==
    [at : CapturePlace, file : Transcript \cup {NoFile}, agent : CaptureAgent \cup {Nobody},
     closes : BOOLEAN, state : [Transcript -> Nat], line : Nat, upto : Nat, whole : Nat,
     block : Nat, prompt : [CaptureSession -> Nat], new : SUBSET Nat, digest : DigestSet]
CaptureRow ==
    [owner : CaptureAgent \cup {Nobody, NoRow}, sources : SUBSET (CaptureAgent \cup {Nobody}),
     ended : DigestSet]

CaptureTypes ==
    /\ written \in [Transcript -> Nat] /\ offset \in [Transcript -> Nat]
    /\ half \in [Transcript -> BOOLEAN] /\ readable \in BOOLEAN
    /\ capturedMemory \subseteq BlockIds /\ IsFiniteSet(span)
    /\ sessionRow \in [CaptureSession -> CaptureRow]
    /\ runner \in [Runner -> RunnerState] /\ runs \in 0 .. MaxRuns

\* A block of a line, and the line, is in the store.
BlockDone(t, i, b) ==
    IF Script[t][i].blocks[b] \in Remembered
      THEN \E c \in capturedMemory : SameKey(<<t, i, b>>, c)
    ELSE \E x \in span : x.of = <<t, i, b>>
\* The lines up to one are done with: in the store, or read half written.
DoneTo(t, n) == \A i \in 1 .. n : <<t, i>> \in halfRead \/ Captured(t, i)

\* p is the line of the last prompt of a session among the first n, or zero.
LastAsked(p, t, s, n) ==
    /\ p \in 0 .. n
    /\ p # 0 => IsPrompt(t, p) /\ Script[t][p].session = s
    /\ \A j \in 1 .. n : IsPrompt(t, j) /\ Script[t][j].session = s => j <= p

TranscriptsFit ==
    \A t \in Transcript : /\ Lines(t) <= Len(Script[t])
                          /\ offset[t] <= Lines(t) /\ DoneTo(t, offset[t])

SpansFit ==
    \A x \in span : /\ x.of \in BlockIds /\ x.copy \in 1 .. MaxRuns
                    /\ LastAsked(x.prompt, x.of[1], Script[x.of[1]][x.of[2]].session, x.of[2])

\* A run that has yet to pass a block.
AheadOf(x, b) ==
    \/ x.at \in {"open", "hermes", "append", "load", "read"}
    \/ x.at = "lines" /\ (x.line < b[2] \/ (x.line = b[2] /\ x.block <= b[3]))
Ahead(b) == {r \in Runner : AheadOf(runner[r], b)}
\* No run makes two spans of one block.
CopiesFit ==
    \A b \in BlockIds : IsFiniteSet(Ahead(b)) /\ Cardinality(Ahead(b)) + Copies(b) <= runs

RowOpen(s) == sessionRow[s].owner # NoRow

LinesFit(x) ==
    /\ x.whole <= written[x.file] /\ x.upto <= x.whole + 1 /\ x.line >= 1
    /\ x.upto > x.whole /\ x.line <= x.upto => <<x.file, x.upto>> \in halfRead
    /\ DoneTo(x.file, x.line - 1)
    /\ x.block > 0 => /\ x.line <= x.whole
                      /\ x.block <= Len(Script[x.file][x.line].blocks)
                      /\ RowOpen(Script[x.file][x.line].session)
                      /\ \A b \in 1 .. x.block - 1 : BlockDone(x.file, x.line, b)
    /\ x.line <= x.whole =>
          \A s \in CaptureSession :
              LastAsked(x.prompt[s], x.file, s, IF x.block = 0 THEN x.line - 1 ELSE x.line)

RunnerFits(x) ==
    /\ x.at # "idle" => x.file \in Transcript
    /\ x.at \in {"open", "hermes", "append", "artifact", "close"} => x.closes
    /\ x.closes /\ x.at \notin {"idle", "open"} => RowOpen(Of(x.file))
    /\ x.at \in {"read", "lines", "save"} =>
          \A t \in Transcript : x.state[t] <= Lines(t) /\ DoneTo(t, x.state[t])
    /\ x.at \in {"lines", "save"} => x.upto <= Lines(x.file)
    /\ x.at = "lines" => LinesFit(x)
    /\ x.at = "save" => DoneTo(x.file, x.upto)

CaptureInv ==
    /\ CaptureTypes /\ TranscriptsFit /\ SpansFit /\ CopiesFit
    /\ \A r \in Runner : RunnerFits(runner[r])

-----------------------------------------------------------------------------
(* Scripts, blocks and prompts *)

LEMMA ScriptFacts ==
    ASSUME NEW t \in Transcript
    PROVE  /\ Script[t] \in Seq(Line) /\ Len(Script[t]) \in Nat /\ Len(Script[t]) >= 1
           /\ DOMAIN Script[t] = 1 .. Len(Script[t])
           /\ \A i \in 1 .. Len(Script[t]) :
                 /\ Script[t][i].session \in CaptureSession /\ Script[t][i].prompt \in BOOLEAN
                 /\ Script[t][i].blocks \in Seq(Block) /\ Len(Script[t][i].blocks) \in Nat
                 /\ DOMAIN Script[t][i].blocks = 1 .. Len(Script[t][i].blocks)
           /\ Of(t) \in CaptureSession
<1>1. Script[t] \in Seq(Line) /\ Script[t] # <<>>
  BY TranscriptAssumption
<1>2. Len(Script[t]) \in Nat /\ Len(Script[t]) >= 1 /\ DOMAIN Script[t] = 1 .. Len(Script[t])
  BY <1>1
<1>3. ASSUME NEW i \in 1 .. Len(Script[t])
      PROVE  /\ Script[t][i].session \in CaptureSession /\ Script[t][i].prompt \in BOOLEAN
             /\ Script[t][i].blocks \in Seq(Block) /\ Len(Script[t][i].blocks) \in Nat
             /\ DOMAIN Script[t][i].blocks = 1 .. Len(Script[t][i].blocks)
  <2>1. Script[t][i] \in Line
    BY <1>1, <1>2
  <2>2. Script[t][i].session \in CaptureSession /\ Script[t][i].prompt \in BOOLEAN
        /\ Script[t][i].blocks \in Seq(Block)
    BY <2>1 DEF Line
  <2>3. QED
    BY <2>2
<1>4. 1 \in 1 .. Len(Script[t])
  BY <1>2
<1>5. QED
  BY <1>1, <1>2, <1>3, <1>4 DEF Of

LEMMA BlockIdFacts ==
    /\ \A t \in Transcript : \A i \in 1 .. Len(Script[t]) : \A b \in 1 .. Len(Script[t][i].blocks) :
          <<t, i, b>> \in BlockIds
    /\ \A x \in BlockIds : /\ x[1] \in Transcript /\ x[2] \in 1 .. Len(Script[x[1]])
                           /\ x[3] \in 1 .. Len(Script[x[1]][x[2]].blocks)
                           /\ x = <<x[1], x[2], x[3]>>
<1>1. ASSUME NEW t \in Transcript, NEW i \in 1 .. Len(Script[t]), NEW b \in 1 .. Len(Script[t][i].blocks)
      PROVE  <<t, i, b>> \in BlockIds
  <2>1. i \in DOMAIN Script[t] /\ b \in DOMAIN Script[t][i].blocks
    BY ScriptFacts
  <2>2. QED
    BY <2>1 DEF BlockIds
<1>2. ASSUME NEW x \in BlockIds
      PROVE  /\ x[1] \in Transcript /\ x[2] \in 1 .. Len(Script[x[1]])
             /\ x[3] \in 1 .. Len(Script[x[1]][x[2]].blocks) /\ x = <<x[1], x[2], x[3]>>
  <2>1. PICK t \in Transcript : \E i \in DOMAIN Script[t] : \E b \in DOMAIN Script[t][i].blocks :
            x = <<t, i, b>>
    BY DEF BlockIds
  <2>2. PICK i \in DOMAIN Script[t] : \E b \in DOMAIN Script[t][i].blocks : x = <<t, i, b>>
    BY <2>1
  <2>3. PICK b \in DOMAIN Script[t][i].blocks : x = <<t, i, b>>
    BY <2>2
  <2>4. x[1] = t /\ x[2] = i /\ x[3] = b
    BY <2>3
  <2>5. i \in 1 .. Len(Script[t])
    BY <2>2, ScriptFacts
  <2>6. b \in 1 .. Len(Script[t][i].blocks)
    BY <2>5, <2>3, ScriptFacts
  <2>7. QED
    BY <2>3, <2>4, <2>5, <2>6
<1>3. QED
  BY <1>1, <1>2

LEMMA BlockIdNumbers ==
    ASSUME NEW b \in BlockIds PROVE b[2] \in Nat /\ b[3] \in Nat /\ b[3] >= 1
<1>1. /\ b[1] \in Transcript /\ b[2] \in 1 .. Len(Script[b[1]])
      /\ b[3] \in 1 .. Len(Script[b[1]][b[2]].blocks)
  BY BlockIdFacts
<1>2. QED
  BY <1>1, ScriptFacts

\* The last of some of the first n numbers, or zero.
LEMMA LastOfSome ==
    ASSUME NEW n \in Nat, NEW S \in SUBSET (1 .. n)
    PROVE  \E p \in S \cup {0} : \A j \in S : j <= p
<1>1. CASE S = {}
  BY <1>1
<1>2. CASE S # {}
  <2> DEFINE Gap == {n - j : j \in S}
  <2>0. \A j \in S : j \in Nat /\ j <= n
    OBVIOUS
  <2>1. Gap \subseteq Nat /\ Gap # {}
    <3>1. \A j \in S : n - j \in Nat
      BY <2>0
    <3>2. QED
      BY <3>1, <1>2
  <2>2. PICK g \in Gap : \A h \in Gap : ~(<<h, g>> \in OpToRel(<, Nat))
    BY <2>1, NatLessThanWellFounded, WFMin
  <2>3. \A h \in Gap : g <= h
    <3> HIDE DEF Gap
    <3>1. \A h \in Gap : ~(h < g)
      BY <2>1, <2>2 DEF OpToRel
    <3>2. g \in Nat /\ \A h \in Gap : h \in Nat
      BY <2>1
    <3>3. QED
      BY <3>1, <3>2
  <2>4. PICK p \in S : g = n - p
    BY <2>2
  <2>5. ASSUME NEW j \in S PROVE j <= p
    <3>1. n - j \in Gap
      OBVIOUS
    <3>2. g <= n - j
      BY <3>1, <2>3
    <3>3. QED
      BY <3>2, <2>4, <2>0
  <2>6. QED
    BY <2>4, <2>5
<1>3. QED
  BY <1>1, <1>2

LEMMA RecoveredLast ==
    ASSUME CaptureTypes, NEW t \in Transcript, NEW n \in Nat, NEW s \in CaptureSession
    PROVE  /\ Recovered(t, n)[s] \in Nat
           /\ n <= written[t] => LastAsked(Recovered(t, n)[s], t, s, n)
<1> DEFINE of == {i \in 1 .. n : i <= written[t] /\ IsPrompt(t, i) /\ Script[t][i].session = s}
           p  == Recovered(t, n)[s]
<1>1. p = CHOOSE i \in of \cup {0} : \A j \in of : j <= i
  BY DEF Recovered
<1>2. of \in SUBSET (1 .. n)
  OBVIOUS
<1>3. \E i \in of \cup {0} : \A j \in of : j <= i
  <2> HIDE DEF of
  <2>1. QED
    BY <1>2, LastOfSome
<1>4. p \in of \cup {0} /\ \A j \in of : j <= p
  <2> HIDE DEF of, p
  <2>1. QED
    BY <1>1, <1>3
<1>5. p \in Nat /\ p <= n /\ (p # 0 => p \in 1 .. n /\ IsPrompt(t, p) /\ Script[t][p].session = s)
  BY <1>4
<1>6. ASSUME n <= written[t], NEW j \in 1 .. n, IsPrompt(t, j) /\ Script[t][j].session = s
      PROVE  j <= p
  <2>1. written[t] \in Nat
    BY DEF CaptureTypes
  <2>2. j \in of
    BY <1>6, <2>1
  <2>3. QED
    BY <2>2, <1>4
<1>7. QED
  BY <1>5, <1>6 DEF LastAsked

LEMMA PromptOfIsLast ==
    ASSUME NEW t \in Transcript, NEW i \in 1 .. Len(Script[t]), NEW p,
           LastAsked(p, t, Script[t][i].session, i)
    PROVE  p = PromptOf(t, i)
<1> DEFINE before == {j \in 1 .. i : IsPrompt(t, j) /\ Script[t][j].session = Script[t][i].session}
<1>1. p \in before \cup {0} /\ \A k \in before : k <= p
  BY ScriptFacts DEF LastAsked
<1>2. ASSUME NEW q \in before \cup {0}, \A k \in before : k <= q PROVE q = p
  <2>1. p \in Nat /\ q \in Nat
    BY <1>1, ScriptFacts
  <2>2. CASE p = 0 /\ q = 0
    BY <2>2
  <2>3. CASE p = 0 /\ q # 0
    BY <2>3, <1>1, <2>1, <1>2, ScriptFacts
  <2>4. CASE p # 0
    BY <2>4, <1>1, <2>1, <1>2, ScriptFacts
  <2>5. QED
    BY <2>2, <2>3, <2>4
<1>3. PromptOf(t, i) = CHOOSE j \in before \cup {0} : \A k \in before : k <= j
  BY DEF PromptOf
<1>4. QED
  <2> HIDE DEF before
  <2>1. QED
    BY <1>1, <1>2, <1>3

\* What a line adds to the prompts before it.
LEMMA PromptMovesOn ==
    ASSUME NEW t \in Transcript, NEW i \in Nat, i >= 1, NEW s, NEW p, LastAsked(p, t, s, i - 1)
    PROVE  /\ ~(IsPrompt(t, i) /\ Script[t][i].session = s) => LastAsked(p, t, s, i)
           /\ IsPrompt(t, i) /\ Script[t][i].session = s => LastAsked(i, t, s, i)
<1>1. \A j \in 1 .. i : j = i \/ j \in 1 .. (i - 1)
  OBVIOUS
<1>2. QED
  BY <1>1 DEF LastAsked

-----------------------------------------------------------------------------
(* What grows, and what a run may rely on because of it *)

\* Transcripts and the store only grow, and a session's row stays.
CaptureGrows ==
    /\ \A t \in Transcript : written[t] <= written'[t] /\ Lines(t) <= Lines(t)'
    /\ capturedMemory \subseteq capturedMemory' /\ span \subseteq span' /\ halfRead \subseteq halfRead'
    /\ \A s \in CaptureSession : RowOpen(s) => RowOpen(s)'

LEMMA LinesFacts ==
    ASSUME written \in [Transcript -> Nat], half \in [Transcript -> BOOLEAN]
    PROVE  \A t \in Transcript : /\ Lines(t) \in Nat /\ written[t] \in Nat
                                 /\ Lines(t) = (IF half[t] THEN written[t] + 1 ELSE written[t])
BY DEF Lines

LEMMA DoneGrows ==
    ASSUME capturedMemory \subseteq capturedMemory', span \subseteq span', halfRead \subseteq halfRead'
    PROVE  /\ \A t, i, b : BlockDone(t, i, b) => BlockDone(t, i, b)'
           /\ \A t, n : DoneTo(t, n) => DoneTo(t, n)'
<1>1. ASSUME NEW t, NEW i, NEW b, BlockDone(t, i, b) PROVE BlockDone(t, i, b)'
  BY <1>1 DEF BlockDone
<1>2. ASSUME NEW t, NEW n, DoneTo(t, n), NEW i \in 1 .. n
      PROVE  <<t, i>> \in halfRead' \/ Captured(t, i)'
  BY <1>2 DEF DoneTo, Captured
<1>3. QED
  BY <1>1, <1>2 DEF DoneTo

LEMMA RunnerFacts ==
    ASSUME NEW x \in RunnerState
    PROVE  /\ x.at \in CapturePlace /\ x.file \in Transcript \cup {NoFile}
           /\ x.agent \in CaptureAgent \cup {Nobody} /\ x.closes \in BOOLEAN
           /\ x.state \in [Transcript -> Nat] /\ x.line \in Nat /\ x.upto \in Nat /\ x.whole \in Nat
           /\ x.block \in Nat /\ x.prompt \in [CaptureSession -> Nat] /\ x.new \in SUBSET Nat
           /\ x.digest \in DigestSet
BY DEF RunnerState

LEMMA CaptureFacts ==
    ASSUME CaptureTypes
    PROVE  /\ written \in [Transcript -> Nat] /\ half \in [Transcript -> BOOLEAN]
           /\ \A t \in Transcript : written[t] \in Nat /\ Lines(t) \in Nat /\ offset[t] \in Nat
           /\ \A r \in Runner : runner[r] \in RunnerState
           /\ \A s \in CaptureSession : sessionRow[s] \in CaptureRow
           /\ runs \in Nat /\ MaxRuns \in Nat /\ MaxCaptureCrashes \in Nat
BY LinesFacts, TranscriptAssumption DEF CaptureTypes

LEMMA FitsOn ==
    ASSUME CaptureTypes, CaptureTypes', CaptureInv, CaptureGrows,
           NEW x \in RunnerState, RunnerFits(x)
    PROVE  RunnerFits(x)'
<1> USE RunnerFacts
<1>1. \A t \in Transcript : /\ written[t] \in Nat /\ written'[t] \in Nat /\ written[t] <= written'[t]
                            /\ Lines(t) \in Nat /\ Lines(t)' \in Nat /\ Lines(t) <= Lines(t)'
  <2>1. \A t \in Transcript : written[t] \in Nat /\ Lines(t) \in Nat
    BY LinesFacts DEF CaptureTypes
  <2>2. \A t \in Transcript : written'[t] \in Nat /\ Lines(t)' \in Nat
    BY DEF CaptureTypes, Lines
  <2>3. QED
    BY <2>1, <2>2 DEF CaptureGrows
<1>2. /\ \A t, i, b : BlockDone(t, i, b) => BlockDone(t, i, b)'
      /\ \A t, n : DoneTo(t, n) => DoneTo(t, n)'
      /\ halfRead \subseteq halfRead' /\ \A s \in CaptureSession : RowOpen(s) => RowOpen(s)'
  BY DoneGrows DEF CaptureGrows
<1>3. x.at # "idle" => x.file \in Transcript
  BY DEF RunnerFits
<1>4. x.closes /\ x.at \notin {"idle", "open"} => RowOpen(Of(x.file))'
  BY <1>2, <1>3, ScriptFacts DEF RunnerFits
<1>5. x.at \in {"read", "lines", "save"} =>
          \A t \in Transcript : x.state[t] <= Lines(t)' /\ DoneTo(t, x.state[t])'
  <2>1. \A t \in Transcript : x.state[t] \in Nat
    OBVIOUS
  <2>2. QED
    BY <1>1, <1>2, <2>1 DEF RunnerFits
<1>6. x.at \in {"lines", "save"} => x.upto <= Lines(x.file)'
  BY <1>1, <1>3 DEF RunnerFits
<1>7. x.at = "save" => DoneTo(x.file, x.upto)'
  BY <1>2 DEF RunnerFits
<1>8. ASSUME x.at = "lines" PROVE LinesFit(x)'
  <2>1. LinesFit(x) /\ x.file \in Transcript
    BY <1>3, <1>8 DEF RunnerFits
  <2>2. x.whole <= written'[x.file] /\ x.upto <= x.whole + 1 /\ x.line >= 1
    BY <2>1, <1>1 DEF LinesFit
  <2>3. x.upto > x.whole /\ x.line <= x.upto => <<x.file, x.upto>> \in halfRead'
    BY <2>1, <1>2 DEF LinesFit
  <2>4. DoneTo(x.file, x.line - 1)'
    BY <2>1, <1>2 DEF LinesFit
  <2>5. ASSUME x.block > 0
        PROVE  /\ x.line <= x.whole /\ x.block <= Len(Script[x.file][x.line].blocks)
               /\ RowOpen(Script[x.file][x.line].session)'
               /\ \A b \in 1 .. x.block - 1 : BlockDone(x.file, x.line, b)'
    <3>1. x.line <= x.whole /\ x.block <= Len(Script[x.file][x.line].blocks)
          /\ RowOpen(Script[x.file][x.line].session)
          /\ \A b \in 1 .. x.block - 1 : BlockDone(x.file, x.line, b)
      BY <2>1, <2>5 DEF LinesFit
    <3>2. x.line \in 1 .. Len(Script[x.file])
      <4>1. Lines(x.file) <= Len(Script[x.file]) /\ written[x.file] <= Lines(x.file)
        <5>1. TranscriptsFit /\ written \in [Transcript -> Nat] /\ half \in [Transcript -> BOOLEAN]
          BY DEF CaptureInv, CaptureTypes
        <5>2. Lines(x.file) <= Len(Script[x.file])
          BY <5>1, <2>1 DEF TranscriptsFit
        <5>3. written[x.file] <= Lines(x.file)
          BY <5>1, <2>1, LinesFacts
        <5>4. QED
          BY <5>2, <5>3
      <4>2. x.whole <= written[x.file] /\ x.line >= 1
        BY <2>1 DEF LinesFit
      <4>3. QED
        BY <3>1, <4>1, <4>2, <1>1, <2>1, ScriptFacts
    <3>3. Script[x.file][x.line].session \in CaptureSession
      BY <3>2, <2>1, ScriptFacts
    <3>4. QED
      BY <3>1, <3>3, <1>2
  <2>6. x.line <= x.whole =>
          \A s \in CaptureSession :
              LastAsked(x.prompt[s], x.file, s, IF x.block = 0 THEN x.line - 1 ELSE x.line)
    BY <2>1 DEF LinesFit
  <2>7. QED
    BY <2>2, <2>3, <2>4, <2>5, <2>6 DEF LinesFit, LastAsked
<1>9. x.at \in {"open", "hermes", "append", "artifact", "close"} => x.closes
  BY DEF RunnerFits
<1>10. QED
  BY <1>3, <1>4, <1>5, <1>6, <1>7, <1>8, <1>9 DEF RunnerFits

\* A run's move keeps the invariant when it fits, and what is shared does.
LEMMA CaptureMoves ==
    ASSUME CaptureInv, CaptureTypes', CaptureGrows,
           NEW r \in Runner, NEW next \in RunnerState, Go(r, next), RunnerFits(next)',
           TranscriptsFit', SpansFit', CopiesFit'
    PROVE  CaptureInv'
<1>1. CaptureTypes
  BY DEF CaptureInv
<1>2. runner' = [runner EXCEPT ![r] = next] /\ runner \in [Runner -> RunnerState]
  BY <1>1 DEF Go, CaptureTypes
<1>3. ASSUME NEW o \in Runner PROVE RunnerFits(runner[o])'
  <2>1. CASE o = r
    <3>1. runner'[o] = next
      BY <2>1, <1>2
    <3>2. QED
      BY <3>1 DEF RunnerFits, LinesFit, LastAsked
  <2>2. CASE o # r
    <3> DEFINE x == runner[o]
    <3>1. x \in RunnerState /\ RunnerFits(x)
      BY <1>2 DEF CaptureInv
    <3>2. runner'[o] = x
      BY <2>2, <1>2
    <3>3. PICK y \in RunnerState : y = x
      BY <3>1
    <3>4. RunnerFits(y)'
      <4>1. RunnerFits(y)
        BY <3>1, <3>3
      <4> HIDE DEF x
      <4>2. QED
        BY <4>1, <1>1, FitsOn
    <3>5. runner'[o] = y
      BY <3>2, <3>3
    <3>6. QED
      BY <3>4, <3>5 DEF RunnerFits, LinesFit, LastAsked
  <2>3. QED
    BY <2>1, <2>2
<1>4. QED
  BY <1>3 DEF CaptureInv

\* No spans made: the counts stay, when nobody falls behind.
LEMMA CopiesQuiet ==
    ASSUME CaptureInv, NEW r \in Runner, NEW next, Go(r, next), span' = span, runs' = runs,
           \A b \in BlockIds : AheadOf(next, b) => AheadOf(runner[r], b)
    PROVE  CopiesFit'
<1>1. CaptureTypes
  BY DEF CaptureInv
<1>2. runner' = [runner EXCEPT ![r] = next] /\ runner \in [Runner -> RunnerState]
  BY <1>1 DEF Go, CaptureTypes
<1>3. ASSUME NEW b \in BlockIds
      PROVE  IsFiniteSet(Ahead(b)') /\ Cardinality(Ahead(b)') + Copies(b)' <= runs'
  <2>1. IsFiniteSet(Ahead(b)) /\ Cardinality(Ahead(b)) + Copies(b) <= runs
    BY DEF CaptureInv, CopiesFit
  <2>2. Ahead(b)' \subseteq Ahead(b)
    <3>1. Ahead(b)' = {o \in Runner : AheadOf(runner'[o], b)}
      BY DEF Ahead, AheadOf
    <3>2. \A o \in Runner : AheadOf(runner'[o], b) => AheadOf(runner[o], b)
      BY <1>2
    <3>3. QED
      BY <3>1, <3>2 DEF Ahead
  <2>3. IsFiniteSet(Ahead(b)') /\ Cardinality(Ahead(b)') <= Cardinality(Ahead(b))
    BY <2>1, <2>2, FS_Subset
  <2>4. Copies(b)' = Copies(b)
    BY DEF Copies
  <2>5. Copies(b) \in Nat
    <3>1. IsFiniteSet({s \in span : s.of = b})
      <4>1. IsFiniteSet(span) /\ {s \in span : s.of = b} \subseteq span
        BY <1>1 DEF CaptureTypes
      <4>2. QED
        BY <4>1, FS_Subset
    <3>2. QED
      BY <3>1, FS_CardinalityType DEF Copies
  <2>6. QED
    BY <2>1, <2>3, <2>4, <2>5, FS_CardinalityType, <1>1, CaptureFacts
<1>4. QED
  BY <1>3 DEF CopiesFit

\* A run's move that adds no span and passes no more of the state file.
LEMMA CaptureQuiet ==
    ASSUME CaptureInv, NEW r \in Runner, NEW next \in RunnerState, Go(r, next),
           UNCHANGED <<written, half, offset, span, runs>>, readable' \in BOOLEAN,
           capturedMemory' \subseteq BlockIds, capturedMemory \subseteq capturedMemory',
           halfRead \subseteq halfRead', sessionRow' \in [CaptureSession -> CaptureRow],
           \A s \in CaptureSession : RowOpen(s) => RowOpen(s)',
           \A b \in BlockIds : AheadOf(next, b) => AheadOf(runner[r], b),
           RunnerFits(next)'
    PROVE  CaptureInv'
<1>1. CaptureTypes /\ TranscriptsFit /\ SpansFit
  BY DEF CaptureInv
<1>2. runner' \in [Runner -> RunnerState]
  BY <1>1 DEF Go, CaptureTypes
<1>3. CaptureTypes'
  BY <1>1, <1>2 DEF CaptureTypes
<1>4. CaptureGrows
  <2>1. \A t \in Transcript : written[t] <= written'[t] /\ Lines(t) <= Lines(t)'
    BY <1>1, LinesFacts DEF CaptureTypes, Lines
  <2>2. QED
    BY <2>1 DEF CaptureGrows
<1>5. TranscriptsFit'
  <2>1. \A t, n : DoneTo(t, n) => DoneTo(t, n)'
    BY DoneGrows
  <2>2. QED
    BY <1>1, <2>1 DEF TranscriptsFit, Lines
<1>6. SpansFit'
  BY <1>1 DEF SpansFit, LastAsked
<1>7. CopiesFit'
  BY CopiesQuiet
<1>8. QED
  BY <1>3, <1>4, <1>5, <1>6, <1>7, CaptureMoves

-----------------------------------------------------------------------------
(* Each action keeps it *)

LEMMA NotRunningTyped ==
    /\ NotRunning \in RunnerState /\ NotRunning.at = "idle" /\ \A b : ~AheadOf(NotRunning, b)
    /\ NotRunning.closes = FALSE /\ Unread \in [Transcript -> Nat]
BY DEF NotRunning, Unread, Unasked, RunnerState, CapturePlace, DigestSet, AheadOf

LEMMA StageTyped ==
    ASSUME CaptureTypes, NEW r \in Runner, NEW place \in CapturePlace
    PROVE  /\ Stage(r, place) \in RunnerState /\ Stage(r, place).at = place
           /\ Stage(r, place).file = runner[r].file /\ Stage(r, place).closes = runner[r].closes
           /\ Stage(r, place).agent = runner[r].agent
           /\ Stage(r, place).block = 0 /\ Stage(r, place).new = {}
<1>1. runner[r] \in RunnerState
  BY DEF CaptureTypes
<1>2. NotRunning \in RunnerState /\ NotRunning.block = 0 /\ NotRunning.new = {}
  BY NotRunningTyped DEF NotRunning
<1> HIDE DEF NotRunning
<1>3. QED
  BY <1>1, <1>2 DEF Stage, ReadBy, RunnerState

LEMMA CaptureStays ==
    ASSUME CaptureInv, UNCHANGED <<runner, written, half, offset, readable, capturedMemory, span,
                                   sessionRow, runs, halfRead>>
    PROVE  CaptureInv'
<1>1. CaptureTypes /\ CaptureTypes' /\ TranscriptsFit /\ SpansFit /\ CopiesFit
  BY DEF CaptureInv, CaptureTypes
<1>2. \A t \in Transcript : Lines(t)' = Lines(t) /\ written'[t] = written[t]
  BY DEF Lines
<1>3. /\ \A t, i, b : BlockDone(t, i, b) => BlockDone(t, i, b)'
      /\ \A t, n : DoneTo(t, n) => DoneTo(t, n)'
  BY DoneGrows
<1>4. CaptureGrows
  BY <1>1, <1>2, CaptureFacts DEF CaptureGrows, RowOpen
<1>5. ASSUME NEW o \in Runner PROVE RunnerFits(runner[o])'
  <2>1. PICK y \in RunnerState : y = runner[o]
    BY <1>1, CaptureFacts
  <2>2. RunnerFits(y)
    BY <2>1 DEF CaptureInv
  <2>3. RunnerFits(y)'
    BY <2>2, <1>1, <1>4, FitsOn
  <2>4. QED
    BY <2>1, <2>3 DEF RunnerFits, LinesFit, LastAsked
<1>6. TranscriptsFit'
  BY <1>1, <1>2, <1>3 DEF TranscriptsFit
<1>7. SpansFit'
  BY <1>1 DEF SpansFit, LastAsked
<1>8. CopiesFit'
  BY <1>1 DEF CopiesFit, Ahead, AheadOf, Copies
<1>9. QED
  BY <1>1, <1>5, <1>6, <1>7, <1>8 DEF CaptureInv

LEMMA NotRunningFits == RunnerFits(NotRunning)'
BY NotRunningTyped DEF RunnerFits

\* A run that ends, with what it has in the store.
LEMMA StopStep ==
    ASSUME CaptureInv, NEW r \in Runner, Stop(r),
           UNCHANGED <<written, half, offset, readable, capturedMemory, span, runs, halfRead>>,
           sessionRow' \in [CaptureSession -> CaptureRow],
           \A s \in CaptureSession : RowOpen(s) => RowOpen(s)'
    PROVE  CaptureInv'
<1>1. CaptureTypes
  BY DEF CaptureInv
<1>2. Go(r, NotRunning)
  BY DEF Stop
<1>3. readable' \in BOOLEAN /\ capturedMemory' \subseteq BlockIds
  BY <1>1 DEF CaptureTypes
<1>4. QED
  BY <1>2, <1>3, NotRunningTyped, NotRunningFits, CaptureQuiet

LEMMA KillStep ==
    ASSUME CaptureInv, NEW r \in Runner, Kill(r) PROVE CaptureInv'
<1>1. sessionRow' = sessionRow /\ CaptureTypes
  BY DEF Kill, kept, CaptureInv
<1>2. \A s \in CaptureSession : RowOpen(s) => RowOpen(s)'
  BY <1>1 DEF RowOpen
<1>3. QED
  BY <1>1, <1>2, StopStep DEF Kill, kept, CaptureTypes

LEMMA OpenedRow ==
    ASSUME CaptureTypes, NEW s \in CaptureSession, NEW a \in CaptureAgent \cup {Nobody},
           sessionRow' = CaptureOpened(s, a)
    PROVE  /\ sessionRow' \in [CaptureSession -> CaptureRow]
           /\ RowOpen(s)' /\ \A c \in CaptureSession : RowOpen(c) => RowOpen(c)'
<1>1. sessionRow \in [CaptureSession -> CaptureRow]
  BY DEF CaptureTypes
<1>2. a # NoRow /\ a \in CaptureAgent \cup {Nobody, NoRow}
  BY TranscriptAssumption DEF Nobody, NoRow
<1>3. CASE sessionRow[s].owner = NoRow \/ (a # Nobody /\ sessionRow[s].owner = Nobody)
  <2>1. sessionRow' = [sessionRow EXCEPT ![s] = [sessionRow[s] EXCEPT !.owner = a]]
    BY <1>3 DEF CaptureOpened
  <2>2. [sessionRow[s] EXCEPT !.owner = a] \in CaptureRow
    BY <1>1, <1>2 DEF CaptureRow
  <2>3. sessionRow'[s].owner = a
    BY <2>1, <2>2, <1>1 DEF CaptureRow
  <2>4. \A c \in CaptureSession : c # s => sessionRow'[c] = sessionRow[c]
    BY <2>1, <1>1
  <2>5. QED
    BY <2>1, <2>2, <2>3, <2>4, <1>1, <1>2 DEF RowOpen
<1>4. CASE ~ (sessionRow[s].owner = NoRow \/ (a # Nobody /\ sessionRow[s].owner = Nobody))
  <2>1. sessionRow' = sessionRow
    BY <1>4 DEF CaptureOpened
  <2>2. QED
    BY <2>1, <1>1, <1>4 DEF RowOpen
<1>5. QED
  BY <1>3, <1>4

LEMMA SourcedRow ==
    ASSUME CaptureTypes, NEW s \in CaptureSession, NEW a \in CaptureAgent \cup {Nobody},
           RowOpen(s), sessionRow' = Sourced(s, a)
    PROVE  /\ sessionRow' \in [CaptureSession -> CaptureRow]
           /\ \A c \in CaptureSession : RowOpen(c) => RowOpen(c)'
<1>1. sessionRow \in [CaptureSession -> CaptureRow]
  BY DEF CaptureTypes
<1> DEFINE more == sessionRow[s].sources \cup
                     {IF sessionRow[s].owner = Nobody THEN a ELSE sessionRow[s].owner}
<1>2. sessionRow' = [sessionRow EXCEPT ![s] = [sessionRow[s] EXCEPT !.sources = more]]
  BY DEF Sourced
<1>3. more \in SUBSET (CaptureAgent \cup {Nobody})
  BY <1>1 DEF CaptureRow, RowOpen
<1> HIDE DEF more
<1>4. [sessionRow[s] EXCEPT !.sources = more] \in CaptureRow
      /\ [sessionRow[s] EXCEPT !.sources = more].owner = sessionRow[s].owner
  BY <1>1, <1>3 DEF CaptureRow
<1>5. \A c \in CaptureSession : sessionRow'[c].owner = sessionRow[c].owner
  BY <1>1, <1>2, <1>4
<1>6. QED
  BY <1>1, <1>2, <1>4, <1>5 DEF RowOpen

LEMMA LoadStateStep ==
    ASSUME CaptureInv, NEW r \in Runner, LoadState(r) PROVE CaptureInv'
<1>1. CaptureTypes /\ RunnerFits(runner[r]) /\ TranscriptsFit
  BY DEF CaptureInv
<1>2. PICK st \in [Transcript -> Nat] : st = IF readable THEN offset ELSE Unread
  BY <1>1, NotRunningTyped DEF CaptureTypes
<1>3. ASSUME NEW t \in Transcript PROVE st[t] <= Lines(t) /\ DoneTo(t, st[t])
  <2>1. CASE readable
    BY <2>1, <1>1, <1>2 DEF TranscriptsFit
  <2>2. CASE ~readable
    <3>1. st[t] = 0 /\ Lines(t) \in Nat
      BY <2>2, <1>1, <1>2, CaptureFacts DEF Unread
    <3>2. QED
      BY <3>1 DEF DoneTo
  <2>3. QED
    BY <2>1, <2>2
<1>4. Stage(r, "read") \in RunnerState /\ Stage(r, "read").at = "read"
      /\ Stage(r, "read").file = runner[r].file /\ Stage(r, "read").closes = runner[r].closes
  BY <1>1, StageTyped DEF CapturePlace
<1>5. PICK next \in RunnerState : next = [Stage(r, "read") EXCEPT !.state = st]
  BY <1>4 DEF RunnerState
<1>6. next.at = "read" /\ next.file = runner[r].file /\ next.closes = runner[r].closes /\ next.state = st
  BY <1>4, <1>5 DEF RunnerState
<1>7. Go(r, next)
  BY <1>2, <1>5 DEF LoadState
<1>8. /\ UNCHANGED <<written, half, offset, readable, capturedMemory, span, sessionRow, runs, halfRead>>
      /\ runner[r].at = "load"
  BY DEF LoadState, kept, CaptureAt
<1>9. RunnerFits(next)'
  <2>1. \A t \in Transcript : st[t] <= Lines(t)' /\ DoneTo(t, st[t])'
    <3>1. \A t, n : DoneTo(t, n) => DoneTo(t, n)'
      BY <1>8, DoneGrows
    <3>2. \A t \in Transcript : Lines(t)' = Lines(t)
      BY <1>8 DEF Lines
    <3>3. QED
      BY <1>3, <3>1, <3>2
  <2>2. QED
    BY <2>1, <1>1, <1>6, <1>8 DEF RunnerFits, RowOpen
<1>10. \A b \in BlockIds : AheadOf(next, b) => AheadOf(runner[r], b)
  BY <1>8 DEF AheadOf
<1>11. QED
  BY <1>1, <1>7, <1>8, <1>9, <1>10, CaptureQuiet DEF CaptureTypes, RowOpen

LEMMA ReadTranscriptStep ==
    ASSUME CaptureInv, NEW r \in Runner, ReadTranscript(r) PROVE CaptureInv'
<1>1. CaptureTypes /\ RunnerFits(runner[r]) /\ TranscriptsFit
  BY DEF CaptureInv
<1>2. runner[r].at = "read" /\ runner[r].file \in Transcript /\ runner[r] \in RunnerState
  BY <1>1 DEF ReadTranscript, CaptureAt, RunnerFits, CaptureTypes
<1>t. PICK t \in Transcript : t = runner[r].file
  BY <1>2
<1>f. PICK from \in Nat : from = runner[r].state[t]
  BY <1>2, RunnerFacts
<1>3. /\ from <= Lines(t) /\ DoneTo(t, from) /\ Lines(t) \in Nat /\ written[t] \in Nat
      /\ Lines(t) = (IF half[t] THEN written[t] + 1 ELSE written[t]) /\ half[t] \in BOOLEAN
  BY <1>1, <1>2, <1>f, CaptureFacts, LinesFacts DEF RunnerFits
<1>4. /\ Go(r, [runner[r] EXCEPT !.at = "lines", !.line = from + 1, !.upto = Lines(t),
                                 !.whole = written[t], !.block = 0, !.prompt = Recovered(t, from)])
      /\ halfRead' = IF half[t] /\ Lines(t) > from THEN halfRead \cup {<<t, Lines(t)>>} ELSE halfRead
      /\ UNCHANGED <<written, half, offset, readable, capturedMemory, span, sessionRow, runs>>
  BY <1>t, <1>f DEF ReadTranscript, kept, ReadBy
<1>5. Recovered(t, from) \in [CaptureSession -> Nat]
  <2>1. \A s \in CaptureSession : Recovered(t, from)[s] \in Nat
    BY <1>1, RecoveredLast
  <2> DEFINE last(s) == LET of == {i \in 1 .. from : i <= written[t] /\ IsPrompt(t, i)
                                                      /\ Script[t][i].session = s}
                        IN  CHOOSE i \in of \cup {0} : \A j \in of : j <= i
  <2>2. Recovered(t, from) = [s \in CaptureSession |-> last(s)]
    BY DEF Recovered
  <2> HIDE DEF last
  <2>3. QED
    BY <2>1, <2>2
<1>a. PICK asked \in [CaptureSession -> Nat] : asked = Recovered(t, from)
  BY <1>5
<1>6. \A s \in CaptureSession : from <= written[t] => LastAsked(asked[s], t, s, from)
  BY <1>1, <1>a, RecoveredLast
<1>b. PICK x \in RunnerState : x = runner[r]
  BY <1>2
<1>c. PICK i \in Nat : i = from + 1
  OBVIOUS
<1>d. PICK j \in Nat : j = Lines(t)
  BY <1>3
<1>e. PICK k \in Nat : k = written[t]
  BY <1>3
<1>7. PICK next : next = [x EXCEPT !.at = "lines", !.line = i, !.upto = j, !.whole = k, !.block = 0,
                                   !.prompt = asked]
  OBVIOUS
<1>8. /\ next \in RunnerState /\ next.at = "lines" /\ next.file = t /\ next.closes = x.closes
      /\ next.state = x.state /\ next.line = i /\ next.upto = j
      /\ next.whole = k /\ next.block = 0 /\ next.prompt = asked
  <2>1. PICK y \in RunnerState : y = [x EXCEPT !.at = "lines", !.line = i, !.upto = j]
    BY DEF RunnerState, CapturePlace
  <2>2. next = [y EXCEPT !.whole = k, !.block = 0, !.prompt = asked]
    BY <2>1, <1>7
  <2>3. y.at = "lines" /\ y.line = i /\ y.upto = j /\ y.file = x.file
    BY <2>1 DEF RunnerState
  <2>4. y.closes = x.closes /\ y.state = x.state
    BY <2>1 DEF RunnerState
  <2>5. next \in RunnerState
    <3>1. [y EXCEPT !.whole = k, !.block = 0, !.prompt = asked] \in RunnerState
      BY DEF RunnerState
    <3>2. QED
      BY <3>1, <2>2
  <2>6. next.whole = k /\ next.block = 0 /\ next.prompt = asked
    BY <2>2 DEF RunnerState
  <2>7. next.at = y.at /\ next.line = y.line /\ next.upto = y.upto
    BY <2>2 DEF RunnerState
  <2>8. next.file = y.file /\ next.closes = y.closes /\ next.state = y.state
    BY <2>2 DEF RunnerState
  <2>9. QED
    BY <2>3, <2>4, <2>5, <2>6, <2>7, <2>8, <1>b, <1>t
<1>9. Go(r, next) /\ halfRead \subseteq halfRead' /\ \A u \in Transcript : Lines(u)' = Lines(u)
  <2>1. [runner[r] EXCEPT !.at = "lines", !.line = from + 1, !.upto = Lines(t), !.whole = written[t],
                          !.block = 0, !.prompt = Recovered(t, from)] = next
    BY <1>7, <1>a, <1>b, <1>c, <1>d, <1>e
  <2>2. QED
    BY <2>1, <1>4 DEF Lines
<1>10. \A u, n : DoneTo(u, n) => DoneTo(u, n)'
  BY <1>4, <1>9, DoneGrows
<1>11. LinesFit(next)'
  <2>1. next.whole <= written'[next.file] /\ next.upto <= next.whole + 1 /\ next.line >= 1
    BY <1>3, <1>4, <1>8, <1>c, <1>d, <1>e
  <2>2. next.upto > next.whole /\ next.line <= next.upto => <<next.file, next.upto>> \in halfRead'
    BY <1>3, <1>4, <1>8, <1>c, <1>d, <1>e
  <2>3. DoneTo(next.file, next.line - 1)'
    <3>1. next.line - 1 = from
      BY <1>8, <1>c
    <3>2. DoneTo(t, from)'
      BY <1>3, <1>10
    <3>3. QED
      BY <3>1, <3>2, <1>8
  <2>4. ASSUME next.line <= next.whole, NEW s \in CaptureSession
        PROVE  LastAsked(next.prompt[s], next.file, s, next.line - 1)
    <3>1. next.line - 1 = from /\ from <= written[t]
      BY <2>4, <1>3, <1>8, <1>c, <1>e
    <3>2. QED
      BY <3>1, <1>6, <1>8
  <2>5. QED
    BY <2>1, <2>2, <2>3, <2>4, <1>8 DEF LinesFit, LastAsked
<1>12. RunnerFits(next)'
  <2>1. \A u \in Transcript : next.state[u] <= Lines(u)' /\ DoneTo(u, next.state[u])'
    BY <1>1, <1>2, <1>b, <1>8, <1>9, <1>10 DEF RunnerFits
  <2>2. next.upto <= Lines(next.file)'
    BY <1>8, <1>9, <1>3, <1>d
  <2>3. next.closes => RowOpen(Of(next.file))'
    BY <1>1, <1>2, <1>t, <1>b, <1>4, <1>8 DEF RunnerFits, RowOpen
  <2>4. QED
    BY <2>1, <2>2, <2>3, <1>8, <1>11 DEF RunnerFits
<1>13. \A b \in BlockIds : AheadOf(next, b) => AheadOf(runner[r], b)
  BY <1>2 DEF AheadOf
<1>14. QED
  BY <1>1, <1>4, <1>8, <1>9, <1>12, <1>13, CaptureQuiet DEF CaptureTypes, RowOpen

\* Where a run is among the lines.
LEMMA LineFacts ==
    ASSUME CaptureInv, NEW r \in Runner, NEW x \in RunnerState, x = runner[r], x.at = "lines"
    PROVE  /\ x.file \in Transcript /\ LinesFit(x) /\ RunnerFits(x)
           /\ x.line \in Nat /\ x.line >= 1 /\ x.block \in Nat /\ x.upto \in Nat /\ x.whole \in Nat
           /\ x.whole <= Len(Script[x.file]) /\ x.upto <= Len(Script[x.file])
           /\ x.line <= x.upto \/ x.line <= x.whole => x.line \in 1 .. Len(Script[x.file])
           /\ Current(r) = Script[x.file][x.line]
<1>1. CaptureTypes /\ RunnerFits(x) /\ TranscriptsFit
  BY DEF CaptureInv
<1>2. x.file \in Transcript /\ LinesFit(x) /\ x.upto <= Lines(x.file)
  BY <1>1 DEF RunnerFits
<1>3. x.line \in Nat /\ x.block \in Nat /\ x.upto \in Nat /\ x.whole \in Nat
  BY RunnerFacts
<1>4. x.line >= 1 /\ x.whole <= written[x.file]
  BY <1>2 DEF LinesFit
<1>5. /\ Lines(x.file) <= Len(Script[x.file]) /\ written[x.file] <= Lines(x.file)
      /\ Lines(x.file) \in Nat /\ written[x.file] \in Nat
  <2>1. written \in [Transcript -> Nat] /\ half \in [Transcript -> BOOLEAN]
    BY <1>1 DEF CaptureTypes
  <2>2. Lines(x.file) \in Nat /\ written[x.file] \in Nat /\ written[x.file] <= Lines(x.file)
    BY <1>2, <2>1, LinesFacts
  <2>3. QED
    BY <2>2, <1>1, <1>2 DEF TranscriptsFit
<1>6. Len(Script[x.file]) \in Nat
  BY <1>2, ScriptFacts
<1>7. QED
  BY <1>1, <1>2, <1>3, <1>4, <1>5, <1>6 DEF Current, ReadBy

\* A run that goes on among the lines.
LEMMA OnLines ==
    ASSUME CaptureInv, NEW r \in Runner, NEW x \in RunnerState, x = runner[r], x.at = "lines",
           UNCHANGED <<written, half>>, capturedMemory \subseteq capturedMemory', span \subseteq span',
           halfRead \subseteq halfRead', \A s \in CaptureSession : RowOpen(s) => RowOpen(s)',
           NEW next \in RunnerState, next.at = "lines", next.file = x.file, next.closes = x.closes,
           next.state = x.state, next.upto = x.upto, LinesFit(next)'
    PROVE  RunnerFits(next)'
<1>1. RunnerFits(x) /\ x.file \in Transcript
  BY LineFacts
<1>2. Of(x.file) \in CaptureSession
  BY <1>1, ScriptFacts
<1>3. next.closes => RowOpen(Of(next.file))'
  BY <1>1, <1>2 DEF RunnerFits
<1>4. \A t \in Transcript : Lines(t)' = Lines(t)
  BY DEF Lines
<1>5. \A t \in Transcript : next.state[t] <= Lines(t)' /\ DoneTo(t, next.state[t])'
  BY <1>1, <1>4, DoneGrows DEF RunnerFits
<1>6. next.upto <= Lines(next.file)'
  BY <1>1, <1>4 DEF RunnerFits
<1>7. QED
  BY <1>1, <1>3, <1>5, <1>6 DEF RunnerFits

LEMMA PastFacts ==
    ASSUME CaptureInv, NEW r \in Runner, NEW x \in RunnerState, x = runner[r], NEW b \in Nat, NEW next,
           next = Past(r, b)
    PROVE  /\ next \in RunnerState
           /\ next.at = x.at /\ next.file = x.file /\ next.closes = x.closes
           /\ next.state = x.state /\ next.upto = x.upto /\ next.whole = x.whole
           /\ next.prompt = x.prompt
           /\ b = Len(Current(r).blocks) => next.line = x.line + 1 /\ next.block = 0
           /\ b # Len(Current(r).blocks) => next.line = x.line /\ next.block = b + 1
<1>1. CASE b = Len(Current(r).blocks)
  <2>1. next = [x EXCEPT !.line = @ + 1, !.block = 0]
    BY <1>1 DEF Past
  <2>2. next \in RunnerState
    <3>1. x.line + 1 \in Nat
      BY RunnerFacts
    <3>2. [x EXCEPT !.line = @ + 1, !.block = 0] \in RunnerState
      BY <3>1 DEF RunnerState
    <3>3. QED
      BY <3>2, <2>1
  <2>3. QED
    BY <2>1, <2>2, <1>1 DEF RunnerState
<1>2. CASE b # Len(Current(r).blocks)
  <2>1. next = [x EXCEPT !.block = b + 1]
    BY <1>2 DEF Past
  <2>2. next \in RunnerState
    BY <2>1 DEF RunnerState
  <2>3. QED
    BY <2>1, <2>2, <1>2 DEF RunnerState
<1>3. QED
  BY <1>1, <1>2

\* A run at the start of a line, or on the next line, has no block ahead that it had not before.
LEMMA AheadOnLines ==
    ASSUME NEW b \in BlockIds, NEW x, x.at = "lines", x.line \in Nat, x.block = 0,
           NEW next, next.at = "lines", next.line \in Nat,
           next.line = x.line \/ next.line = x.line + 1, AheadOf(next, b)
    PROVE  AheadOf(x, b)
<1>1. b[2] \in Nat /\ b[3] \in Nat
  BY BlockIdNumbers
<1>2. next.line < b[2] \/ next.line = b[2]
  BY DEF AheadOf
<1>3. x.line < b[2] \/ x.line = b[2]
  BY <1>1, <1>2
<1>4. x.block <= b[3]
  BY <1>1
<1>5. QED
  BY <1>3, <1>4 DEF AheadOf

LEMMA NextLineForeign ==
    ASSUME CaptureInv, NEW r \in Runner, NEW x \in RunnerState, x = runner[r], x.at = "lines",
           x.block = 0, x.line <= x.upto, x.line > x.whole \/ Aside(r),
           Go(r, [runner[r] EXCEPT !.line = @ + 1]),
           UNCHANGED <<written, half, offset, readable, kept, runs, halfRead>>
    PROVE  CaptureInv'
<1>1. CaptureTypes /\ LinesFit(x) /\ x.file \in Transcript /\ x.line \in 1 .. Len(Script[x.file])
      /\ x.line \in Nat /\ x.upto \in Nat /\ x.whole \in Nat /\ Current(r) = Script[x.file][x.line]
  BY LineFacts DEF CaptureInv
<1>2. PICK next : next = [x EXCEPT !.line = @ + 1]
  OBVIOUS
<1>3. /\ next \in RunnerState /\ next.at = "lines" /\ next.file = x.file /\ next.closes = x.closes
      /\ next.state = x.state /\ next.upto = x.upto /\ next.whole = x.whole
      /\ next.prompt = x.prompt /\ next.block = 0 /\ next.line = x.line + 1
  BY <1>2 DEF RunnerState
<1>4. Go(r, next) /\ UNCHANGED <<written, half, offset, readable, capturedMemory, span, sessionRow, runs, halfRead>>
  BY <1>2 DEF kept
<1>5. DoneTo(x.file, x.line)
  <2>1. <<x.file, x.line>> \in halfRead \/ Captured(x.file, x.line)
    <3>1. CASE x.line > x.whole
      <4>1. x.upto <= x.whole + 1
        BY <1>1 DEF LinesFit
      <4>2. x.line = x.upto /\ x.upto > x.whole
        BY <3>1, <4>1, <1>1
      <4>3. QED
        BY <4>2, <1>1 DEF LinesFit
    <3>2. CASE Aside(r)
      <4>1. Script[x.file][x.line].blocks = <<>>
        BY <3>2, <1>1 DEF Aside
      <4>2. DOMAIN Script[x.file][x.line].blocks = {}
        BY <4>1
      <4>3. QED
        BY <4>2 DEF Captured
    <3>3. QED
      BY <3>1, <3>2
  <2>2. DoneTo(x.file, x.line - 1)
    BY <1>1 DEF LinesFit
  <2>3. \A i \in 1 .. x.line : i = x.line \/ i \in 1 .. (x.line - 1)
    BY <1>1
  <2>4. QED
    BY <2>1, <2>2, <2>3 DEF DoneTo
<1>6. LinesFit(next)'
  <2>1. next.whole <= written'[next.file] /\ next.upto <= next.whole + 1 /\ next.line >= 1
    BY <1>1, <1>3, <1>4 DEF LinesFit
  <2>2. next.upto > next.whole /\ next.line <= next.upto => <<next.file, next.upto>> \in halfRead'
    BY <1>1, <1>3, <1>4 DEF LinesFit
  <2>3. DoneTo(next.file, next.line - 1)'
    <3>1. next.line - 1 = x.line
      BY <1>1, <1>3
    <3>2. DoneTo(x.file, x.line)'
      BY <1>4, <1>5, DoneGrows
    <3>3. QED
      BY <3>1, <3>2, <1>3
  <2>4. ASSUME next.line <= next.whole, NEW s \in CaptureSession
        PROVE  LastAsked(next.prompt[s], next.file, s, next.line - 1)'
    <3>1. x.line <= x.whole /\ next.line - 1 = x.line
      BY <2>4, <1>1, <1>3
    <3>2. LastAsked(x.prompt[s], x.file, s, x.line - 1)
      BY <3>1, <1>1 DEF LinesFit
    <3>3. ~IsPrompt(x.file, x.line)
      BY <3>1, <1>1 DEF Aside, IsPrompt
    <3>4. LastAsked(x.prompt[s], x.file, s, x.line)
      BY <3>2, <3>3, <1>1, PromptMovesOn
    <3>5. LastAsked(next.prompt[s], next.file, s, next.line - 1)
      BY <3>1, <3>4, <1>3
    <3>6. QED
      BY <3>5 DEF LastAsked, IsPrompt
  <2>5. QED
    BY <2>1, <2>2, <2>3, <2>4, <1>3 DEF LinesFit
<1>7. RunnerFits(next)'
  <2>1. \A s \in CaptureSession : RowOpen(s) => RowOpen(s)'
    BY <1>4 DEF RowOpen
  <2>2. QED
    BY <2>1, <1>3, <1>4, <1>6, OnLines
<1>8. ASSUME NEW b \in BlockIds, AheadOf(next, b) PROVE AheadOf(runner[r], b)
  <2>1. next.line \in Nat /\ (next.line = x.line \/ next.line = x.line + 1)
    BY <1>1, <1>3
  <2>2. QED
    BY <2>1, <1>1, <1>3, <1>8, AheadOnLines
<1>9. QED
  BY <1>1, <1>3, <1>4, <1>7, <1>8, CaptureQuiet DEF CaptureTypes, RowOpen

LEMMA NoBlocksCaptured ==
    ASSUME NEW t \in Transcript, NEW i \in 1 .. Len(Script[t]), Len(Script[t][i].blocks) = 0
    PROVE  Captured(t, i)
<1>1. DOMAIN Script[t][i].blocks = 1 .. Len(Script[t][i].blocks)
  BY ScriptFacts
<1>2. DOMAIN Script[t][i].blocks = {}
  BY <1>1
<1>3. QED
  BY <1>2 DEF Captured

\* Past the opening of a line's session: at its first block, or past it when it has none.
Onward(x, next) ==
    /\ next.at = "lines" /\ next.file = x.file /\ next.closes = x.closes
    /\ next.state = x.state /\ next.upto = x.upto /\ next.whole = x.whole
    /\ Len(Script[x.file][x.line].blocks) = 0 => next.line = x.line + 1 /\ next.block = 0
    /\ Len(Script[x.file][x.line].blocks) # 0 => next.line = x.line /\ next.block = 1
    /\ \A c \in CaptureSession : LastAsked(next.prompt[c], x.file, c, x.line)
CapturedStay == \A s \in CaptureSession : RowOpen(s) => RowOpen(s)'

LEMMA LineOpened ==
    ASSUME CaptureInv, NEW r \in Runner, NEW x \in RunnerState, x = runner[r], x.at = "lines",
           x.block = 0, x.line <= x.whole, RowOpen(Script[x.file][x.line].session)', CapturedStay,
           NEW next \in RunnerState, Onward(x, next),
           UNCHANGED <<written, half, capturedMemory, span, halfRead>>
    PROVE  RunnerFits(next)'
<1>1. PICK n : n = Len(Script[x.file][x.line].blocks)
  OBVIOUS
<1>2. CaptureTypes /\ LinesFit(x) /\ x.file \in Transcript /\ x.line \in 1 .. Len(Script[x.file])
      /\ x.line \in Nat /\ x.upto \in Nat /\ x.whole \in Nat
  BY LineFacts DEF CaptureInv
<1>3. n \in Nat
  BY <1>1, <1>2, ScriptFacts
<1>4. /\ next.at = "lines" /\ next.file = x.file /\ next.closes = x.closes
      /\ next.state = x.state /\ next.upto = x.upto /\ next.whole = x.whole
      /\ n = 0 => next.line = x.line + 1 /\ next.block = 0
      /\ n # 0 => next.line = x.line /\ next.block = 1
  BY <1>1 DEF Onward
<1>5. next.whole <= written'[next.file] /\ next.upto <= next.whole + 1 /\ next.line >= 1
      /\ next.line >= x.line
  <2>1. x.whole <= written[x.file] /\ x.upto <= x.whole + 1 /\ x.line >= 1
    BY <1>2 DEF LinesFit
  <2>2. next.line = x.line \/ next.line = x.line + 1
    BY <1>4
  <2>3. QED
    BY <2>1, <2>2, <1>2, <1>4
<1>6. next.upto > next.whole /\ next.line <= next.upto => <<next.file, next.upto>> \in halfRead'
  <2>1. x.upto > x.whole /\ x.line <= x.upto => <<x.file, x.upto>> \in halfRead
    BY <1>2 DEF LinesFit
  <2>2. next.line \in Nat
    BY RunnerFacts
  <2>3. QED
    BY <2>1, <2>2, <1>2, <1>5, <1>4
<1>7. DoneTo(x.file, x.line - 1) /\ \A t, m : DoneTo(t, m) => DoneTo(t, m)'
  BY <1>2, DoneGrows DEF LinesFit
<1>8. DoneTo(next.file, next.line - 1)'
  <2>1. CASE n = 0
    <3>1. Len(Script[x.file][x.line].blocks) = 0
      BY <2>1, <1>1
    <3>2. Captured(x.file, x.line)
      BY <3>1, <1>2, NoBlocksCaptured
    <3>3. \A i \in 1 .. x.line : i = x.line \/ i \in 1 .. (x.line - 1)
      BY <1>2
    <3>4. DoneTo(x.file, x.line)
      BY <3>2, <3>3, <1>7 DEF DoneTo
    <3>5. next.line - 1 = x.line
      BY <2>1, <1>2, <1>4
    <3>6. QED
      BY <3>4, <3>5, <1>7, <1>4
  <2>2. CASE n # 0
    BY <2>2, <1>7, <1>4
  <2>3. QED
    BY <2>1, <2>2
<1>9. ASSUME next.block > 0
      PROVE  /\ next.line <= next.whole /\ next.block <= Len(Script[next.file][next.line].blocks)
             /\ RowOpen(Script[next.file][next.line].session)'
             /\ \A b \in 1 .. next.block - 1 : BlockDone(next.file, next.line, b)'
  <2>1. n # 0
    BY <1>9, <1>4
  <2>2. next.line = x.line /\ next.block = 1
    BY <2>1, <1>4
  <2>3. next.line <= next.whole /\ next.block <= Len(Script[next.file][next.line].blocks)
    <3>1. 1 <= n
      BY <2>1, <1>3
    <3>2. QED
      BY <3>1, <2>2, <1>1, <1>4
  <2>4. RowOpen(Script[next.file][next.line].session)'
    BY <2>2, <1>4
  <2>5. 1 .. next.block - 1 = {}
    BY <2>2
  <2>6. QED
    BY <2>3, <2>4, <2>5
<1>10. next.line <= next.whole =>
        \A c \in CaptureSession :
            LastAsked(next.prompt[c], next.file, c, IF next.block = 0 THEN next.line - 1 ELSE next.line)'
  <2>1. (IF next.block = 0 THEN next.line - 1 ELSE next.line) = x.line
    BY <1>2, <1>4
  <2>2. ASSUME NEW c \in CaptureSession PROVE LastAsked(next.prompt[c], next.file, c, x.line)'
    <3>1. LastAsked(next.prompt[c], next.file, c, x.line)
      BY <1>4 DEF Onward
    <3>2. QED
      BY <3>1 DEF LastAsked, IsPrompt
  <2>3. QED
    BY <2>1, <2>2
<1>11. LinesFit(next)'
  BY <1>5, <1>6, <1>8, <1>9, <1>10 DEF LinesFit
<1>12. QED
  BY <1>11, <1>4, OnLines DEF CapturedStay

\* A line of the dialogue: its session is opened, and its prompt is known from here on.
LEMMA NextLineOpens ==
    ASSUME CaptureInv, NEW r \in Runner, NEW x \in RunnerState, x = runner[r], x.at = "lines",
           x.block = 0, x.line <= x.upto, ~(x.line > x.whole \/ Aside(r)),
           sessionRow' = CaptureOpened(Current(r).session, runner[r].agent),
           Go(r, [Past(r, 0) EXCEPT
                   !.prompt = IF Current(r).prompt
                                THEN [@ EXCEPT ![Current(r).session] = runner[r].line] ELSE @]),
           UNCHANGED <<written, half, offset, readable, capturedMemory, span, runs, halfRead>>
    PROVE  CaptureInv'
<1>1. CaptureTypes /\ LinesFit(x) /\ x.file \in Transcript /\ x.line \in 1 .. Len(Script[x.file])
      /\ x.line \in Nat /\ x.whole \in Nat /\ Current(r) = Script[x.file][x.line]
      /\ x.line <= x.whole
  BY LineFacts DEF CaptureInv
<1>2. PICK s \in CaptureSession : s = Script[x.file][x.line].session
  BY <1>1, ScriptFacts
<1>3. PICK n \in Nat : n = Len(Script[x.file][x.line].blocks)
  BY <1>1, ScriptFacts
<1>4. x.agent \in CaptureAgent \cup {Nobody} /\ x.prompt \in [CaptureSession -> Nat]
  BY RunnerFacts
<1>5. /\ sessionRow' \in [CaptureSession -> CaptureRow] /\ RowOpen(s)'
      /\ \A c \in CaptureSession : RowOpen(c) => RowOpen(c)'
  BY <1>1, <1>2, <1>4, OpenedRow
<1>6. PICK past : past = Past(r, 0)
  OBVIOUS
<1>7. /\ past \in RunnerState
      /\ past.at = x.at /\ past.file = x.file /\ past.closes = x.closes
      /\ past.state = x.state /\ past.upto = x.upto /\ past.whole = x.whole
      /\ past.prompt = x.prompt
      /\ n = 0 => past.line = x.line + 1 /\ past.block = 0
      /\ n # 0 => past.line = x.line /\ past.block = 1
  <2>1. /\ past \in RunnerState
        /\ past.at = x.at /\ past.file = x.file /\ past.closes = x.closes
        /\ past.state = x.state /\ past.upto = x.upto /\ past.whole = x.whole
        /\ past.prompt = x.prompt
        /\ 0 = Len(Current(r).blocks) => past.line = x.line + 1 /\ past.block = 0
        /\ 0 # Len(Current(r).blocks) => past.line = x.line /\ past.block = 0 + 1
    <3>1. 0 \in Nat
      OBVIOUS
    <3>2. QED
      BY <3>1, <1>6, PastFacts
  <2>2. n = Len(Current(r).blocks)
    BY <1>1, <1>3
  <2>3. QED
    BY <2>1, <2>2
<1>8. PICK p : p = IF Script[x.file][x.line].prompt THEN [x.prompt EXCEPT ![s] = x.line] ELSE x.prompt
  OBVIOUS
<1>9. p \in [CaptureSession -> Nat] /\ \A c \in CaptureSession : LastAsked(p[c], x.file, c, x.line)
  <2>1. p \in [CaptureSession -> Nat]
    BY <1>1, <1>2, <1>4, <1>8
  <2>2. x.line >= 1
    BY <1>1 DEF LinesFit
  <2>3. ASSUME NEW c \in CaptureSession PROVE LastAsked(p[c], x.file, c, x.line)
    <3>1. LastAsked(x.prompt[c], x.file, c, x.line - 1)
      BY <1>1 DEF LinesFit
    <3>2. /\ ~(IsPrompt(x.file, x.line) /\ s = c) => LastAsked(x.prompt[c], x.file, c, x.line)
          /\ IsPrompt(x.file, x.line) /\ s = c => LastAsked(x.line, x.file, c, x.line)
      BY <3>1, <2>2, <1>1, <1>2, PromptMovesOn
    <3>3. CASE IsPrompt(x.file, x.line) /\ s = c
      <4>1. p[c] = x.line
        BY <3>3, <1>4, <1>8 DEF IsPrompt
      <4>2. QED
        BY <4>1, <3>2, <3>3
    <3>4. CASE ~(IsPrompt(x.file, x.line) /\ s = c)
      <4>1. p[c] = x.prompt[c]
        BY <3>4, <1>4, <1>8 DEF IsPrompt
      <4>2. QED
        BY <4>1, <3>2, <3>4
    <3>5. QED
      BY <3>3, <3>4
  <2>4. QED
    BY <2>1, <2>3
<1>10. PICK next : next = [past EXCEPT !.prompt = p]
  OBVIOUS
<1>11. next \in RunnerState /\ next.at = "lines" /\ next.file = x.file /\ next.closes = x.closes
  BY <1>7, <1>9, <1>10 DEF RunnerState
<1>12. next.state = x.state /\ next.upto = x.upto /\ next.whole = x.whole /\ next.prompt = p
       /\ next.line = past.line /\ next.block = past.block
  BY <1>7, <1>9, <1>10 DEF RunnerState
<1>13. Go(r, next)
  <2>1. [Past(r, 0) EXCEPT !.prompt = IF Current(r).prompt
                              THEN [@ EXCEPT ![Current(r).session] = runner[r].line] ELSE @]
          = [past EXCEPT !.prompt = IF Script[x.file][x.line].prompt
                                      THEN [past.prompt EXCEPT ![s] = x.line] ELSE past.prompt]
    BY <1>1, <1>2, <1>6
  <2>2. @ = next
    BY <1>7, <1>8, <1>10
  <2>3. QED
    BY <2>1, <2>2
<1>14. RunnerFits(next)'
  <2>1. /\ n = 0 => next.line = x.line + 1 /\ next.block = 0
        /\ n # 0 => next.line = x.line /\ next.block = 1
    BY <1>7, <1>12
  <2>2. \A c \in CaptureSession : LastAsked(next.prompt[c], x.file, c, x.line)
    BY <1>9, <1>12
  <2>3. Onward(x, next)
    BY <2>1, <2>2, <1>3, <1>11, <1>12 DEF Onward
  <2>4. RowOpen(Script[x.file][x.line].session)' /\ CapturedStay
    BY <1>2, <1>5 DEF CapturedStay
  <2>5. QED
    BY <2>3, <2>4, <1>1, <1>11, LineOpened
<1>15. ASSUME NEW b \in BlockIds, AheadOf(next, b) PROVE AheadOf(x, b)
  <2>1. next.line = x.line \/ next.line = x.line + 1
    <3>1. n = 0 \/ n # 0
      OBVIOUS
    <3>2. QED
      BY <3>1, <1>7, <1>12
  <2>2. next.line \in Nat
    BY <1>11, RunnerFacts
  <2>3. QED
    BY <2>1, <2>2, <1>1, <1>11, <1>15, AheadOnLines
<1>16. QED
  BY <1>1, <1>5, <1>11, <1>13, <1>14, <1>15, CaptureQuiet DEF CaptureTypes

LEMMA NextLineStep ==
    ASSUME CaptureInv, NEW r \in Runner, NextLine(r) PROVE CaptureInv'
<1>1. CaptureTypes
  BY DEF CaptureInv
<1>2. PICK x \in RunnerState : x = runner[r]
  BY <1>1, CaptureFacts
<1>3. x.at = "lines" /\ x.block = 0 /\ x.line <= x.upto
  BY <1>2 DEF NextLine, CaptureAt
<1>4. UNCHANGED <<written, half, offset, readable, capturedMemory, span, runs, halfRead>>
  BY DEF NextLine
<1>5. CASE /\ x.line > x.whole \/ Aside(r)
           /\ Go(r, [runner[r] EXCEPT !.line = @ + 1]) /\ UNCHANGED sessionRow
  BY <1>2, <1>3, <1>4, <1>5, NextLineForeign DEF kept
<1>6. CASE Stop(r) /\ UNCHANGED sessionRow
  BY <1>1, <1>4, <1>6, StopStep DEF CaptureTypes, RowOpen
<1>7. CASE /\ ~(x.line > x.whole \/ Aside(r))
           /\ sessionRow' = CaptureOpened(Current(r).session, runner[r].agent)
           /\ Go(r, [Past(r, 0) EXCEPT
                      !.prompt = IF Current(r).prompt
                                   THEN [@ EXCEPT ![Current(r).session] = runner[r].line] ELSE @])
  BY <1>2, <1>3, <1>4, <1>7, NextLineOpens
<1>8. QED
  BY <1>2, <1>5, <1>6, <1>7 DEF NextLine

\* Past a block that is in the store.
LEMMA BlockPassed ==
    ASSUME CaptureInv, NEW r \in Runner, NEW x \in RunnerState, x = runner[r], x.at = "lines",
           x.block > 0, NEW next, next = Past(r, x.block),
           UNCHANGED <<written, half>>, capturedMemory \subseteq capturedMemory', span \subseteq span',
           halfRead \subseteq halfRead', \A s \in CaptureSession : RowOpen(s) => RowOpen(s)',
           BlockDone(x.file, x.line, x.block)'
    PROVE  /\ next \in RunnerState /\ RunnerFits(next)'
           /\ \A b \in BlockIds : AheadOf(next, b) => AheadOf(x, b)
           /\ ~AheadOf(next, <<x.file, x.line, x.block>>)
<1>1. /\ CaptureTypes /\ LinesFit(x) /\ x.file \in Transcript /\ x.line \in Nat /\ x.line >= 1
      /\ x.upto \in Nat /\ x.whole \in Nat /\ x.block \in Nat /\ Current(r) = Script[x.file][x.line]
  BY LineFacts DEF CaptureInv
<1>2. /\ x.line <= x.whole /\ x.block <= Len(Script[x.file][x.line].blocks)
      /\ RowOpen(Script[x.file][x.line].session)
      /\ \A b \in 1 .. x.block - 1 : BlockDone(x.file, x.line, b)
  BY <1>1 DEF LinesFit
<1>3. x.line \in 1 .. Len(Script[x.file])
  BY <1>2, LineFacts
<1>4. PICK n \in Nat : n = Len(Script[x.file][x.line].blocks)
  BY <1>1, <1>3, ScriptFacts
<1>5. /\ next \in RunnerState
      /\ next.at = x.at /\ next.file = x.file /\ next.closes = x.closes
      /\ next.state = x.state /\ next.upto = x.upto /\ next.whole = x.whole
      /\ next.prompt = x.prompt
      /\ x.block = n => next.line = x.line + 1 /\ next.block = 0
      /\ x.block # n => next.line = x.line /\ next.block = x.block + 1
  <2>1. PICK k \in Nat : k = x.block
    BY <1>1
  <2>2. next = Past(r, k) /\ n = Len(Current(r).blocks)
    BY <2>1, <1>1, <1>4
  <2>3. next \in RunnerState /\ next.at = x.at /\ next.file = x.file /\ next.closes = x.closes
    BY <2>2, PastFacts
  <2>4. next.state = x.state /\ next.upto = x.upto /\ next.whole = x.whole /\ next.prompt = x.prompt
    BY <2>2, PastFacts
  <2>5. k = Len(Current(r).blocks) => next.line = x.line + 1 /\ next.block = 0
    BY <2>2, PastFacts
  <2>6. k # Len(Current(r).blocks) => next.line = x.line /\ next.block = k + 1
    BY <2>2, PastFacts
  <2>7. QED
    BY <2>1, <2>2, <2>3, <2>4, <2>5, <2>6
<1>6. /\ \A t, i, b : BlockDone(t, i, b) => BlockDone(t, i, b)'
      /\ \A t, m : DoneTo(t, m) => DoneTo(t, m)'
  BY DoneGrows
<1>7. \A b \in 1 .. x.block : BlockDone(x.file, x.line, b)'
  <2>1. \A b \in 1 .. x.block : b = x.block \/ b \in 1 .. x.block - 1
    BY <1>1
  <2>2. \A b \in 1 .. x.block - 1 : BlockDone(x.file, x.line, b)'
    BY <1>2, <1>6
  <2>3. QED
    BY <2>1, <2>2
<1>8. \A s \in CaptureSession : LastAsked(x.prompt[s], x.file, s, x.line)
  BY <1>1, <1>2 DEF LinesFit
<1>9. DoneTo(x.file, x.line - 1)'
  BY <1>1, <1>6 DEF LinesFit
<1>10. x.upto > x.whole /\ x.line <= x.upto => <<x.file, x.upto>> \in halfRead'
  BY <1>1 DEF LinesFit
<1>11. x.whole <= written'[x.file] /\ x.upto <= x.whole + 1
  BY <1>1 DEF LinesFit
<1>12. CASE x.block = n
  <2>1. next.line = x.line + 1 /\ next.block = 0
    BY <1>5, <1>12
  <2>2. Captured(x.file, x.line)'
    <3>1. DOMAIN Script[x.file][x.line].blocks = 1 .. x.block
      <4>1. DOMAIN Script[x.file][x.line].blocks = 1 .. Len(Script[x.file][x.line].blocks)
        BY <1>1, <1>3, ScriptFacts
      <4>2. QED
        BY <4>1, <1>4, <1>12
    <3>2. QED
      BY <3>1, <1>7 DEF Captured, BlockDone
  <2>3. DoneTo(x.file, x.line)'
    <3>1. \A i \in 1 .. x.line : i = x.line \/ i \in 1 .. (x.line - 1)
      BY <1>1
    <3>2. QED
      BY <3>1, <2>2, <1>9 DEF DoneTo
  <2>4. next.line - 1 = x.line
    BY <2>1, <1>1
  <2>5. LinesFit(next)'
    <3>1. DoneTo(next.file, next.line - 1)'
      BY <2>3, <2>4, <1>5
    <3>2. \A s \in CaptureSession :
              LastAsked(next.prompt[s], next.file, s, IF next.block = 0 THEN next.line - 1 ELSE next.line)
      BY <2>1, <2>4, <1>5, <1>8
    <3>3. next.upto > next.whole /\ next.line <= next.upto => <<next.file, next.upto>> \in halfRead'
      BY <2>1, <1>1, <1>5, <1>10
    <3>4. next.whole <= written'[next.file] /\ next.upto <= next.whole + 1 /\ next.line >= 1
      BY <2>1, <1>1, <1>5, <1>11
    <3>5. ~(next.block > 0)
      BY <2>1
    <3>6. QED
      BY <3>1, <3>2, <3>3, <3>4, <3>5 DEF LinesFit, LastAsked
  <2>6. RunnerFits(next)'
    BY <2>5, <1>5, OnLines
  <2>7. ASSUME NEW b \in BlockIds, AheadOf(next, b) PROVE AheadOf(x, b)
    <3>1. b[2] \in Nat /\ b[3] \in Nat /\ b[3] >= 1
      BY BlockIdNumbers
    <3>2. QED
      BY <3>1, <2>1, <2>7, <1>1, <1>5 DEF AheadOf
  <2>8. ~AheadOf(next, <<x.file, x.line, x.block>>)
    BY <2>1, <1>1, <1>5 DEF AheadOf
  <2>9. QED
    BY <1>5, <2>6, <2>7, <2>8
<1>13. CASE x.block # n
  <2>1. next.line = x.line /\ next.block = x.block + 1
    BY <1>5, <1>13
  <2>2. LinesFit(next)'
    <3>1. DoneTo(next.file, next.line - 1)'
      BY <2>1, <1>5, <1>9
    <3>2. \A s \in CaptureSession :
              LastAsked(next.prompt[s], next.file, s, IF next.block = 0 THEN next.line - 1 ELSE next.line)
      <4>1. (IF next.block = 0 THEN next.line - 1 ELSE next.line) = x.line
        BY <2>1, <1>1
      <4>2. QED
        BY <4>1, <1>5, <1>8
    <3>3. next.upto > next.whole /\ next.line <= next.upto => <<next.file, next.upto>> \in halfRead'
      BY <2>1, <1>1, <1>5, <1>10
    <3>4. next.whole <= written'[next.file] /\ next.upto <= next.whole + 1 /\ next.line >= 1
      BY <2>1, <1>1, <1>5, <1>11
    <3>5. next.line <= next.whole /\ next.block <= Len(Script[next.file][next.line].blocks)
      <4>1. Len(Script[next.file][next.line].blocks) = n
        BY <2>1, <1>4, <1>5
      <4>2. x.block <= n
        BY <1>2, <1>4
      <4>3. QED
        BY <4>1, <4>2, <2>1, <1>1, <1>2, <1>5, <1>13
    <3>6. RowOpen(Script[next.file][next.line].session)'
      <4>1. Script[x.file][x.line].session \in CaptureSession
        BY <1>1, <1>3, ScriptFacts
      <4>2. QED
        BY <4>1, <2>1, <1>2, <1>5
    <3>7. \A b \in 1 .. next.block - 1 : BlockDone(next.file, next.line, b)'
      <4>1. next.block - 1 = x.block
        BY <2>1, <1>1
      <4>2. QED
        BY <4>1, <2>1, <1>5, <1>7
    <3>8. QED
      BY <3>1, <3>2, <3>3, <3>4, <3>5, <3>6, <3>7 DEF LinesFit, LastAsked
  <2>3. RunnerFits(next)'
    BY <2>2, <1>5, OnLines
  <2>4. ASSUME NEW b \in BlockIds, AheadOf(next, b) PROVE AheadOf(x, b)
    <3>1. b[2] \in Nat /\ b[3] \in Nat /\ b[3] >= 1
      BY BlockIdNumbers
    <3>2. QED
      BY <3>1, <2>1, <2>4, <1>1, <1>5 DEF AheadOf
  <2>5. ~AheadOf(next, <<x.file, x.line, x.block>>)
    BY <2>1, <1>1, <1>5 DEF AheadOf
  <2>6. QED
    BY <1>5, <2>3, <2>4, <2>5
<1>14. QED
  BY <1>12, <1>13

LEMMA CopiesFinite ==
    ASSUME CaptureTypes
    PROVE  \A b : IsFiniteSet({x \in span : x.of = b}) /\ Copies(b) \in Nat
<1>1. \A b : IsFiniteSet({x \in span : x.of = b})
  <2>1. IsFiniteSet(span) /\ \A b : {x \in span : x.of = b} \subseteq span
    BY DEF CaptureTypes
  <2>2. QED
    BY <2>1, FS_Subset
<1>2. QED
  BY <1>1, FS_CardinalityType DEF Copies

\* The block a run is at.
LEMMA BlockFacts ==
    ASSUME CaptureInv, NEW r \in Runner, NEW x \in RunnerState, x = runner[r], x.at = "lines", x.block > 0
    PROVE  \E b \in BlockIds : \E s \in CaptureSession :
               /\ b = <<x.file, x.line, x.block>> /\ s = Script[x.file][x.line].session /\ RowOpen(s)
               /\ LastAsked(x.prompt[s], b[1], Script[b[1]][b[2]].session, b[2])
               /\ AheadOf(x, b)
<1>1. /\ CaptureTypes /\ LinesFit(x) /\ x.file \in Transcript /\ x.line \in Nat /\ x.block \in Nat
      /\ x.whole \in Nat
  BY LineFacts DEF CaptureInv
<1>2. x.line <= x.whole /\ x.block <= Len(Script[x.file][x.line].blocks)
      /\ RowOpen(Script[x.file][x.line].session)
  BY <1>1 DEF LinesFit
<1>3. x.line \in 1 .. Len(Script[x.file])
  BY <1>2, LineFacts
<1>4. x.block \in 1 .. Len(Script[x.file][x.line].blocks)
  BY <1>1, <1>2, <1>3, ScriptFacts
<1>5. PICK b \in BlockIds : b = <<x.file, x.line, x.block>>
  BY <1>1, <1>3, <1>4, BlockIdFacts
<1>6. PICK s \in CaptureSession : s = Script[x.file][x.line].session
  BY <1>1, <1>3, ScriptFacts
<1>7. b[1] = x.file /\ b[2] = x.line /\ b[3] = x.block
  BY <1>5
<1>8. LastAsked(x.prompt[s], x.file, s, x.line)
  BY <1>1, <1>2 DEF LinesFit
<1>9. AheadOf(x, b)
  BY <1>1, <1>7 DEF AheadOf
<1>10. QED
  BY <1>2, <1>5, <1>6, <1>7, <1>8, <1>9

\* A block that becomes a memory.
LEMMA RememberStep ==
    ASSUME CaptureInv, NEW r \in Runner, NEW x \in RunnerState, x = runner[r], x.at = "lines", x.block > 0,
           Script[x.file][x.line].blocks[x.block] \in Remembered,
           capturedMemory' = Told(<<x.file, x.line, x.block>>),
           sessionRow' = Sourced(Script[x.file][x.line].session, x.agent), Go(r, Past(r, x.block)),
           UNCHANGED <<written, half, offset, readable, span, runs, halfRead>>
    PROVE  CaptureInv'
<1>1. CaptureTypes
  BY DEF CaptureInv
<1>5. PICK b \in BlockIds : \E s \in CaptureSession :
          b = <<x.file, x.line, x.block>> /\ s = Script[x.file][x.line].session /\ RowOpen(s)
  BY BlockFacts
<1>8. PICK s \in CaptureSession : s = Script[x.file][x.line].session /\ RowOpen(s)
  BY <1>5
<1>6. /\ capturedMemory' \subseteq BlockIds /\ capturedMemory \subseteq capturedMemory'
      /\ \E c \in capturedMemory' : SameKey(b, c)
  <2>1. SameKey(b, b)
    BY DEF SameKey
  <2>2. capturedMemory \subseteq BlockIds
    BY <1>1 DEF CaptureTypes
  <2>3. QED
    BY <2>1, <2>2, <1>5 DEF Told
<1>7. BlockDone(x.file, x.line, x.block)'
  BY <1>5, <1>6 DEF BlockDone
<1>9. sessionRow' \in [CaptureSession -> CaptureRow] /\ \A c \in CaptureSession : RowOpen(c) => RowOpen(c)'
  <2>1. x.agent \in CaptureAgent \cup {Nobody}
    BY RunnerFacts
  <2>2. RowOpen(s) /\ sessionRow' = Sourced(s, x.agent)
    BY <1>8
  <2>3. QED
    BY <2>1, <2>2, <1>1, SourcedRow
<1>10. PICK next : next = Past(r, x.block)
  OBVIOUS
<1>11. /\ next \in RunnerState /\ RunnerFits(next)'
       /\ \A c \in BlockIds : AheadOf(next, c) => AheadOf(x, c)
  BY <1>6, <1>7, <1>9, <1>10, BlockPassed
<1>12. Go(r, next)
  BY <1>10
<1>13. QED
  BY <1>1, <1>6, <1>9, <1>11, <1>12, CaptureQuiet DEF CaptureTypes

\* One more copy of a block, made by a run that is past it now.
LEMMA CopyAdded ==
    ASSUME CaptureTypes, CopiesFit, NEW r \in Runner, NEW b \in BlockIds, NEW new, new.of = b,
           span' = span \cup {new}, runs' = runs, NEW next \in RunnerState, Go(r, next),
           \A c \in BlockIds : AheadOf(next, c) => AheadOf(runner[r], c),
           AheadOf(runner[r], b), ~AheadOf(next, b)
    PROVE  CopiesFit' /\ Copies(b) + 1 \in 1 .. MaxRuns /\ IsFiniteSet(span')
<1>1. runner' = [runner EXCEPT ![r] = next] /\ runner \in [Runner -> RunnerState]
  BY DEF Go, CaptureTypes
<1>2. \A c : IsFiniteSet({y \in span : y.of = c}) /\ Copies(c) \in Nat
  BY CopiesFinite
<1>3. ASSUME NEW c \in BlockIds
      PROVE  IsFiniteSet(Ahead(c)') /\ Cardinality(Ahead(c)') + Copies(c)' <= runs'
  <2>1. IsFiniteSet(Ahead(c)) /\ Cardinality(Ahead(c)) + Copies(c) <= runs /\ runs \in Nat
    BY CaptureFacts DEF CopiesFit
  <2>2. Ahead(c)' = {o \in Runner : AheadOf(runner'[o], c)}
    BY DEF Ahead, AheadOf
  <2>3. Ahead(c)' \subseteq Ahead(c)
    <3>1. \A o \in Runner : AheadOf(runner'[o], c) => AheadOf(runner[o], c)
      BY <1>1
    <3>2. QED
      BY <2>2, <3>1 DEF Ahead
  <2>4. IsFiniteSet(Ahead(c)') /\ Cardinality(Ahead(c)') <= Cardinality(Ahead(c))
    BY <2>1, <2>3, FS_Subset
  <2>5. Cardinality(Ahead(c)') \in Nat /\ Cardinality(Ahead(c)) \in Nat /\ Copies(c) \in Nat
    BY <2>1, <2>4, <1>2, FS_CardinalityType
  <2>6. CASE c # b
    <3>1. {y \in span' : y.of = c} = {y \in span : y.of = c}
      BY <2>6
    <3>2. Copies(c)' = Copies(c)
      BY <3>1 DEF Copies
    <3>3. QED
      BY <2>1, <2>4, <2>5, <3>2
  <2>7. CASE c = b
    <3>1. Copies(c)' \in Nat /\ Copies(c)' <= Copies(c) + 1
      <4> DEFINE old == {y \in span : y.of = c}
      <4>1. {y \in span' : y.of = c} = old \cup {new}
        BY <2>7
      <4>2. IsFiniteSet(old) /\ Cardinality(old) = Copies(c) /\ Copies(c) \in Nat
        BY <1>2 DEF Copies
      <4> HIDE DEF old
      <4>3. /\ IsFiniteSet(old \cup {new})
            /\ Cardinality(old \cup {new}) = Cardinality(old)
                 \/ Cardinality(old \cup {new}) = Cardinality(old) + 1
        BY <4>2, FS_AddElement
      <4>4. Copies(c)' = Cardinality(old \cup {new})
        BY <4>1 DEF Copies
      <4>5. QED
        BY <4>2, <4>3, <4>4
    <3>2. Cardinality(Ahead(c)') <= Cardinality(Ahead(c)) - 1
      <4>1. r \in Ahead(c) /\ r \notin Ahead(c)'
        BY <2>2, <2>7, <1>1 DEF Ahead
      <4>2. Ahead(c)' \subseteq Ahead(c) \ {r}
        BY <4>1, <2>3
      <4>3. IsFiniteSet(Ahead(c) \ {r}) /\ Cardinality(Ahead(c) \ {r}) = Cardinality(Ahead(c)) - 1
        BY <4>1, <2>1, FS_RemoveElement
      <4>4. Cardinality(Ahead(c)') <= Cardinality(Ahead(c) \ {r})
        BY <4>2, <4>3, FS_Subset
      <4>5. QED
        BY <4>3, <4>4
    <3>3. QED
      BY <2>1, <2>4, <2>5, <3>1, <3>2
  <2>8. QED
    BY <2>6, <2>7
<1>4. Copies(b) + 1 \in 1 .. MaxRuns
  <2>1. IsFiniteSet(Ahead(b)) /\ Cardinality(Ahead(b)) + Copies(b) <= runs /\ runs \in 0 .. MaxRuns
    BY DEF CopiesFit, CaptureTypes
  <2>2. Cardinality(Ahead(b)) \in Nat /\ Cardinality(Ahead(b)) # 0
    <3>1. Ahead(b) # {}
      BY DEF Ahead
    <3>2. QED
      BY <3>1, <2>1, FS_CardinalityType, FS_EmptySet
  <2>3. MaxRuns \in Nat /\ Copies(b) \in Nat
    BY <1>2, TranscriptAssumption
  <2>4. QED
    BY <2>1, <2>2, <2>3
<1>5. IsFiniteSet(span')
  <2>1. IsFiniteSet(span)
    BY DEF CaptureTypes
  <2>2. IsFiniteSet(span \cup {new})
    BY <2>1, FS_AddElement
  <2>3. QED
    BY <2>2
<1>6. CopiesFit'
  BY <1>3 DEF CopiesFit
<1>7. QED
  BY <1>4, <1>5, <1>6

LEMMA AtMostItself == \A n \in Nat : n <= n
OBVIOUS

\* A block that becomes a span.
LEMMA SpanStep ==
    ASSUME CaptureInv, NEW r \in Runner, NEW x \in RunnerState, x = runner[r], x.at = "lines", x.block > 0,
           Script[x.file][x.line].blocks[x.block] \notin Remembered,
           NEW b \in BlockIds, b = <<x.file, x.line, x.block>>, AheadOf(x, b),
           NEW new, new.of = b, new.copy = Copies(b) + 1, span' = span \cup {new},
           LastAsked(new.prompt, b[1], Script[b[1]][b[2]].session, b[2]),
           Go(r, Past(r, x.block)),
           UNCHANGED <<written, half, offset, readable, capturedMemory, sessionRow, runs, halfRead>>
    PROVE  CaptureInv'
<1>1. CaptureTypes /\ TranscriptsFit /\ SpansFit /\ CopiesFit
  BY DEF CaptureInv
<1>2. PICK next : next = Past(r, x.block)
  OBVIOUS
<1>3. BlockDone(x.file, x.line, x.block)'
  BY DEF BlockDone
<1>4. \A c \in CaptureSession : RowOpen(c) => RowOpen(c)'
  BY DEF RowOpen
<1>5. span \subseteq span'
  OBVIOUS
<1>6. /\ next \in RunnerState /\ RunnerFits(next)'
      /\ \A c \in BlockIds : AheadOf(next, c) => AheadOf(x, c)
      /\ ~AheadOf(next, <<x.file, x.line, x.block>>)
  <2>1. /\ UNCHANGED <<written, half>> /\ capturedMemory \subseteq capturedMemory'
        /\ halfRead \subseteq halfRead'
    OBVIOUS
  <2>2. QED
    BY <1>2, <1>3, <1>4, <1>5, <2>1, BlockPassed, ZenonT(60)
<1>7. (\A c \in BlockIds : AheadOf(next, c) => AheadOf(x, c)) /\ ~AheadOf(next, b)
  BY <1>6
<1>8. Go(r, next)
  BY <1>2
<1>9. CopiesFit' /\ Copies(b) + 1 \in 1 .. MaxRuns /\ IsFiniteSet(span')
  BY <1>1, <1>6, <1>7, <1>8, CopyAdded
<1>10. SpansFit'
  <2>1. ASSUME NEW y \in span'
        PROVE  /\ y.of \in BlockIds /\ y.copy \in 1 .. MaxRuns
               /\ LastAsked(y.prompt, y.of[1], Script[y.of[1]][y.of[2]].session, y.of[2])
    <3>1. CASE y \in span
      BY <1>1, <3>1 DEF SpansFit
    <3>2. CASE y = new
      BY <1>9, <3>2
    <3>3. QED
      BY <2>1, <3>1, <3>2
  <2>2. QED
    BY <2>1 DEF SpansFit, LastAsked, IsPrompt
<1>11. CaptureTypes'
  <2>1. runner' \in [Runner -> RunnerState]
    BY <1>1, <1>6, <1>8 DEF Go, CaptureTypes
  <2>2. QED
    BY <2>1, <1>1, <1>9 DEF CaptureTypes
<1>12. (\A t, n : DoneTo(t, n) => DoneTo(t, n)') /\ \A t \in Transcript : Lines(t)' = Lines(t)
  BY <1>5, DoneGrows DEF Lines
<1>13. CaptureGrows
  <2>0. \A t \in Transcript : written[t] \in Nat /\ Lines(t) \in Nat
    BY <1>1, CaptureFacts
  <2>1. ASSUME NEW t \in Transcript PROVE written[t] <= written'[t] /\ Lines(t) <= Lines(t)'
    <3>1. /\ written'[t] = written[t] /\ Lines(t)' = Lines(t)
          /\ written[t] \in Nat /\ Lines(t) \in Nat
      BY <1>12, <2>0
    <3>2. QED
      BY <3>1, AtMostItself
  <2>2. QED
    BY <2>1, <1>4, <1>5 DEF CaptureGrows
<1>14. TranscriptsFit'
  BY <1>1, <1>12 DEF TranscriptsFit
<1>15. QED
  BY <1>6, <1>8, <1>9, <1>10, <1>11, <1>13, <1>14, CaptureMoves

LEMMA IngestBlockStep ==
    ASSUME CaptureInv, NEW r \in Runner, IngestBlock(r) PROVE CaptureInv'
<1>1. CaptureTypes
  BY DEF CaptureInv
<1>2. PICK x \in RunnerState : x = runner[r]
  BY <1>1, CaptureFacts
<1>3. x.at = "lines" /\ x.block > 0
  BY <1>2 DEF IngestBlock, CaptureAt
<1>4. Current(r) = Script[x.file][x.line] /\ ReadBy(r) = x.file
  BY <1>2 DEF Current, ReadBy
<1> DEFINE b == <<x.file, x.line, x.block>>
<1>5. b[3] = x.block
  OBVIOUS
<1>6. UNCHANGED <<written, half, offset, readable, runs, halfRead>>
  BY DEF IngestBlock
<1>7. CASE Stop(r) /\ UNCHANGED kept
  BY <1>1, <1>6, <1>7, StopStep DEF kept, CaptureTypes, RowOpen
<1>8. CASE /\ Current(r).blocks[b[3]] \in Remembered
           /\ capturedMemory' = Told(b) /\ sessionRow' = Sourced(Current(r).session, runner[r].agent)
           /\ Go(r, Past(r, b[3])) /\ UNCHANGED span
  BY <1>2, <1>3, <1>4, <1>5, <1>6, <1>8, RememberStep
<1>9. CASE /\ Current(r).blocks[b[3]] \notin Remembered
           /\ span' = span \cup {[of |-> b, prompt |-> runner[r].prompt[Current(r).session],
                                  copy |-> Copies(b) + 1]}
           /\ Go(r, Past(r, b[3])) /\ UNCHANGED <<capturedMemory, sessionRow>>
  <2>1. PICK id \in BlockIds : \E s \in CaptureSession :
            /\ id = b /\ s = Script[x.file][x.line].session /\ AheadOf(x, id)
            /\ LastAsked(x.prompt[s], id[1], Script[id[1]][id[2]].session, id[2])
    BY <1>2, <1>3, BlockFacts
  <2>2. PICK new : new = [of |-> id, prompt |-> x.prompt[Script[x.file][x.line].session],
                          copy |-> Copies(id) + 1]
    OBVIOUS
  <2>3. new.of = id /\ new.copy = Copies(id) + 1
        /\ new.prompt = x.prompt[Script[x.file][x.line].session]
    BY <2>2
  <2>4. span' = span \cup {new} /\ Script[x.file][x.line].blocks[x.block] \notin Remembered
        /\ Go(r, Past(r, x.block))
    BY <2>1, <2>2, <1>2, <1>4, <1>5, <1>9
  <2>5. LastAsked(new.prompt, id[1], Script[id[1]][id[2]].session, id[2]) /\ AheadOf(x, id)
        /\ id = <<x.file, x.line, x.block>>
    BY <2>1, <2>3
  <2>6. UNCHANGED <<written, half, offset, readable, capturedMemory, sessionRow, runs, halfRead>>
    BY <1>6, <1>9
  <2>7. QED
    BY <2>3, <2>4, <2>5, <2>6, <1>2, <1>3, SpanStep
<1>10. QED
  BY <1>2, <1>4, <1>7, <1>8, <1>9 DEF IngestBlock

LEMMA TruncateStep ==
    ASSUME CaptureInv, NEW r \in Runner, Truncate(r) PROVE CaptureInv'
<1>1. PICK x \in RunnerState : x = runner[r]
  BY CaptureFacts DEF CaptureInv
<1>2. x.at = "lines" /\ x.line > x.upto /\ readable' = FALSE /\ CaptureTypes
  BY <1>1 DEF Truncate, CaptureAt, CaptureInv
<1>3. UNCHANGED <<written, half, offset, capturedMemory, span, sessionRow, runs, halfRead>>
  BY DEF Truncate, kept
<1>4. PICK next : next = [x EXCEPT !.at = "save"]
  OBVIOUS
<1>5. /\ next \in RunnerState /\ next.at = "save" /\ next.file = x.file /\ next.closes = x.closes
      /\ next.state = x.state /\ next.upto = x.upto
  BY <1>4 DEF RunnerState, CapturePlace
<1>6. Go(r, next)
  BY <1>1, <1>4 DEF Truncate
<1>7. /\ RunnerFits(x) /\ x.file \in Transcript /\ LinesFit(x) /\ x.line \in Nat /\ x.upto \in Nat
  BY <1>1, <1>2, LineFacts
<1>8. /\ \A t, n : DoneTo(t, n) => DoneTo(t, n)'
      /\ \A t \in Transcript : Lines(t)' = Lines(t)
      /\ \A s : RowOpen(s) => RowOpen(s)'
  BY <1>3, DoneGrows DEF Lines, RowOpen
<1>9. DoneTo(x.file, x.upto)'
  <2>1. DoneTo(x.file, x.line - 1) /\ \A i \in 1 .. x.upto : i \in 1 .. x.line - 1
    BY <1>2, <1>7 DEF LinesFit
  <2>2. DoneTo(x.file, x.upto)
    BY <2>1 DEF DoneTo
  <2>3. QED
    BY <2>2, <1>8
<1>10. RunnerFits(next)'
  BY <1>2, <1>5, <1>7, <1>8, <1>9 DEF RunnerFits
<1>11. \A b \in BlockIds : ~AheadOf(next, b)
  BY <1>5 DEF AheadOf
<1>12. QED
  BY <1>2, <1>3, <1>5, <1>6, <1>8, <1>10, <1>11, CaptureQuiet DEF CaptureTypes

LEMMA StageFits ==
    ASSUME NEW next \in RunnerState, next.at \in {"hermes", "append", "load", "artifact", "close"},
           next.file \in Transcript, next.closes, RowOpen(Of(next.file))'
    PROVE  RunnerFits(next)'
BY DEF RunnerFits

\* The next stage of a finalizer, with its session open.
LEMMA StageStep ==
    ASSUME CaptureInv, NEW r \in Runner, NEW x \in RunnerState, x = runner[r],
           x.file \in Transcript, x.closes,
           NEW next \in RunnerState, next.at \in {"hermes", "append", "load", "artifact", "close"},
           next.file = x.file, next.closes = x.closes, Go(r, next),
           x.at \in {"open", "hermes", "append", "load"} \/ next.at \in {"artifact", "close"},
           UNCHANGED <<written, half, offset, readable, capturedMemory, span, runs, halfRead>>,
           sessionRow' \in [CaptureSession -> CaptureRow],
           \A s \in CaptureSession : RowOpen(s) => RowOpen(s)', RowOpen(Of(x.file))'
    PROVE  CaptureInv'
<1>1. CaptureTypes
  BY DEF CaptureInv
<1>2. RunnerFits(next)'
  BY StageFits
<1>3. \A b \in BlockIds : AheadOf(next, b) => AheadOf(runner[r], b)
  BY DEF AheadOf
<1>4. QED
  BY <1>1, <1>2, <1>3, CaptureQuiet DEF CaptureTypes

LEMMA OpenCaptureSessionStep ==
    ASSUME CaptureInv, NEW r \in Runner, OpenCaptureSession(r) PROVE CaptureInv'
<1>1. CaptureTypes
  BY DEF CaptureInv
<1>2. PICK x \in RunnerState : x = runner[r]
  BY <1>1, CaptureFacts
<1>3. x.at = "open" /\ x.file \in Transcript /\ x.closes /\ x.agent \in CaptureAgent \cup {Nobody}
  BY <1>2, RunnerFacts DEF OpenCaptureSession, CaptureAt, CaptureInv, RunnerFits
<1>4. UNCHANGED <<written, half, offset, readable, capturedMemory, span, runs, halfRead>>
  BY DEF OpenCaptureSession
<1>5. CASE Stop(r) /\ UNCHANGED sessionRow
  BY <1>1, <1>4, <1>5, StopStep DEF CaptureTypes, RowOpen
<1>6. CASE sessionRow' = CaptureOpened(Of(x.file), x.agent) /\ Go(r, Stage(r, "hermes"))
  <2>1. PICK s \in CaptureSession : s = Of(x.file)
    BY <1>3, ScriptFacts
  <2>2. /\ sessionRow' \in [CaptureSession -> CaptureRow] /\ RowOpen(s)'
        /\ \A c \in CaptureSession : RowOpen(c) => RowOpen(c)'
    BY <2>1, <1>1, <1>3, <1>6, OpenedRow
  <2>3. PICK next : next = Stage(r, "hermes")
    OBVIOUS
  <2>4. next \in RunnerState /\ next.at = "hermes" /\ next.file = x.file /\ next.closes = x.closes
    BY <2>3, <1>1, <1>2, StageTyped DEF CapturePlace
  <2>5. Go(r, next) /\ RowOpen(Of(x.file))'
    BY <2>1, <2>2, <2>3, <1>6
  <2>6. QED
    BY <2>2, <2>4, <2>5, <1>2, <1>3, <1>4, StageStep
<1>7. QED
  BY <1>2, <1>5, <1>6 DEF OpenCaptureSession, ReadBy

LEMMA CopyToHermesStep ==
    ASSUME CaptureInv, NEW r \in Runner, CopyToHermes(r) PROVE CaptureInv'
<1>1. CaptureTypes
  BY DEF CaptureInv
<1>2. PICK x \in RunnerState : x = runner[r]
  BY <1>1, CaptureFacts
<1>3. x.at = "hermes" /\ x.file \in Transcript /\ x.closes /\ RowOpen(Of(x.file))
  BY <1>2 DEF CopyToHermes, CaptureAt, CaptureInv, RunnerFits
<1>4. UNCHANGED <<written, half, offset, readable, capturedMemory, span, sessionRow, runs, halfRead>>
  BY DEF CopyToHermes, kept
<1>5. PICK more : more = Messages(x.file) \ {hermes[x.file][i] : i \in DOMAIN hermes[x.file]}
  OBVIOUS
<1>6. more \in SUBSET Nat
  <2>1. Messages(x.file) \subseteq Nat
    BY DEF Messages
  <2>2. QED
    BY <2>1, <1>5
<1>7. PICK next : next = [Stage(r, "append") EXCEPT !.new = more]
  OBVIOUS
<1>8. next \in RunnerState /\ next.at = "append" /\ next.file = x.file /\ next.closes = x.closes
  <2>1. PICK y \in RunnerState : y = Stage(r, "append") /\ y.at = "append" /\ y.file = x.file
                                /\ y.closes = x.closes
    BY <1>1, <1>2, StageTyped DEF CapturePlace
  <2>2. QED
    BY <2>1, <1>6, <1>7 DEF RunnerState
<1>9. Go(r, next)
  BY <1>2, <1>5, <1>7 DEF CopyToHermes, ReadBy
<1>10. sessionRow' \in [CaptureSession -> CaptureRow] /\ RowOpen(Of(x.file))'
       /\ \A s \in CaptureSession : RowOpen(s) => RowOpen(s)'
  BY <1>1, <1>3, <1>4 DEF CaptureTypes, RowOpen
<1>11. QED
  BY <1>2, <1>3, <1>4, <1>8, <1>9, <1>10, StageStep

LEMMA AppendMessageStep ==
    ASSUME CaptureInv, NEW r \in Runner, AppendMessage(r) PROVE CaptureInv'
<1>1. CaptureTypes
  BY DEF CaptureInv
<1>2. PICK x \in RunnerState : x = runner[r]
  BY <1>1, CaptureFacts
<1>3. x.at = "append" /\ x.file \in Transcript /\ x.closes /\ RowOpen(Of(x.file)) /\ x.new \in SUBSET Nat
  BY <1>2, RunnerFacts DEF AppendMessage, CaptureAt, CaptureInv, RunnerFits
<1>4. UNCHANGED <<written, half, offset, readable, capturedMemory, span, sessionRow, runs, halfRead>>
  BY DEF AppendMessage, kept
<1>5. PICK next : /\ Go(r, next) /\ next \in RunnerState
                  /\ next.at \in {"append", "load", "artifact"} /\ next.file = x.file
                  /\ next.closes = x.closes
  <2>1. CASE \E i : Go(r, [runner[r] EXCEPT !.new = @ \ {i}])
    <3>1. PICK i : Go(r, [x EXCEPT !.new = @ \ {i}])
      BY <2>1, <1>2
    <3>2. PICK next : next = [x EXCEPT !.new = @ \ {i}]
      OBVIOUS
    <3>3. x.new \ {i} \in SUBSET Nat
      BY <1>3
    <3>4. next \in RunnerState /\ next.at = x.at /\ next.file = x.file /\ next.closes = x.closes
      BY <3>2, <3>3 DEF RunnerState
    <3>5. QED
      BY <3>1, <3>2, <3>4, <1>3
  <2>2. CASE \E place \in {"load", "artifact"} : Go(r, Stage(r, place))
    <3>1. PICK place \in {"load", "artifact"} : Go(r, Stage(r, place))
      BY <2>2
    <3>2. PICK next : next = Stage(r, place)
      OBVIOUS
    <3>3. next \in RunnerState /\ next.at = place /\ next.file = x.file /\ next.closes = x.closes
      BY <3>2, <1>1, <1>2, StageTyped DEF CapturePlace
    <3>4. QED
      BY <3>1, <3>2, <3>3
  <2>3. QED
    BY <2>1, <2>2 DEF AppendMessage
<1>6. sessionRow' \in [CaptureSession -> CaptureRow] /\ RowOpen(Of(x.file))'
      /\ \A s \in CaptureSession : RowOpen(s) => RowOpen(s)'
  BY <1>1, <1>3, <1>4 DEF CaptureTypes, RowOpen
<1>7. QED
  BY <1>2, <1>3, <1>4, <1>5, <1>6, StageStep

LEMMA StoreArtifactStep ==
    ASSUME CaptureInv, NEW r \in Runner, StoreArtifact(r) PROVE CaptureInv'
<1>1. CaptureTypes
  BY DEF CaptureInv
<1>2. PICK x \in RunnerState : x = runner[r]
  BY <1>1, CaptureFacts
<1>3. /\ x.at = "artifact" /\ x.file \in Transcript /\ x.closes /\ RowOpen(Of(x.file))
      /\ x.agent \in CaptureAgent \cup {Nobody}
  BY <1>2, RunnerFacts DEF StoreArtifact, CaptureAt, CaptureInv, RunnerFits
<1>4. UNCHANGED <<written, half, offset, readable, capturedMemory, span, runs, halfRead>>
  BY DEF StoreArtifact
<1>5. CASE Stop(r) /\ UNCHANGED sessionRow
  BY <1>1, <1>4, <1>5, StopStep DEF CaptureTypes, RowOpen
<1>6. CASE /\ sessionRow' = Sourced(Of(x.file), x.agent)
           /\ Go(r, [Stage(r, "close") EXCEPT !.digest = Digest(x.file)])
  <2>1. PICK s \in CaptureSession : s = Of(x.file)
    BY <1>3, ScriptFacts
  <2>2. /\ sessionRow' \in [CaptureSession -> CaptureRow]
        /\ \A c \in CaptureSession : RowOpen(c) => RowOpen(c)'
    BY <2>1, <1>1, <1>3, <1>6, SourcedRow
  <2>3. RowOpen(Of(x.file))'
    BY <2>1, <2>2, <1>3
  <2>4. PICK d \in DigestSet : d = Digest(x.file)
    BY <1>1, <1>3 DEF CaptureTypes, Digest, DigestSet
  <2>5. PICK next : next = [Stage(r, "close") EXCEPT !.digest = d]
    OBVIOUS
  <2>6. next \in RunnerState /\ next.at = "close" /\ next.file = x.file /\ next.closes = x.closes
    <3>1. PICK y \in RunnerState : y = Stage(r, "close") /\ y.at = "close" /\ y.file = x.file
                                  /\ y.closes = x.closes
      BY <1>1, <1>2, StageTyped DEF CapturePlace
    <3>2. QED
      BY <3>1, <2>5 DEF RunnerState
  <2>7. Go(r, next)
    BY <2>4, <2>5, <1>6
  <2>8. QED
    BY <2>2, <2>3, <2>6, <2>7, <1>2, <1>3, <1>4, StageStep
<1>7. QED
  BY <1>2, <1>5, <1>6 DEF StoreArtifact, ReadBy

LEMMA CloseSessionStep ==
    ASSUME CaptureInv, NEW r \in Runner, CloseSession(r) PROVE CaptureInv'
<1>1. CaptureTypes
  BY DEF CaptureInv
<1>2. PICK x \in RunnerState : x = runner[r]
  BY <1>1, CaptureFacts
<1>3. x.at = "close" /\ x.file \in Transcript /\ x.digest \in DigestSet
  BY <1>2, RunnerFacts DEF CloseSession, CaptureAt, CaptureInv, RunnerFits
<1>4. PICK s \in CaptureSession : s = Of(x.file)
  BY <1>3, ScriptFacts
<1>5. sessionRow \in [CaptureSession -> CaptureRow]
      /\ sessionRow' = [sessionRow EXCEPT ![s] = [sessionRow[s] EXCEPT !.ended = x.digest]]
  BY <1>1, <1>2, <1>4 DEF CloseSession, ReadBy, CaptureTypes
<1>6. /\ [sessionRow[s] EXCEPT !.ended = x.digest] \in CaptureRow
      /\ [sessionRow[s] EXCEPT !.ended = x.digest].owner = sessionRow[s].owner
  BY <1>3, <1>5 DEF CaptureRow
<1>7. sessionRow' \in [CaptureSession -> CaptureRow]
      /\ \A c \in CaptureSession : sessionRow'[c].owner = sessionRow[c].owner
  BY <1>5, <1>6
<1>8. QED
  BY <1>7, StopStep DEF CloseSession, RowOpen

\* A run begins: one more that may yet make a span of any block.
LEMMA StartPassStep ==
    ASSUME CaptureInv, NEW r \in Runner, NEW t \in Transcript, NEW a \in CaptureAgent \cup {Nobody},
           NEW closes \in BOOLEAN, StartPass(r, t, a, closes)
    PROVE  CaptureInv'
<1>1. CaptureTypes /\ TranscriptsFit /\ SpansFit /\ CopiesFit
  BY DEF CaptureInv
<1>2. /\ runs \in Nat /\ runs < MaxRuns /\ runs' = runs + 1 /\ MaxRuns \in Nat
      /\ UNCHANGED <<written, half, offset, readable, capturedMemory, span, sessionRow, halfRead>>
  BY <1>1, CaptureFacts DEF StartPass, kept
<1>3. PICK place \in {"open", "load"} : place = IF closes THEN "open" ELSE "load"
  OBVIOUS
<1>4. PICK next : next = [NotRunning EXCEPT !.at = place, !.file = t, !.agent = a, !.closes = closes]
  OBVIOUS
<1>5. next \in RunnerState /\ next.at = place /\ next.file = t /\ next.closes = closes
  <2>1. NotRunning \in RunnerState
    BY NotRunningTyped
  <2>2. [NotRunning EXCEPT !.at = place, !.file = t, !.agent = a, !.closes = closes] \in RunnerState
    BY <2>1 DEF RunnerState, CapturePlace
  <2>3. QED
    BY <2>1, <2>2, <1>4 DEF RunnerState
<1>6. Go(r, next)
  BY <1>3, <1>4 DEF StartPass
<1>7. RunnerFits(next)'
  BY <1>3, <1>5 DEF RunnerFits
<1>8. runner' = [runner EXCEPT ![r] = next] /\ runner \in [Runner -> RunnerState]
  BY <1>1, <1>6 DEF Go, CaptureTypes
<1>9. CaptureTypes'
  <2>1. runner' \in [Runner -> RunnerState] /\ runs' \in 0 .. MaxRuns
    BY <1>2, <1>5, <1>8
  <2>2. QED
    BY <2>1, <1>1, <1>2 DEF CaptureTypes
<1>10. (\A u, n : DoneTo(u, n) => DoneTo(u, n)') /\ \A u \in Transcript : Lines(u)' = Lines(u)
  BY <1>2, DoneGrows DEF Lines
<1>11. CaptureGrows
  <2>0. \A u \in Transcript : written[u] \in Nat /\ Lines(u) \in Nat
    BY <1>1, CaptureFacts
  <2>1. \A u \in Transcript : written[u] <= written'[u] /\ Lines(u) <= Lines(u)'
    BY <2>0, <1>1, <1>2, <1>10
  <2>2. QED
    BY <2>1, <1>2 DEF CaptureGrows, RowOpen
<1>12. ASSUME NEW b \in BlockIds
       PROVE  IsFiniteSet(Ahead(b)') /\ Cardinality(Ahead(b)') + Copies(b)' <= runs'
  <2>1. IsFiniteSet(Ahead(b)) /\ Cardinality(Ahead(b)) + Copies(b) <= runs /\ Copies(b) \in Nat
    BY <1>1, CopiesFinite DEF CopiesFit
  <2>2. Ahead(b)' \subseteq Ahead(b) \cup {r}
    <3>1. Ahead(b)' = {o \in Runner : AheadOf(runner'[o], b)}
      BY DEF Ahead, AheadOf
    <3>2. \A o \in Runner : AheadOf(runner'[o], b) => o = r \/ AheadOf(runner[o], b)
      BY <1>8
    <3>3. QED
      BY <3>1, <3>2 DEF Ahead
  <2>3. /\ IsFiniteSet(Ahead(b) \cup {r})
        /\ Cardinality(Ahead(b) \cup {r}) = Cardinality(Ahead(b))
             \/ Cardinality(Ahead(b) \cup {r}) = Cardinality(Ahead(b)) + 1
    BY <2>1, FS_AddElement
  <2>4. IsFiniteSet(Ahead(b)') /\ Cardinality(Ahead(b)') <= Cardinality(Ahead(b) \cup {r})
    BY <2>2, <2>3, FS_Subset
  <2>5. Cardinality(Ahead(b)') \in Nat /\ Cardinality(Ahead(b)) \in Nat
    BY <2>1, <2>4, FS_CardinalityType
  <2>6. Copies(b)' = Copies(b)
    BY <1>2 DEF Copies
  <2>7. QED
    BY <2>1, <2>3, <2>4, <2>5, <2>6, <1>2
<1>13. CopiesFit'
  BY <1>12 DEF CopiesFit
<1>14. TranscriptsFit'
  BY <1>1, <1>2, <1>10 DEF TranscriptsFit
<1>15. SpansFit'
  BY <1>1, <1>2 DEF SpansFit, LastAsked
<1>16. QED
  BY <1>5, <1>6, <1>7, <1>9, <1>11, <1>13, <1>14, <1>15, CaptureMoves

LEMMA SaveStateStep ==
    ASSUME CaptureInv, NEW r \in Runner, SaveState(r) PROVE CaptureInv'
<1>1. CaptureTypes /\ TranscriptsFit /\ SpansFit
  BY DEF CaptureInv
<1>2. PICK x \in RunnerState : x = runner[r]
  BY <1>1, CaptureFacts
<1>3. /\ x.at = "save" /\ RunnerFits(x) /\ x.file \in Transcript /\ x.upto \in Nat
      /\ x.state \in [Transcript -> Nat]
  BY <1>2, RunnerFacts DEF SaveState, CaptureAt, CaptureInv, RunnerFits
<1>4. /\ UNCHANGED <<written, half, capturedMemory, span, sessionRow, runs, halfRead>>
      /\ readable' = TRUE /\ offset' = [x.state EXCEPT ![x.file] = x.upto]
  BY <1>2 DEF SaveState, kept, ReadBy, Passed
<1>5. PICK next : next = IF x.closes THEN Stage(r, "artifact") ELSE NotRunning
  OBVIOUS
<1>6. Go(r, next)
  BY <1>2, <1>5 DEF SaveState
<1>7. next \in RunnerState /\ RunnerFits(next)' /\ \A b : ~AheadOf(next, b)
  <2>1. CASE x.closes
    <3>1. next \in RunnerState /\ next.at = "artifact" /\ next.file = x.file /\ next.closes
      BY <2>1, <1>1, <1>2, <1>5, StageTyped DEF CapturePlace
    <3>2. RowOpen(Of(next.file))'
      BY <2>1, <3>1, <1>3, <1>4 DEF RunnerFits, RowOpen
    <3>3. RunnerFits(next)'
      BY <3>1, <3>2, <1>3, StageFits
    <3>4. QED
      BY <3>1, <3>3 DEF AheadOf
  <2>2. CASE ~x.closes
    <3>1. next = NotRunning
      BY <2>2, <1>5
    <3>2. next \in RunnerState /\ next.at = "idle" /\ \A b : ~AheadOf(next, b)
      BY <3>1, NotRunningTyped
    <3>3. RunnerFits(next)'
      BY <3>2 DEF RunnerFits
    <3>4. QED
      BY <3>2, <3>3
  <2>3. QED
    BY <2>1, <2>2
<1>8. (\A t, n : DoneTo(t, n) => DoneTo(t, n)') /\ \A t \in Transcript : Lines(t)' = Lines(t)
  BY <1>4, DoneGrows DEF Lines
<1>9. CaptureTypes'
  <2>1. offset' \in [Transcript -> Nat]
    BY <1>3, <1>4
  <2>2. runner' \in [Runner -> RunnerState]
    BY <1>1, <1>6, <1>7 DEF Go, CaptureTypes
  <2>3. QED
    BY <2>1, <2>2, <1>1, <1>4 DEF CaptureTypes
<1>10. CaptureGrows
  <2>0. \A t \in Transcript : written[t] \in Nat /\ Lines(t) \in Nat
    BY <1>1, CaptureFacts
  <2>1. \A t \in Transcript : written[t] <= written'[t] /\ Lines(t) <= Lines(t)'
    BY <2>0, <1>1, <1>4, <1>8
  <2>2. QED
    BY <2>1, <1>4 DEF CaptureGrows, RowOpen
<1>11. TranscriptsFit'
  <2>1. ASSUME NEW t \in Transcript PROVE (offset[t] <= Lines(t) /\ DoneTo(t, offset[t]))'
    <3>1. PICK n : n = offset'[t]
      OBVIOUS
    <3>2. n <= Lines(t) /\ DoneTo(t, n)
      <4>1. CASE t = x.file
        BY <4>1, <3>1, <1>3, <1>4 DEF RunnerFits
      <4>2. CASE t # x.file
        BY <4>2, <3>1, <1>3, <1>4 DEF RunnerFits
      <4>3. QED
        BY <4>1, <4>2
    <3>3. n <= Lines(t)' /\ DoneTo(t, n)'
      BY <3>2, <1>8
    <3>4. QED
      BY <3>1, <3>3 DEF DoneTo
  <2>2. \A t \in Transcript : Lines(t)' <= Len(Script[t])
    BY <1>1, <1>8 DEF TranscriptsFit
  <2>3. QED
    BY <2>1, <2>2 DEF TranscriptsFit, DoneTo
<1>12. SpansFit'
  BY <1>1, <1>4 DEF SpansFit, LastAsked
<1>13. CopiesFit'
  BY <1>4, <1>6, <1>7, CopiesQuiet
<1>14. QED
  BY <1>6, <1>7, <1>9, <1>10, <1>11, <1>12, <1>13, CaptureMoves

LEMMA WriteTurnStep ==
    ASSUME CaptureInv, NEW t \in Transcript, NEW all \in BOOLEAN, WriteTurn(t, all) PROVE CaptureInv'
<1>1. CaptureTypes /\ TranscriptsFit /\ SpansFit /\ CopiesFit
  BY DEF CaptureInv
<1>2. /\ UNCHANGED <<offset, readable, capturedMemory, span, sessionRow, runner, runs, halfRead>>
      /\ written[t] < Len(Script[t]) /\ (all \/ ~half[t])
      /\ half' = [half EXCEPT ![t] = ~all]
      /\ written' = IF all THEN [written EXCEPT ![t] = @ + 1] ELSE written
  BY DEF WriteTurn, kept
<1>3. written \in [Transcript -> Nat] /\ half \in [Transcript -> BOOLEAN]
  BY <1>1 DEF CaptureTypes
<1>4. CaptureTypes'
  <2>1. written' \in [Transcript -> Nat] /\ half' \in [Transcript -> BOOLEAN]
    BY <1>2, <1>3
  <2>2. QED
    BY <2>1, <1>1, <1>2 DEF CaptureTypes
<1>5. ASSUME NEW u \in Transcript
      PROVE  /\ written[u] <= written'[u] /\ Lines(u) <= Lines(u)' /\ Lines(u)' <= Len(Script[u])
             /\ Lines(u) \in Nat /\ Lines(u)' \in Nat
  <2>1. /\ Lines(u) \in Nat /\ written[u] \in Nat /\ Lines(u) <= Len(Script[u])
        /\ Lines(u) = (IF half[u] THEN written[u] + 1 ELSE written[u])
    BY <1>1, <1>3, LinesFacts DEF TranscriptsFit
  <2>2. Lines(u)' = (IF half'[u] THEN written'[u] + 1 ELSE written'[u])
    BY <1>2, <1>3 DEF Lines
  <2>3. Len(Script[u]) \in Nat
    BY ScriptFacts
  <2>4. CASE u # t
    <3>1. half'[u] = half[u] /\ written'[u] = written[u]
      BY <2>4, <1>2, <1>3
    <3>2. QED
      BY <3>1, <2>1, <2>2
  <2>5. CASE u = t /\ all
    <3>1. half'[u] = FALSE /\ written'[u] = written[u] + 1 /\ written[u] < Len(Script[u])
      BY <2>5, <1>2, <1>3
    <3>2. QED
      BY <3>1, <2>1, <2>2, <2>3
  <2>6. CASE u = t /\ ~all
    <3>1. half'[u] = TRUE /\ half[u] = FALSE /\ written'[u] = written[u] /\ written[u] < Len(Script[u])
      BY <2>6, <1>2, <1>3
    <3>2. QED
      BY <3>1, <2>1, <2>2, <2>3
  <2>7. QED
    BY <2>4, <2>5, <2>6
<1>6. \A u, n : DoneTo(u, n) => DoneTo(u, n)'
  BY <1>2, DoneGrows
<1>7. CaptureGrows
  BY <1>2, <1>5 DEF CaptureGrows, RowOpen
<1>8. TranscriptsFit'
  <2>1. ASSUME NEW u \in Transcript PROVE (offset[u] <= Lines(u) /\ DoneTo(u, offset[u]))'
    <3>1. PICK n \in Nat : n = offset[u]
      BY <1>1, CaptureFacts
    <3>2. n <= Lines(u) /\ DoneTo(u, n)
      BY <3>1, <1>1 DEF TranscriptsFit
    <3>3. n <= Lines(u)' /\ DoneTo(u, n)'
      BY <3>2, <1>5, <1>6
    <3>4. QED
      BY <3>1, <3>3, <1>2 DEF DoneTo
  <2>2. QED
    BY <2>1, <1>5 DEF TranscriptsFit, DoneTo
<1>9. SpansFit'
  BY <1>1, <1>2 DEF SpansFit, LastAsked
<1>10. CopiesFit'
  BY <1>1, <1>2 DEF CopiesFit, Ahead, AheadOf, Copies
<1>11. ASSUME NEW o \in Runner PROVE RunnerFits(runner[o])'
  <2>1. PICK y \in RunnerState : y = runner[o]
    BY <1>1, CaptureFacts
  <2>2. RunnerFits(y)
    BY <2>1 DEF CaptureInv
  <2>3. RunnerFits(y)'
    BY <2>2, <1>1, <1>4, <1>7, FitsOn
  <2>4. QED
    BY <2>1, <2>3, <1>2 DEF RunnerFits, LinesFit, LastAsked
<1>12. QED
  BY <1>4, <1>8, <1>9, <1>10, <1>11 DEF CaptureInv

LEMMA InitCaptureInv == CaptureInit => CaptureInv
<1> SUFFICES ASSUME CaptureInit PROVE CaptureInv
  OBVIOUS
<1> USE DEF CaptureInit
<1>1. CaptureTypes
  <2>1. sessionRow \in [CaptureSession -> CaptureRow]
    BY DEF CaptureRow, DigestSet
  <2>2. runner \in [Runner -> RunnerState] /\ Unread \in [Transcript -> Nat]
    BY NotRunningTyped
  <2>3. IsFiniteSet(span)
    BY FS_EmptySet
  <2>4. runs \in 0 .. MaxRuns
    BY TranscriptAssumption
  <2>5. QED
    BY <2>1, <2>2, <2>3, <2>4 DEF CaptureTypes
<1>2. TranscriptsFit
  <2>1. \A t \in Transcript : Lines(t) = 0 /\ offset[t] = 0
    BY DEF Lines, Unread
  <2>2. QED
    BY <2>1, ScriptFacts DEF TranscriptsFit, DoneTo
<1>3. SpansFit
  BY DEF SpansFit
<1>4. CopiesFit
  <2>1. ASSUME NEW b \in BlockIds
        PROVE  IsFiniteSet(Ahead(b)) /\ Cardinality(Ahead(b)) + Copies(b) <= runs
    <3>1. Ahead(b) = {}
      BY NotRunningTyped DEF Ahead
    <3>2. {x \in span : x.of = b} = {}
      OBVIOUS
    <3>3. IsFiniteSet(Ahead(b)) /\ Cardinality(Ahead(b)) = 0 /\ Copies(b) = 0
      BY <3>1, <3>2, FS_EmptySet DEF Copies
    <3>4. QED
      BY <3>3
  <2>2. QED
    BY <2>1 DEF CopiesFit
<1>5. \A r \in Runner : RunnerFits(runner[r])
  BY NotRunningTyped DEF RunnerFits
<1>6. QED
  BY <1>1, <1>2, <1>3, <1>4, <1>5 DEF CaptureInv

LEMMA NextCaptureInv == CaptureInv /\ [CaptureNext]_captureVars => CaptureInv'
<1> SUFFICES ASSUME CaptureInv, [CaptureNext]_captureVars PROVE CaptureInv'
  OBVIOUS
<1>1. CASE \E t \in Transcript : WriteTurn(t, TRUE) \/ WriteTurn(t, FALSE)
  BY <1>1, WriteTurnStep
<1>2. ASSUME NEW r \in Runner,
             \/ \E t \in Transcript, a \in CaptureAgent \cup {Nobody}, c \in BOOLEAN : StartPass(r, t, a, c)
             \/ LoadState(r) \/ ReadTranscript(r) \/ NextLine(r)
             \/ IngestBlock(r) \/ Truncate(r) \/ SaveState(r)
             \/ OpenCaptureSession(r) \/ CopyToHermes(r) \/ AppendMessage(r)
             \/ StoreArtifact(r) \/ CloseSession(r) \/ Kill(r)
      PROVE  CaptureInv'
  BY <1>2, StartPassStep, LoadStateStep, ReadTranscriptStep, NextLineStep, IngestBlockStep, TruncateStep,
     SaveStateStep, OpenCaptureSessionStep, CopyToHermesStep, AppendMessageStep, StoreArtifactStep,
     CloseSessionStep, KillStep
<1>3. CASE UNCHANGED captureVars
  BY <1>3, CaptureStays DEF captureVars
<1>4. QED
  BY <1>1, <1>2, <1>3 DEF CaptureNext

LEMMA AlwaysCaptureInv == CaptureSpec => []CaptureInv
BY InitCaptureInv, NextCaptureInv, PTL DEF CaptureSpec

(***************************************************************************)
(* Offsets stay within their transcripts, blocks and prompts within their  *)
(* lines, and no run ingests a block twice: a block has at most as many    *)
(* spans as there were runs.                                               *)
(***************************************************************************)
THEOREM CaptureTypesHold == CaptureSpec => []CaptureTypeOK
<1>1. ASSUME CaptureInv PROVE CaptureTypeOK
  <2>1. CaptureTypes /\ TranscriptsFit /\ SpansFit
    BY <1>1 DEF CaptureInv
  <2>2. ASSUME NEW t \in Transcript PROVE written[t] \in 0 .. Len(Script[t]) /\ offset[t] \in 0 .. Lines(t)
    <3>1. /\ Lines(t) \in Nat /\ written[t] \in Nat /\ written[t] <= Lines(t) /\ offset[t] \in Nat
          /\ Lines(t) <= Len(Script[t]) /\ offset[t] <= Lines(t)
      <4>1. Lines(t) \in Nat /\ written[t] \in Nat /\ written[t] <= Lines(t)
        BY <2>1, LinesFacts DEF CaptureTypes
      <4>2. offset[t] \in Nat
        BY <2>1 DEF CaptureTypes
      <4>3. Lines(t) <= Len(Script[t]) /\ offset[t] <= Lines(t)
        BY <2>1 DEF TranscriptsFit
      <4>4. QED
        BY <4>1, <4>2, <4>3
    <3>2. QED
      BY <3>1, ScriptFacts
  <2>3. ASSUME NEW s \in span PROVE s.of \in BlockIds /\ s.prompt \in 0 .. s.of[2] /\ s.copy \in 1 .. MaxRuns
    BY <2>1 DEF SpansFit, LastAsked
  <2>4. ASSUME NEW s \in CaptureSession
        PROVE  /\ sessionRow[s].owner \in CaptureAgent \cup {Nobody, NoRow}
               /\ sessionRow[s].sources \subseteq CaptureAgent \cup {Nobody}
    BY <2>1 DEF CaptureTypes, CaptureRow
  <2>5. QED
    BY <2>1, <2>2, <2>3, <2>4 DEF CaptureTypeOK, CaptureTypes
<1>2. QED
  BY <1>1, AlwaysCaptureInv, PTL

(***************************************************************************)
(* Whatever runs overlap, are refused or killed, and wherever they stop:   *)
(* a line that the state file counts as passed is in the store, unless it  *)
(* was read half written, and every span names the prompt it answers.      *)
(***************************************************************************)
THEOREM CaptureAlwaysHolds == CaptureSpec => []CaptureHolds
<1>1. ASSUME CaptureInv PROVE CaptureHolds
  <2>1. TranscriptsFit /\ SpansFit
    BY <1>1 DEF CaptureInv
  <2>2. PassedIsCaptured
    BY <2>1, TranscriptAssumption DEF PassedIsCaptured, TranscriptsFit, DoneTo
  <2>3. SpansNameTheirPrompt
    <3>1. ASSUME NEW s \in span PROVE s.prompt = PromptOf(s.of[1], s.of[2])
      <4>1. s.of \in BlockIds /\ LastAsked(s.prompt, s.of[1], Script[s.of[1]][s.of[2]].session, s.of[2])
        BY <2>1 DEF SpansFit
      <4>2. s.of[1] \in Transcript /\ s.of[2] \in 1 .. Len(Script[s.of[1]])
        BY <4>1, BlockIdFacts
      <4>3. QED
        BY <4>1, <4>2, PromptOfIsLast
    <3>2. QED
      BY <3>1 DEF SpansNameTheirPrompt
  <2>4. QED
    BY <2>2, <2>3 DEF CaptureHolds
<1>2. QED
  BY <1>1, AlwaysCaptureInv, PTL
=============================================================================
