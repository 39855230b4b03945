---------------------------- MODULE KnowledgeGraph ----------------------------
(***************************************************************************)
(* The entity graph of store.py and the connectors that fill it: entities  *)
(* and relations private to an agent or shared by all, aliases, the two    *)
(* transactions of a connector, the sample graph and the session summary   *)
(* that retype entities, and the reads: neighbours, paths, the payload of  *)
(* the viewer and the graph of the inference engine.                       *)
(*                                                                         *)
(* A scope is the value of an agent_id column: <<>> is the shared scope,   *)
(* <<a>> the name of an agent, <<"pseudonym", a>> what identity_mode       *)
(* "pseudonymous" persists for it.                                         *)
(***************************************************************************)
EXTENDS Integers, Sequences, FiniteSets

CONSTANTS
    Reader,                               \* agents
    Name,                                 \* normalized names
    Predicate,
    Sampled,                              \* names the sample graph and the summaries retype
    Pseudonymous,                         \* identity_mode, the default, or "full"
    Ingester,                             \* processes that run a connector
    MaxEntity, MaxRelation, MaxEvidence,  \* bounds on the rows
    MaxGraphCalls                         \* bound: calls that write

ASSUME GraphAssumption ==
    /\ Pseudonymous \in BOOLEAN /\ Sampled \subseteq Name
    /\ MaxEntity \in Nat /\ MaxRelation \in Nat /\ MaxEvidence \in Nat /\ MaxGraphCalls \in Nat

VARIABLES
    entity,    \* rows of entities, in order of insertion
    alias,     \* rows of entity_aliases
    relation,  \* rows of relations
    evidence,  \* memories that relations name: the scope of the source of each
    ingest,    \* Ingester -> what it is doing
    graphCalls

graphVars == <<entity, alias, relation, evidence, ingest, graphCalls>>

Public == <<>>
Raw(a) == <<a>>
\* storage_agent_id
StoredTriple(a) == IF Pseudonymous THEN <<"pseudonym", a>> ELSE Raw(a)
Scope           == {Public} \cup {Raw(a) : a \in Reader} \cup {StoredTriple(a) : a \in Reader}
EntityKind      == {"unknown", "entity", "typed"}
AtEase          == [op |-> "none"]
Claims          == [subject : Name, predicate : Predicate, object : Name]

GraphInit ==
    /\ entity = <<>> /\ alias = {} /\ relation = <<>> /\ evidence = <<>>
    /\ ingest = [i \in Ingester |-> AtEase]
    /\ graphCalls = 0

WriteGraph == graphCalls < MaxGraphCalls /\ graphCalls' = graphCalls + 1
Now(i, next) == ingest' = [ingest EXCEPT ![i] = next]

-----------------------------------------------------------------------------
(* Rows                                                                    *)

\* _resolve_entity_alias_locked: any row of the alias, LIMIT 1 has no order.
Aliased(n) == {x.entity : x \in {y \in alias : y.name = n}}

\* Mutant of Usable: the alias decides, whoever's entity it is.
UsableAnywhere(es, e, scope) == TRUE
\* An alias leads to an entity of the scope or a shared one.
Usable(es, e, scope) == es[e].scope \in {scope, Public}

Exact(es, n, k, scope) ==
    {e \in DOMAIN es : es[e].name = n /\ es[e].kind = k /\ es[e].scope = scope}

\* _get_or_create_entity: the entity and the rows after it.
GetOrCreate(es, n, k, scope) ==
    LET known == {e \in Aliased(n) : Usable(es, e, scope)}
        exact == Exact(es, n, k, scope)
        own   == IF exact # {} THEN {[id |-> e, rows |-> es] : e \in exact}
                 ELSE {[id   |-> Len(es) + 1,
                        rows |-> Append(es, [name |-> n, kind |-> k, scope |-> scope])]}
    IN {[id |-> e, rows |-> es] : e \in known}
       \cup (IF Aliased(n) \subseteq known /\ known # {} THEN {} ELSE own)

\* The rows after a claim about two names.
Ends(c, k, scope) ==
    UNION {{[subject |-> s.id, object |-> o.id, rows |-> o.rows] :
              o \in GetOrCreate(s.rows, c.object, k, scope)} :
            s \in GetOrCreate(entity, c.subject, k, scope)}

Edge(x, p, m, scope) ==
    [subject |-> x.subject, predicate |-> p, object |-> x.object,
     evidence |-> m, scope |-> scope]

\* A connector does not repeat an edge that is there.
Repeated(x, p, scope) ==
    \E r \in DOMAIN relation :
        /\ relation[r].subject = x.subject /\ relation[r].predicate = p
        /\ relation[r].object = x.object /\ relation[r].scope = scope

Room(es, more) == Len(es) <= MaxEntity /\ Len(relation) + more <= MaxRelation

\* UPDATE OR IGNORE: of the rows of a name, in every scope, the first takes the
\* kind and the others of its scope would break the unique key.
Retyped(n) ==
    [e \in DOMAIN entity |->
        IF /\ entity[e].name = n
           /\ Exact(entity, n, "typed", entity[e].scope) = {}
           /\ \A f \in 1..(e - 1) : entity[f].name = n => entity[f].scope # entity[e].scope
        THEN [entity[e] EXCEPT !.kind = "typed"] ELSE entity[e]]

-----------------------------------------------------------------------------
(* Calls                                                                   *)

\* A memory of an agent, or of nobody: its source is what a claim is scoped by.
StoreEvidence(scope) ==
    /\ WriteGraph /\ Len(evidence) < MaxEvidence
    /\ evidence' = Append(evidence, scope)
    /\ UNCHANGED <<entity, alias, relation, ingest>>

Relate(c, m, scope) ==
    /\ WriteGraph
    /\ \E x \in Ends(c, "unknown", scope) :
         /\ Room(x.rows, 1)
         /\ entity' = x.rows
         /\ relation' = Append(relation, Edge(x, c.predicate, m, scope))
    /\ UNCHANGED <<alias, evidence, ingest>>

\* The scope comes from the memory unless the caller shares it.
LinkEntities(c, m, shared) == Relate(c, m, IF shared THEN Public ELSE evidence[m])
\* An accepted extract_relations proposal is never shared.
AcceptRelation(c, m) == Relate(c, m, evidence[m])

AcceptEntity(n, k, m) ==
    /\ WriteGraph
    /\ \E x \in GetOrCreate(entity, n, k, evidence[m]) :
         Len(x.rows) <= MaxEntity /\ entity' = x.rows
    /\ UNCHANGED <<alias, relation, evidence, ingest>>

\* add_entity_alias asks for no scope.
AddAlias(e, n) ==
    /\ WriteGraph /\ e \in DOMAIN entity
    /\ alias' = alias \cup {[entity |-> e, name |-> n]}
    /\ UNCHANGED <<entity, relation, evidence, ingest>>

-----------------------------------------------------------------------------
(* Connectors: the memory is one transaction, the graph the next.          *)

Ingest(i, op, a, c, shared) ==
    /\ ingest[i] = AtEase /\ WriteGraph
    /\ Len(evidence) < MaxEvidence
    /\ evidence' = Append(evidence, IF a = {} THEN Public ELSE StoredTriple(CHOOSE x \in a : TRUE))
    /\ Now(i, [op |-> op, claim |-> c, memory |-> Len(evidence) + 1,
               scope |-> IF shared \/ a = {} THEN Public ELSE Raw(CHOOSE x \in a : TRUE)])
    /\ UNCHANGED <<entity, alias, relation>>

IngestTriples(i, a, c, shared) == Ingest(i, "triples", {a}, c, shared)
IngestArticle(i, a, c, shared) == Ingest(i, "article", {a}, c, shared)
IngestBundle(i, a, c, shared)  == Ingest(i, "bundle", {a}, c, shared)
\* The sample is skipped when there are entities, and the lock given up in between.
SeedSample(i, c, force) ==
    /\ force \/ entity = <<>>
    /\ {c.subject, c.object} \cap Sampled # {}
    /\ Ingest(i, "sample", {}, c, TRUE)
\* summarize_session_with_inference_subagent ingests its triples the same way.
SummarizeSession(i, c) ==
    /\ {c.subject, c.object} \cap Sampled # {}
    /\ Ingest(i, "summary", {}, c, TRUE)

KindOf(op) == IF op \in {"article", "bundle"} THEN "typed" ELSE "entity"
\* An article registers the other names of its subject.
NewAliases(g, x) ==
    IF g.op = "article"
    THEN {[entity |-> x.subject, name |-> n] : n \in Name \ {g.claim.subject, g.claim.object}}
    ELSE {}

IngestCommit(i) ==
    LET g == ingest[i] IN
    /\ g.op \notin {"none", "retype"}
    /\ \E x \in Ends(g.claim, KindOf(g.op), g.scope) :
         /\ Room(x.rows, 1)
         /\ entity' = x.rows
         /\ relation' = IF Repeated(x, g.claim.predicate, g.scope) THEN relation
                        ELSE Append(relation, Edge(x, g.claim.predicate, g.memory, g.scope))
         /\ alias' = alias \cup NewAliases(g, x)
    /\ Now(i, IF g.op \in {"sample", "summary"}
              THEN [op |-> "retype", names |-> {g.claim.subject, g.claim.object} \cap Sampled,
                    summary |-> g.op = "summary"]
              ELSE AtEase)
    /\ UNCHANGED <<evidence, graphCalls>>

\* Every UPDATE commits by itself.
RetypeName(i, n) ==
    /\ ingest[i].op = "retype" /\ n \in ingest[i].names
    /\ entity' = Retyped(n)
    /\ Now(i, [ingest[i] EXCEPT !.names = @ \ {n}])
    /\ UNCHANGED <<alias, relation, evidence, graphCalls>>

\* A summary ends with a memory that names no agent.
RetypeDone(i) ==
    /\ ingest[i].op = "retype" /\ ingest[i].names = {}
    /\ ingest[i].summary => Len(evidence) < MaxEvidence
    /\ evidence' = IF ingest[i].summary THEN Append(evidence, Public) ELSE evidence
    /\ Now(i, AtEase)
    /\ UNCHANGED <<entity, alias, relation, graphCalls>>

\* The process dies, or the second transaction fails: the memory stays.
IngestDies(i) ==
    /\ ingest[i] # AtEase
    /\ Now(i, AtEase)
    /\ UNCHANGED <<entity, alias, relation, evidence, graphCalls>>

GraphNext ==
    \/ \E a \in Reader : StoreEvidence(StoredTriple(a))
    \/ StoreEvidence(Public)
    \/ \E c \in Claims, m \in DOMAIN evidence :
         \/ \E shared \in BOOLEAN : LinkEntities(c, m, shared)
         \/ AcceptRelation(c, m)
    \/ \E n \in Name, k \in EntityKind, m \in DOMAIN evidence : AcceptEntity(n, k, m)
    \/ \E e \in 1..MaxEntity, n \in Name : AddAlias(e, n)
    \/ \E i \in Ingester, c \in Claims :
         \/ \E a \in Reader, shared \in BOOLEAN :
              \/ IngestTriples(i, a, c, shared)
              \/ IngestArticle(i, a, c, shared)
              \/ IngestBundle(i, a, c, shared)
         \/ \E force \in BOOLEAN : SeedSample(i, c, force)
         \/ SummarizeSession(i, c)
    \/ \E i \in Ingester :
         \/ IngestCommit(i) \/ RetypeDone(i) \/ IngestDies(i)
         \/ \E n \in Sampled : RetypeName(i, n)

GraphSpec == GraphInit /\ [][GraphNext]_graphVars

-----------------------------------------------------------------------------
(* Reads                                                                   *)

\* r.agent_id IN (?, '')
Visible(a) == {r \in DOMAIN relation : relation[r].scope \in {StoredTriple(a), Public}}

\* _find_entity: an alias of the reader's, else the reader's own, else a shared one.
FindEntity(n, a) ==
    LET known  == {e \in Aliased(n) : Usable(entity, e, StoredTriple(a))}
        named(s) == {e \in DOMAIN entity : entity[e].name = n /\ entity[e].scope = s}
        direct == IF named(StoredTriple(a)) # {} THEN named(StoredTriple(a)) ELSE named(Public)
    IN known \cup (IF Aliased(n) \subseteq known /\ known # {} THEN {} ELSE direct)

Targets(from, edges) ==
    {relation[r].object : r \in {q \in edges : relation[q].subject \in from}}

\* Edges that neighbors reports: those that leave the first depth layers.
Neighbors(n, a, depth) ==
    LET layer[k \in 0..depth] == IF k = 0 THEN FindEntity(n, a)
                                 ELSE layer[k - 1] \cup Targets(layer[k - 1], Visible(a))
    IN {r \in Visible(a) : relation[r].subject \in layer[depth - 1]}

\* find_path: the goal is met within depth edges of the start.
FindPath(s, g, a, depth) ==
    LET layer[k \in 0..depth] == IF k = 0 THEN {s} ELSE Targets(layer[k - 1], Visible(a))
    IN s # g /\ \E k \in 1..depth : g \in layer[k]

\* build_networkx_graph: nodes are names, whoever's entity they are.
Arcs(a) == {<<entity[relation[r].subject].name, entity[relation[r].object].name>> : r \in Visible(a)}
\* trace_mechanisms: all_simple_paths with a cutoff, between two nodes of it.
Mechanism(n, o, a, depth) ==
    LET layer[k \in 0..depth] ==
            IF k = 0 THEN {n} ELSE {x[2] : x \in {y \in Arcs(a) : y[1] \in layer[k - 1]}}
    IN n # o /\ \E k \in 1..depth : o \in layer[k]

\* graph_payload of an agent: the relations its own memories are evidence of.
Payload(a) == {r \in DOMAIN relation : evidence[relation[r].evidence] = StoredTriple(a)}

-----------------------------------------------------------------------------
(* Properties                                                              *)

\* Rows have their columns and name rows that are there.
GraphTypeOK ==
    /\ entity \in Seq([name : Name, kind : EntityKind, scope : Scope]) /\ Len(entity) <= MaxEntity
    /\ alias \subseteq [entity : DOMAIN entity, name : Name]
    /\ \A r \in DOMAIN relation :
         /\ relation[r].subject \in DOMAIN entity /\ relation[r].object \in DOMAIN entity
         /\ relation[r].evidence \in DOMAIN evidence /\ relation[r].scope \in Scope
    /\ evidence \in Seq(Scope)
    /\ graphCalls \in 0..MaxGraphCalls

\* What an agent is shown, as neighbours or in the viewer, is its own or shared,
\* the nodes at both ends included, whatever aliases point across scopes.
NothingLeaks ==
    \A a \in Reader :
        \A r \in Payload(a) \cup UNION {Neighbors(n, a, 3) : n \in Name} :
            \A s \in {relation[r].scope, entity[relation[r].subject].scope,
                      entity[relation[r].object].scope} :
                s \in {Public, Raw(a), StoredTriple(a)}

Connected(path) ==
    \A j \in 1..(Len(path) - 1) : relation[path[j]].object = relation[path[j + 1]].subject
Joins(path, s, g) ==
    /\ relation[path[1]].subject = s /\ relation[path[Len(path)]].object = g
    /\ Connected(path)

\* Whenever edges that an agent may see lead from one entity to another within
\* the depth, find_path answers with a path, and trace_mechanisms, which works
\* on names, has one too.
PathsAgree ==
    \A a \in Reader : \A s, g \in DOMAIN entity :
        (/\ s # g
         /\ \E k \in 1..2 : \E path \in [1..k -> Visible(a)] : Joins(path, s, g))
        => /\ FindPath(s, g, a, 2)
           /\ entity[s].name # entity[g].name => Mechanism(entity[s].name, entity[g].name, a, 2)

(***************************************************************************)
(* An agent sees the graph it may see, and all the paths in it.            *)
(***************************************************************************)
GraphHolds == NothingLeaks /\ PathsAgree
=============================================================================
