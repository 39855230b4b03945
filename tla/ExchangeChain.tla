--------------------------- MODULE ExchangeChain ---------------------------
(***************************************************************************)
(* The exchange sequence of one session: record_exchange, get_exchange and *)
(* verify_exchange_chain of store.py, the derivation of exchange_builder   *)
(* and the telemetry they hash.                                            *)
(*                                                                         *)
(* A node hash stands for what it commits to: hashes are equal exactly     *)
(* when the messages and the events they were taken over are.  Memories    *)
(* are never deleted, so an exchange can only change in its events.  Links *)
(* by memory_id act like links by prompt_id and are not distinguished.     *)
(***************************************************************************)
EXTENDS Naturals, FiniteSets, Sequences, SequencesExt

CONSTANTS
    Turn,           \* prompt ids
    Event,          \* rows otel_events can get
    PromptOf,       \* event -> its prompt_id
    Own,            \* bound: turns that a runtime may record itself
    Loose,          \* bound: messages <<turn, role>> that arrive on their own
    Builder,        \* processes that derive exchanges: end_session, the MCP tool, HTTP
    MemoryLimit,    \* session_memories returns no more than these
    NoTurn,
    MaxChainFaults  \* bound: builders that crash or whose write fails

ASSUME ChainAssumption ==
    /\ PromptOf \in [Event -> Turn] /\ Own \subseteq Turn
    /\ Loose \subseteq Turn \X {"user", "assistant"}
    /\ NoTurn \notin Turn /\ "capture" \notin Builder /\ IsFiniteSet(Event)
    /\ {MemoryLimit, MaxChainFaults} \subseteq Nat

Message == [turn : Turn, role : {"user", "assistant"}]
Prompted(t) == [turn |-> t, role |-> "user"]
Assistant(t) == [turn |-> t, role |-> "assistant"]

VARIABLES
    memories,    \* messages of the session in the order they were stored
    arrived,     \* events recorded so far
    telemetry,   \* those that retention has not removed
    exchanges,   \* the sequence of exchanges
    buildStage,  \* builder -> how far it is
    read,        \* builder -> messages it has read
    saw,         \* builder -> events it has read
    toBuild,     \* builder -> groups it has not recorded yet
    chainFaults

chainSession == <<memories, arrived, telemetry, exchanges>>
builder      == <<buildStage, read, saw, toBuild>>
chainVars    == <<chainSession, builder, chainFaults>>

ChainInit ==
    /\ memories = <<>> /\ arrived = {} /\ telemetry = {} /\ exchanges = <<>>
    /\ buildStage = [b \in Builder |-> "idle"]
    /\ read = [b \in Builder |-> <<>>]
    /\ saw = [b \in Builder |-> {}]
    /\ toBuild = [b \in Builder |-> <<>>]
    /\ chainFaults = 0

Stored == ToSet(memories)

-----------------------------------------------------------------------------
(***************************************************************************)
(* A row of exchanges: the messages and events its node commits to, the    *)
(* events it is linked to, its prompt id, and of its writer (history) who  *)
(* it was and, of a builder, which events it knew.                         *)
(***************************************************************************)
Row(group, by, knew) ==
    [messages |-> group.messages, committed |-> group.tools, links |-> group.tools,
     prompt_id |-> group.prompt_id, by |-> by, knew |-> knew]

\* The Hermes hook looks a text up by its content before it stores it.
IfNew(m) == IF m \in Stored THEN <<>> ELSE <<m>>

\* A message reaches the session by any path; a message is a memory, stored once.
StoreMessage(m) ==
    /\ <<m.turn, m.role>> \in Loose /\ m \notin Stored
    /\ memories' = Append(memories, m)
    /\ UNCHANGED <<arrived, telemetry, exchanges, builder, chainFaults>>

\* record_otel_batch: the turn may have been recorded long ago.
RecordTelemetry(e) ==
    /\ e \notin arrived
    /\ arrived' = arrived \cup {e}
    /\ telemetry' = telemetry \cup {e}
    /\ UNCHANGED <<memories, exchanges, builder, chainFaults>>

Captured(t) == \E i \in DOMAIN exchanges :
                  exchanges[i].by = "capture" /\ exchanges[i].prompt_id = t

\* A runtime records the turn itself, once per idempotency key.
Capture(t, spans) ==
    /\ t \in Own /\ ~ Captured(t)
    /\ spans \subseteq {e \in Event : PromptOf[e] = t /\ e \notin arrived}
    /\ memories' = memories \o IfNew(Prompted(t)) \o IfNew(Assistant(t))
    /\ arrived' = arrived \cup spans
    /\ telemetry' = telemetry \cup spans
    /\ exchanges' = Append(exchanges,
           Row([messages |-> {Prompted(t), Assistant(t)}, tools |-> spans, prompt_id |-> t],
               "capture", {}))
    /\ UNCHANGED <<builder, chainFaults>>

\* A model exchange without events, an agent turn with the spans it brings.  Both
\* store the two texts anew: a second memory of a text is left out.
CaptureTurn(t, spans) ==
    /\ Prompted(t) \notin Stored /\ Assistant(t) \notin Stored
    /\ Capture(t, spans)

\* post_llm_call of the Hermes hook takes the memories of the texts if there are any.
CaptureHook(t) == Capture(t, {})

\* Retention deletes old events; ON DELETE CASCADE takes their links along.
Prune(old) ==
    /\ old # {}
    /\ telemetry' = telemetry \ old
    /\ exchanges' = [i \in DOMAIN exchanges |->
                        [exchanges[i] EXCEPT !.links = @ \ old]]
    /\ UNCHANGED <<memories, arrived, builder, chainFaults>>

-----------------------------------------------------------------------------
\* build_session_exchanges: nothing to do for a session that has an exchange.
FindNone(b) ==
    /\ buildStage[b] = "idle"
    /\ exchanges = <<>>
    /\ buildStage' = [buildStage EXCEPT ![b] = "found none"]
    /\ UNCHANGED <<chainSession, read, saw, toBuild, chainFaults>>

ReadMemories(b) ==
    /\ buildStage[b] = "found none"
    /\ read' = [read EXCEPT ![b] = SubSeq(memories, 1, Min({Len(memories), MemoryLimit}))]
    /\ buildStage' = [buildStage EXCEPT ![b] = "read memories"]
    /\ UNCHANGED <<chainSession, saw, toBuild, chainFaults>>

\* A user message opens a group; any other joins the one that is open, or
\* opens the first.
Opens(messages) == {i \in DOMAIN messages : i = 1 \/ messages[i].role = "user"}
GroupOf(messages, i) == Cardinality({j \in Opens(messages) : j <= i})
InGroup(messages, n) == {messages[i] : i \in {j \in DOMAIN messages : GroupOf(messages, j) = n}}

ByPrompt(messages, events) ==
    [n \in 1 .. Cardinality(Opens(messages)) |->
        LET own   == InGroup(messages, n)
            users == {m \in own : m.role = "user"}
        IN  [messages  |-> own,
             tools     |-> {e \in events : \E m \in own : PromptOf[e] = m.turn},
             prompt_id |-> IF users = {} THEN NoTurn ELSE (CHOOSE m \in users : TRUE).turn]]

\* Events of prompts that no group was opened for; their order is abstracted.
Orphans(messages, events) ==
    LET turns == {PromptOf[e] : e \in events} \ {m.turn : m \in {x \in ToSet(messages) : x.role = "user"}}
        group(t) == [messages |-> {}, tools |-> {e \in events : PromptOf[e] = t}, prompt_id |-> t]
    IN [i \in 1 .. Cardinality(turns) |-> group(SetToSeq(turns)[i])]

\* Mutant of Groups: the last flush is missing.
GroupsUnflushed(messages, events) ==
    LET g == ByPrompt(messages, events)
    IN SubSeq(g, 1, Len(g) - 1) \o Orphans(messages, events)
Groups(messages, events) == ByPrompt(messages, events) \o Orphans(messages, events)

ReadEvents(b) ==
    /\ buildStage[b] = "read memories"
    /\ saw' = [saw EXCEPT ![b] = telemetry]
    /\ toBuild' = [toBuild EXCEPT ![b] = Groups(read[b], telemetry)]
    /\ buildStage' = [buildStage EXCEPT ![b] =
                    IF read[b] = <<>> /\ telemetry = {} THEN "idle" ELSE "recording"]
    /\ UNCHANGED <<chainSession, read, chainFaults>>

\* Mutant of Recordable: events the builder has read are not looked up again.
RecordableUnread(group) == TRUE
Recordable(group) == group.tools \subseteq telemetry

\* record_exchange appends in a transaction of its own.
Record(b) ==
    /\ buildStage[b] = "recording" /\ toBuild[b] # <<>>
    /\ Recordable(Head(toBuild[b]))
    /\ exchanges' = Append(exchanges, Row(Head(toBuild[b]), b, saw[b]))
    /\ toBuild' = [toBuild EXCEPT ![b] = Tail(@)]
    /\ UNCHANGED <<memories, arrived, telemetry, buildStage, read, saw, chainFaults>>

Built(b) ==
    /\ buildStage[b] = "recording" /\ toBuild[b] = <<>>
    /\ buildStage' = [buildStage EXCEPT ![b] = "built"]
    /\ UNCHANGED <<chainSession, read, saw, toBuild, chainFaults>>

\* The build ends, by return or exception; what it has recorded stays.
Leave(b) ==
    /\ buildStage' = [buildStage EXCEPT ![b] = "idle"]
    /\ read' = [read EXCEPT ![b] = <<>>]
    /\ saw' = [saw EXCEPT ![b] = {}]
    /\ toBuild' = [toBuild EXCEPT ![b] = <<>>]
    /\ UNCHANGED chainSession

ReturnBuild(b) == buildStage[b] = "built" /\ Leave(b) /\ UNCHANGED chainFaults

\* An event of the group was removed since it was read.
RecordFails(b) ==
    /\ buildStage[b] = "recording" /\ toBuild[b] # <<>>
    /\ ~ Recordable(Head(toBuild[b]))
    /\ Leave(b)
    /\ UNCHANGED chainFaults

BuildStops(b) ==
    /\ buildStage[b] \notin {"idle", "built"}
    /\ chainFaults < MaxChainFaults /\ chainFaults' = chainFaults + 1
    /\ Leave(b)

ChainNext ==
    \/ \E m \in Message : StoreMessage(m)
    \/ \E e \in Event : RecordTelemetry(e)
    \/ \E t \in Turn, spans \in SUBSET Event : CaptureTurn(t, spans)
    \/ \E t \in Turn : CaptureHook(t)
    \/ \E old \in SUBSET telemetry : Prune(old)
    \/ \E b \in Builder : \/ FindNone(b) \/ ReadMemories(b) \/ ReadEvents(b) \/ Record(b)
                          \/ Built(b) \/ ReturnBuild(b) \/ RecordFails(b) \/ BuildStops(b)

ChainSpec == ChainInit /\ [][ChainNext]_chainVars

-----------------------------------------------------------------------------
\* get_exchange: without links, the events that carry its prompt id by now.
ToolCalls(x) ==
    IF x.links # {} THEN x.links ELSE {e \in telemetry : PromptOf[e] = x.prompt_id}

\* verify_exchange_chain recomputes the node over what get_exchange returns.
SessionVerifies(x) == ToolCalls(x) = x.committed

Chain == ToSet(exchanges)

ChainTypeOK ==
    /\ memories \in Seq(Message) /\ IsInjective(memories)
    /\ telemetry \subseteq arrived /\ arrived \subseteq Event
    /\ \A x \in Chain :
          /\ x.messages \subseteq Stored
          /\ x.links \subseteq x.committed \cap telemetry /\ x.committed \subseteq arrived
          /\ x.prompt_id \in Turn \cup {NoTurn} /\ x.by \in Builder \cup {"capture"}
    /\ buildStage \in [Builder -> {"idle", "found none", "read memories", "recording", "built"}]
    /\ \A b \in Builder : saw[b] \subseteq arrived /\ (toBuild[b] # <<>> => buildStage[b] = "recording")
    /\ chainFaults \in 0 .. MaxChainFaults

(***************************************************************************)
(* A build that ends has put every message it read into exactly one of its *)
(* exchanges, and every event it read into at least one, while others      *)
(* captured, recorded, pruned and built around it.                         *)
(***************************************************************************)
WholeBuild ==
    \A b \in Builder : buildStage[b] = "built" =>
        LET mine == {i \in DOMAIN exchanges : exchanges[i].by = b} IN
        /\ \A m \in ToSet(read[b]) :
              Cardinality({i \in mine : m \in exchanges[i].messages}) = 1
        /\ saw[b] \subseteq UNION {exchanges[i].committed : i \in mine}

(***************************************************************************)
(* A derived exchange verifies until telemetry of it moves: one of the     *)
(* events it commits to is removed, or, if it commits to none, one arrives *)
(* that its builder had not read.                                          *)
(***************************************************************************)
VerifiesUntilTelemetryMoves ==
    \A x \in Chain : x.by \in Builder /\ ~ SessionVerifies(x) =>
        \/ ~ x.committed \subseteq telemetry
        \/ \E e \in telemetry \ x.knew : PromptOf[e] = x.prompt_id

(***************************************************************************)
(* server.py:954: verification proves the sequence "hasn't been reordered, *)
(* forged, or dropped since it was built".  No action here does any of     *)
(* these, and with no event removed the chain ought to verify.             *)
(***************************************************************************)
UntamperedVerifies == telemetry = arrived => \A x \in Chain : SessionVerifies(x)

(***************************************************************************)
(* What a build derives is whole, and verifies for as long as it can.      *)
(***************************************************************************)
ExchangesHold == WholeBuild /\ VerifiesUntilTelemetryMoves
=============================================================================
