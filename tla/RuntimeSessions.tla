--------------------------- MODULE RuntimeSessions ---------------------------
(***************************************************************************)
(* Whose a session is, and what its tool calls came to, when several       *)
(* server processes serve the hooks of one agent harness or more.          *)
(* A hook of the Claude adapter opens the session (start_session), may     *)
(* store a memory, and records an event, each in a transaction of its own; *)
(* the owner of a session and the agents of its sources are read before    *)
(* those transactions begin.  invocation_correlations shows the operator   *)
(* the latest events of all sessions, grouped by invocation.               *)
(***************************************************************************)
EXTENDS Naturals, Sequences, SequencesExt, FiniteSets

CONSTANTS
    Process,     \* server processes, each with a runtime controller
    Session,
    Agent,
    ToolCall,    \* tool calls the harness makes, each in one session
    InSession,   \* tool call -> session
    Window,      \* rows invocation_correlations reads: 4 * limit
    MaxHooks     \* bound: hooks delivered, restarts included

NoAgent == "none"
Absent == "absent"

ASSUME RuntimeAssumption ==
    /\ NoAgent \notin Agent /\ Absent \notin Agent
    /\ Window \in Nat \ {0} /\ MaxHooks \in Nat
    /\ InSession \in [ToolCall -> Session]

VARIABLES
    owner,      \* session -> agent_id of its row, NoAgent, or Absent
    sources,    \* session -> agent_ids of the memories stored in it
    events,     \* otel_events: [invocation, hook]
    binding,    \* process -> session -> agent the controller holds
    hook,       \* process -> the hook it serves
    asked,      \* tool call -> where the harness is with it
    hooks

runtimeVars == <<owner, sources, events, binding, hook, asked, hooks>>

Free == [at |-> "free"]

RuntimeInit ==
    /\ owner = [s \in Session |-> Absent]
    /\ sources = [s \in Session |-> {}]
    /\ events = <<>>
    /\ binding = [p \in Process |-> [s \in Session |-> NoAgent]]
    /\ hook = [p \in Process |-> Free]
    /\ asked = [c \in ToolCall |-> "new"]
    /\ hooks = 0

\* session_agent_ids: the owner, if any, and the agents of the sources.
Identities(s) == sources[s] \union ({owner[s]} \intersect Agent)

Goto(p, place) == hook' = [hook EXCEPT ![p].at = place]
Raise(p) == hook' = [hook EXCEPT ![p] = Free]

Deliver(p, h) ==
    /\ hook[p] = Free /\ hooks < MaxHooks
    /\ hook' = [hook EXCEPT ![p] = h]
    /\ hooks' = hooks + 1

-----------------------------------------------------------------------------
\* on_session_start; post_llm_call: open, store what was said, record.
OnSessionStart(p, s, a) ==
    /\ Deliver(p, [at |-> "opening", kind |-> "start", session |-> s, agent |-> a])
    /\ UNCHANGED <<owner, sources, events, binding, asked>>

PostLlmCall(p, s, a) ==
    /\ Deliver(p, [at |-> "opening", kind |-> "turn", session |-> s, agent |-> a])
    /\ UNCHANGED <<owner, sources, events, binding, asked>>

\* ingest_event opens the session for the agent the controller has bound.
Event(p, s, invocation, name) ==
    [at |-> "opening", kind |-> "event", session |-> s, agent |-> binding[p][s],
     invocation |-> invocation, name |-> name]

(***************************************************************************)
(* pre_tool_call: the id is derived from session and tool call, so another *)
(* process derives the same; without an intent the tool is not allowed.    *)
(***************************************************************************)
PreToolCall(p, c, intent) ==
    /\ asked[c] = "new"
    /\ Deliver(p, Event(p, InSession[c], c, "pre_tool_call"))
    /\ asked' = [asked EXCEPT ![c] = IF intent THEN "allowed" ELSE "blocked"]
    /\ UNCHANGED <<owner, sources, events, binding>>

\* The hooks around model calls and streams leave events of no invocation.
ObserverEvent(p, s) ==
    /\ Deliver(p, Event(p, s, NoAgent, "observer"))
    /\ UNCHANGED <<owner, sources, events, binding, asked>>

\* The harness waits for the answer of the first hook before it goes on.
PostToolCall(p, c) ==
    /\ asked[c] = "allowed"
    /\ \A q \in Process : hook[q] # Free /\ hook[q].kind = "event" => hook[q].invocation # c
    /\ Deliver(p, Event(p, InSession[c], c, "post_tool_call"))
    /\ asked' = [asked EXCEPT ![c] = "done"]
    /\ UNCHANGED <<owner, sources, events, binding>>

-----------------------------------------------------------------------------
\* open_session binds; a turn then stores, an event is recorded.
Opened(p) ==
    LET h == hook[p] IN
    /\ binding' = IF h.kind = "event" THEN binding
                  ELSE [binding EXCEPT ![p][h.session] = h.agent]
    /\ CASE h.kind = "start" -> Raise(p)
         [] h.kind = "turn"  -> Goto(p, "scoping")
         [] h.kind = "event" -> Goto(p, "recording")

\* Mutant of Evidenced: a session without sources can be claimed too.
EvidencedOrEmpty(s, a) == Identities(s) \subseteq {a}

\* An unowned session is claimed on the evidence of its sources only.
Evidenced(s, a) == Identities(s) = {a}

\* start_session, up to the write it decides on.
OpenSession(p) ==
    LET s == hook[p].session
        a == hook[p].agent
        named == a # NoAgent
    IN
    /\ hook[p] # Free /\ hook[p].at = "opening"
    /\ IF owner[s] = Absent
       THEN Goto(p, "inserting") /\ UNCHANGED binding
       ELSE IF named /\ Identities(s) \notin {{}, {a}}
       THEN Raise(p) /\ UNCHANGED binding
       ELSE IF named /\ owner[s] = NoAgent
       THEN /\ IF Evidenced(s, a) THEN Goto(p, "claiming") ELSE Raise(p)
            /\ UNCHANGED binding
       ELSE Opened(p)
    /\ UNCHANGED <<owner, sources, events, asked, hooks>>

\* INSERT INTO sessions; the id is unique, the second insert raises.
InsertSession(p) ==
    /\ hook[p] # Free /\ hook[p].at = "inserting"
    /\ IF owner[hook[p].session] = Absent
       THEN /\ owner' = [owner EXCEPT ![hook[p].session] = hook[p].agent]
            /\ Opened(p)
       ELSE Raise(p) /\ UNCHANGED <<owner, binding>>
    /\ UNCHANGED <<sources, events, asked, hooks>>

\* UPDATE sessions SET agent_id, whatever it is by now.
ClaimSession(p) ==
    /\ hook[p] # Free /\ hook[p].at = "claiming"
    /\ owner' = [owner EXCEPT ![hook[p].session] = hook[p].agent]
    /\ Opened(p)
    /\ UNCHANGED <<sources, events, asked, hooks>>

\* store_memory reads the owner of the session, before its transaction.
ScopeMemory(p) ==
    LET scope == owner[hook[p].session]
        a == hook[p].agent
    IN
    /\ hook[p] # Free /\ hook[p].at = "scoping"
    /\ IF scope \in Agent /\ a \notin {NoAgent, scope}
       THEN Raise(p)
       ELSE hook' = [hook EXCEPT ![p] = [@ EXCEPT !.at = "storing",
                                           !.agent = IF scope \in Agent THEN scope ELSE a]]
    /\ UNCHANGED <<owner, sources, events, binding, asked, hooks>>

StoreMemory(p) ==
    LET s == hook[p].session IN
    /\ hook[p] # Free /\ hook[p].at = "storing"
    /\ sources' = [sources EXCEPT ![s] = @ \union {hook[p].agent}]
    /\ hook' = [hook EXCEPT ![p] = Event(p, s, NoAgent, "post_llm_call")]
    /\ UNCHANGED <<owner, events, binding, asked, hooks>>

\* A client that never opens the session (memory_remember).
RememberIn(p, s, a) ==
    /\ Deliver(p, [at |-> "scoping", kind |-> "turn", session |-> s, agent |-> a])
    /\ UNCHANGED <<owner, sources, events, binding, asked>>

RecordEvent(p) ==
    /\ hook[p] # Free /\ hook[p].at = "recording"
    /\ events' = Append(events, [invocation |-> hook[p].invocation, hook |-> hook[p].name])
    /\ Raise(p)
    /\ UNCHANGED <<owner, sources, binding, asked, hooks>>

\* The bindings are in memory only.
Restart(p) ==
    /\ hooks < MaxHooks /\ hooks' = hooks + 1
    /\ binding' = [binding EXCEPT ![p] = [s \in Session |-> NoAgent]]
    /\ Raise(p)
    /\ UNCHANGED <<owner, sources, events, asked>>

RuntimeNext ==
    \E p \in Process :
        \/ \E s \in Session, a \in Agent \union {NoAgent} :
              OnSessionStart(p, s, a) \/ PostLlmCall(p, s, a) \/ RememberIn(p, s, a)
        \/ \E s \in Session : ObserverEvent(p, s)
        \/ \E c \in ToolCall, intent \in BOOLEAN : PreToolCall(p, c, intent)
        \/ \E c \in ToolCall : PostToolCall(p, c)
        \/ OpenSession(p) \/ InsertSession(p) \/ ClaimSession(p)
        \/ ScopeMemory(p) \/ StoreMemory(p) \/ RecordEvent(p)
        \/ Restart(p)

RuntimeSpec == RuntimeInit /\ [][RuntimeNext]_runtimeVars

-----------------------------------------------------------------------------
\* ORDER BY rowid DESC LIMIT.
Recent == SubSeq(events, Len(events) - Window + 1, Len(events))

Stages(rows, i) == {rows[k].hook : k \in {l \in DOMAIN rows : rows[l].invocation = i}}

\* runtime_status of an invocation the operator is shown.
RuntimeStatus(i) ==
    LET seen == Stages(IF Len(events) <= Window THEN events ELSE Recent, i) IN
    IF "pre_tool_call" \in seen
    THEN IF "post_tool_call" \in seen THEN "complete" ELSE "awaiting_outcome"
    ELSE IF seen # {} THEN "orphan_outcome" ELSE "not shown"

\* Types; what a process is about to write belongs to a hook it serves.
RuntimeTypeOK ==
    /\ owner \in [Session -> Agent \union {NoAgent, Absent}]
    /\ sources \in [Session -> SUBSET (Agent \union {NoAgent})]
    /\ binding \in [Process -> [Session -> Agent \union {NoAgent}]]
    /\ asked \in [ToolCall -> {"new", "allowed", "blocked", "done"}]
    /\ \A p \in Process : hook[p].at \in {"free", "opening", "inserting", "claiming",
                                          "scoping", "storing", "recording"}

(***************************************************************************)
(* A session, once an agent's, stays that agent's: processes that claim it *)
(* from what they read earlier never take it from one another, although    *)
(* the UPDATE does not ask for agent_id IS NULL (start_session).           *)
(***************************************************************************)
OwnerIsFinal ==
    [][\A s \in Session : owner[s] \in Agent => owner'[s] = owner[s]]_runtimeVars

(***************************************************************************)
(* An invocation shown as awaiting its outcome has none on disk, however   *)
(* many events of other sessions push rows out of the window               *)
(* (invocation_correlations).                                              *)
(***************************************************************************)
AwaitingIsTrue ==
    \A c \in ToolCall :
        RuntimeStatus(c) = "awaiting_outcome" => "post_tool_call" \notin Stages(events, c)

(***************************************************************************)
(* Hooks of several processes keep a session with its agent and an         *)
(* invocation with its outcome.                                            *)
(***************************************************************************)
SessionsHold == OwnerIsFinal /\ []AwaitingIsTrue
=============================================================================
