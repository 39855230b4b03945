--------------------------- MODULE DecisionTraces ---------------------------
(***************************************************************************)
(* The decision trace of one session and the retry queue of its Jev        *)
(* advisories: hermes_observer.py appends observed events to a             *)
(* parent-linked chain, decision_trace_worker.py later supplies the        *)
(* advisories that were unavailable at that moment.                        *)
(*                                                                         *)
(* Observers and workers are processes with a connection of their own.     *)
(* Outside a BEGIN every statement commits by itself, so the statements of *)
(* one store method are steps of their own here.  An envelope is its event *)
(* id and its parent; its hash is that pair and its time stamp.            *)
(***************************************************************************)
EXTENDS Integers, FiniteSets

CONSTANTS
    TraceEvent, NoTraceEvent,  \* event ids; NoTraceEvent is the zero hash a trace starts from
    Observer,                  \* observer processes
    TraceWorker,               \* advisory workers
    TraceLimit,                \* limit of the claim
    MaxTraceAttempts,          \* max_attempts of the worker
    MaxHooks,                  \* bound: hooks that observe something
    MaxTraceFaults             \* bound: crashes, leases outlasted, failed writes

ASSUME TraceAssumption ==
    /\ NoTraceEvent \notin TraceEvent
    /\ {TraceLimit, MaxTraceAttempts} \subseteq Nat \ {0}
    /\ {MaxHooks, MaxTraceFaults} \subseteq Nat
    /\ TraceWorker \cap {"none", "unavailable", "rejected", "available"} = {}

VARIABLES
    seq,            \* event -> sequence_number, -1 without a row
    parent,         \* event -> parent_event_hash
    advisory,       \* event -> status of advisory_json, or the worker that attached it
    hooks,          \* hooks that observed something so far
    obs,            \* observer -> its step, event, base (parent of the envelope),
                    \* verdict (status of its own analysis) and sequence number
    orphaned,       \* events whose observer crashed before queueing a retry
    traceStatus,    \* event -> status of its advisory task, or "none"
    traceAttempts,  \* event -> attempts of its advisory task
    traceOver,      \* claimed tasks with claim_until in the past
    traceBatch,     \* worker -> tasks it claimed and has not come to
    call,           \* worker -> its stage in finish, the task, what it hands in
                    \* ("available" or "none"), the attempts it has read, and whether
                    \* it is in the handler of a failed finish
    traceFaults

trace     == <<seq, parent>>
tasks     == <<traceStatus, traceAttempts, traceOver>>
traceVars == <<trace, advisory, hooks, obs, orphaned, tasks, traceBatch, call, traceFaults>>

Stored == {e \in TraceEvent : seq[e] >= 0}
Available(e) == advisory[e] \in TraceWorker \cup {"available"}

NoHook == [step |-> "idle", event |-> NoTraceEvent, base |-> NoTraceEvent, verdict |-> "none", next |-> 0]
NoCall == [stage |-> "idle", task |-> NoTraceEvent, result |-> "none", seen |-> 0, second |-> FALSE]

TraceInit ==
    /\ seq = [e \in TraceEvent |-> -1]
    /\ parent = [e \in TraceEvent |-> NoTraceEvent]
    /\ advisory = [e \in TraceEvent |-> "none"]
    /\ hooks = 0
    /\ obs = [o \in Observer |-> NoHook]
    /\ orphaned = {}
    /\ traceStatus = [e \in TraceEvent |-> "none"]
    /\ traceAttempts = [e \in TraceEvent |-> 0]
    /\ traceOver = {}
    /\ traceBatch = [w \in TraceWorker |-> {}]
    /\ call = [w \in TraceWorker |-> NoCall]
    /\ traceFaults = 0

TraceFault == traceFaults < MaxTraceFaults /\ traceFaults' = traceFaults + 1

-----------------------------------------------------------------------------
(* Appending to the trace. *)

\* The last row of the trace, NoTraceEvent for an empty one.
IsHead(h) ==
    \/ h = NoTraceEvent /\ Stored = {}
    \/ h \in Stored /\ \A e \in Stored : seq[e] <= seq[h]

AfterHead(h) == IF h = NoTraceEvent THEN 0 ELSE seq[h] + 1

\* A hook: the envelope links to the head of this moment, the analysis follows.
ReadHead(o, e) ==
    /\ obs[o].step = "idle" /\ hooks < MaxHooks
    /\ hooks' = hooks + 1
    /\ \E h \in TraceEvent \cup {NoTraceEvent}, v \in {"available", "unavailable", "rejected"} :
         /\ IsHead(h)
         /\ obs' = [obs EXCEPT ![o] =
              [step |-> "lookup", event |-> e, base |-> h, verdict |-> v, next |-> 0]]
    /\ UNCHANGED <<trace, advisory, orphaned, tasks, traceBatch, call, traceFaults>>

LeaveTrace(o) == obs' = [obs EXCEPT ![o] = NoHook]

\* The event is recorded: an unavailable analysis is queued for a retry.
Recorded(o) ==
    IF obs[o].verdict = "unavailable" THEN obs' = [obs EXCEPT ![o].step = "enqueue"] ELSE LeaveTrace(o)

\* A replay must have the same hash: the same parent and the same second.
Lookup(o) ==
    LET e == obs[o].event IN
    /\ obs[o].step = "lookup"
    /\ \/ e \notin Stored /\ obs' = [obs EXCEPT ![o].step = "last"]
       \/ e \in Stored /\ parent[e] = obs[o].base /\ Recorded(o)
       \/ e \in Stored /\ LeaveTrace(o)
    /\ UNCHANGED <<trace, advisory, hooks, orphaned, tasks, traceBatch, call, traceFaults>>

CheckParent(o) ==
    /\ obs[o].step = "last"
    /\ \E h \in TraceEvent \cup {NoTraceEvent} :
         /\ IsHead(h)
         /\ \/ h # obs[o].base /\ LeaveTrace(o)
            \/ h = obs[o].base /\ obs' = [obs EXCEPT ![o].step = "insert", ![o].next = AfterHead(h)]
    /\ UNCHANGED <<trace, advisory, hooks, orphaned, tasks, traceBatch, call, traceFaults>>

\* The keys of the table: event_id, and (trace_id, sequence_number).
Clashes(o) == obs[o].event \in Stored \/ \E e \in Stored : seq[e] = obs[o].next

\* IntegrityError leaves the hook; nothing is stored.
InsertTrace(o) ==
    LET e == obs[o].event IN
    /\ obs[o].step = "insert"
    /\ \/ Clashes(o) /\ LeaveTrace(o) /\ UNCHANGED <<trace, advisory>>
       \/ /\ ~Clashes(o)
          /\ seq' = [seq EXCEPT ![e] = obs[o].next]
          /\ parent' = [parent EXCEPT ![e] = obs[o].base]
          /\ advisory' = [advisory EXCEPT ![e] = obs[o].verdict]
          /\ Recorded(o)
    /\ UNCHANGED <<hooks, orphaned, tasks, traceBatch, call, traceFaults>>

\* INSERT OR IGNORE of the advisory task.
Enqueue(o) ==
    LET e == obs[o].event IN
    /\ obs[o].step = "enqueue"
    /\ traceStatus' = IF traceStatus[e] = "none" THEN [traceStatus EXCEPT ![e] = "pending"] ELSE traceStatus
    /\ LeaveTrace(o)
    /\ UNCHANGED <<trace, advisory, hooks, orphaned, traceAttempts, traceOver, traceBatch, call, traceFaults>>

Orphans(o) == IF obs[o].step = "enqueue" THEN {obs[o].event} ELSE {}

ObserverCrash(o) ==
    /\ obs[o].step # "idle" /\ TraceFault
    /\ orphaned' = orphaned \cup Orphans(o)
    /\ LeaveTrace(o)
    /\ UNCHANGED <<trace, advisory, hooks, tasks, traceBatch, call>>

-----------------------------------------------------------------------------
(* The advisory queue. *)

\* Mutant of Due: an expired claim is not taken over.
DuePending(e) == traceStatus[e] = "pending"
Due(e) == traceStatus[e] = "pending" \/ (traceStatus[e] = "claimed" /\ e \in traceOver)

\* A worker comes to the next task when it has none.
Idle(w) == call[w].stage = "idle"

ClaimTrace(w, S) ==
    /\ Idle(w) /\ traceBatch[w] = {}
    /\ S # {} /\ Cardinality(S) <= TraceLimit /\ \A e \in S : Due(e)
    /\ traceStatus' = [e \in TraceEvent |-> IF e \in S THEN "claimed" ELSE traceStatus[e]]
    /\ traceAttempts' = [e \in TraceEvent |-> IF e \in S THEN traceAttempts[e] + 1 ELSE traceAttempts[e]]
    /\ traceOver' = traceOver \ S
    /\ traceBatch' = [traceBatch EXCEPT ![w] = S]
    /\ UNCHANGED <<trace, advisory, hooks, obs, orphaned, call, traceFaults>>

\* The gateway turns every failure of the provider into an analysis.
Analyze(w, e) ==
    /\ Idle(w) /\ e \in traceBatch[w]
    /\ traceBatch' = [traceBatch EXCEPT ![w] = @ \ {e}]
    /\ \E r \in {"available", "none"} :
         call' = [call EXCEPT ![w] =
           [stage |-> "read", task |-> e, result |-> r, seen |-> 0, second |-> FALSE]]
    /\ UNCHANGED <<trace, advisory, hooks, obs, orphaned, tasks, traceFaults>>

\* finish raises: the handler calls it once more with the error, then gives up.
Raise(w) ==
    call' = [call EXCEPT ![w] =
        IF call[w].second THEN NoCall
        ELSE [stage |-> "read", task |-> call[w].task, result |-> "none", seen |-> 0, second |-> TRUE]]

\* finish_decision_trace_advisory, its SELECT: the claim must still stand.
FinishRead(w) ==
    LET e == call[w].task IN
    /\ call[w].stage = "read"
    /\ \/ traceStatus[e] # "claimed" /\ Raise(w)
       \/ /\ traceStatus[e] = "claimed"
          /\ call' = [call EXCEPT ![w].seen = traceAttempts[e],
               ![w].stage = IF call[w].result = "available" THEN "attach" ELSE "write"]
    /\ UNCHANGED <<trace, advisory, hooks, obs, orphaned, tasks, traceBatch, traceFaults>>

\* Mutant of OpenTrace: whatever is there is replaced.
OpenAlways(e) == TRUE
OpenTrace(e) == advisory[e] \in {"none", "unavailable", "rejected"}

Attach(w) ==
    LET e == call[w].task IN
    /\ call[w].stage = "attach"
    /\ advisory' = IF OpenTrace(e) THEN [advisory EXCEPT ![e] = w] ELSE advisory
    /\ call' = [call EXCEPT ![w].stage = "complete"]
    /\ UNCHANGED <<trace, hooks, obs, orphaned, tasks, traceBatch, traceFaults>>

Retry(n) == IF n >= MaxTraceAttempts THEN "failed" ELSE "pending"

\* The UPDATE of the task, guarded by nothing but the event hash.
FinishWrite(w) ==
    LET e == call[w].task
        to == IF call[w].stage = "complete" THEN "completed" ELSE Retry(call[w].seen) IN
    /\ call[w].stage \in {"complete", "write"}
    /\ traceStatus' = [traceStatus EXCEPT ![e] = to]
    /\ traceOver' = traceOver \ {e}
    /\ call' = [call EXCEPT ![w] = NoCall]
    /\ UNCHANGED <<trace, advisory, hooks, obs, orphaned, traceAttempts, traceBatch, traceFaults>>

\* A write of finish fails, with the one before it already committed.
WriteFails(w) ==
    /\ call[w].stage \in {"attach", "complete", "write"} /\ TraceFault
    /\ Raise(w)
    /\ UNCHANGED <<trace, advisory, hooks, obs, orphaned, tasks, traceBatch>>

TraceWorkerCrash(w) ==
    /\ ~Idle(w) \/ traceBatch[w] # {}
    /\ TraceFault
    /\ traceBatch' = [traceBatch EXCEPT ![w] = {}]
    /\ call' = [call EXCEPT ![w] = NoCall]
    /\ UNCHANGED <<trace, advisory, hooks, obs, orphaned, tasks>>

\* Time: claim_until passes while a worker still holds the task ...
TraceLeaseRunsOut(e) ==
    /\ traceStatus[e] = "claimed" /\ e \notin traceOver /\ TraceFault
    /\ traceOver' = traceOver \cup {e}
    /\ UNCHANGED <<trace, advisory, hooks, obs, orphaned, traceStatus, traceAttempts, traceBatch, call>>

Held(e) == \E w \in TraceWorker : e \in traceBatch[w] \/ (~Idle(w) /\ call[w].task = e)

\* ... or after everybody has left it.
LeaseLapses(e) ==
    /\ traceStatus[e] = "claimed" /\ e \notin traceOver /\ ~Held(e)
    /\ traceOver' = traceOver \cup {e}
    /\ UNCHANGED <<trace, advisory, hooks, obs, orphaned, traceStatus, traceAttempts, traceBatch, call, traceFaults>>

-----------------------------------------------------------------------------
Record(o) == Lookup(o) \/ CheckParent(o) \/ InsertTrace(o) \/ Enqueue(o)
Finish(w) == FinishRead(w) \/ Attach(w) \/ FinishWrite(w)
TraceWork(w) == \/ \E S \in SUBSET TraceEvent : ClaimTrace(w, S)
           \/ \E e \in TraceEvent : Analyze(w, e)
           \/ Finish(w)

TraceNext ==
    \/ \E o \in Observer : \/ \E e \in TraceEvent : ReadHead(o, e)
                           \/ Record(o)
                           \/ ObserverCrash(o)
    \/ \E w \in TraceWorker : TraceWork(w) \/ WriteFails(w) \/ TraceWorkerCrash(w)
    \/ \E e \in TraceEvent : TraceLeaseRunsOut(e) \/ LeaseLapses(e)

TraceSpec == TraceInit /\ [][TraceNext]_traceVars

\* A hook runs on unless its process dies; the inference loop calls the worker
\* again and again; an abandoned claim gets old.
TraceFairness ==
    /\ \A o \in Observer : WF_traceVars(Record(o))
    /\ \A w \in TraceWorker : WF_traceVars(TraceWork(w))
    /\ \A e \in TraceEvent : WF_traceVars(LeaseLapses(e))

FairTraceSpec == TraceSpec /\ TraceFairness

-----------------------------------------------------------------------------
Statuses == {"none", "pending", "claimed", "completed", "failed"}

\* The variables have their types; only recorded events are orphaned.
TraceTypeOK ==
    /\ seq \in [TraceEvent -> Nat \cup {-1}]
    /\ parent \in [TraceEvent -> TraceEvent \cup {NoTraceEvent}]
    /\ advisory \in [TraceEvent -> TraceWorker \cup {"none", "available", "unavailable", "rejected"}]
    /\ hooks \in 0 .. MaxHooks
    /\ obs \in [Observer -> [step : {"idle", "lookup", "last", "insert", "enqueue"},
                             event : TraceEvent \cup {NoTraceEvent}, base : TraceEvent \cup {NoTraceEvent},
                             verdict : {"none", "available", "unavailable", "rejected"},
                             next : Nat]]
    /\ orphaned \subseteq Stored
    /\ traceStatus \in [TraceEvent -> Statuses]
    /\ traceAttempts \in [TraceEvent -> Nat]
    /\ traceOver \subseteq TraceEvent
    /\ traceBatch \in [TraceWorker -> SUBSET TraceEvent]
    /\ call \in [TraceWorker -> [stage : {"idle", "read", "attach", "complete", "write"},
                            task : TraceEvent \cup {NoTraceEvent}, result : {"available", "none"},
                            seen : Nat, second : BOOLEAN]]
    /\ traceFaults \in 0 .. MaxTraceFaults

\* The trace of a session stays one chain whatever the processes that append
\* to it: every event but the first links to the event numbered just before
\* it, and no two events share a number, so no event has two successors.  The
\* head and the parent check are read in statements of their own before the
\* insert (record_decision_trace_event).
LinearChain ==
    /\ \A e \in Stored : \/ seq[e] = 0 /\ parent[e] = NoTraceEvent
                         \/ parent[e] \in Stored /\ seq[parent[e]] = seq[e] - 1
    /\ \A e, f \in Stored : seq[e] = seq[f] => e = f

\* A recorded event keeps its place and its parent, and an advisory that was
\* available is never replaced, by whatever late or repeated worker.
AvailableIsFinal ==
    [][\A e \in TraceEvent :
         /\ e \in Stored => seq'[e] = seq[e] /\ parent'[e] = parent[e]
         /\ Available(e) => advisory'[e] = advisory[e]]_traceVars

\* An event recorded without an advisory gets one or its retries are used up,
\* unless its observer died before it queued the retry.
UnavailableSettles ==
    \A e \in TraceEvent :
        advisory[e] = "unavailable" ~> Available(e) \/ traceStatus[e] = "failed" \/ e \in orphaned

(***************************************************************************)
(* A trace only ever grows at its end, and its advisories only fill in.    *)
(***************************************************************************)
TraceOnlyGrows == []LinearChain /\ AvailableIsFinal
=============================================================================
