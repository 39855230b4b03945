---------------------------- MODULE DecisionProofs ----------------------------
(*************************************************************************)
(* Proofs about Proposals and DecisionTraces: for any number of          *)
(* proposals, operators, observers and advisories each decision is made  *)
(* once and for good, and a trace only grows.                            *)
(*************************************************************************)
EXTENDS MCDecisions, FiniteSetTheorems, SequenceTheorems, TLAPS

-----------------------------------------------------------------------------
(* Proposals *)

\* What is in a decider's hand was proposed, and may be decided that way.
HandsDecidable ==
    \A d \in Decider : hand[d] # NoProposal =>
        /\ standing[hand[d]] # "absent"
        /\ hand[d] \in Extraction => choice[d] # "keep_original"

\* A decider that wrote a record has let go of a proposal that is decided now.
WritersDone ==
    \A p \in Extraction : \A d \in Decider :
        /\ records[p][d] <= 1
        /\ records[p][d] > 0 => hand[d] # p /\ standing[p] \notin Undecided

\* An entity has one writer; a diverged proposal has none and is not applied.
EntityWriter ==
    \A p \in Extraction : Kind[p] = "entity" =>
        \A d, e \in Decider : records[p][d] > 0 /\ records[p][e] > 0 => d = e

DivergedUntouched ==
    \A p \in Diverged :
        /\ standing[p] \in Undecided \cup {"stale"}
        /\ p \in Extraction => \A d \in Decider : records[p][d] = 0

ProposalsInv ==
    ProposalsTypeOK /\ HandsDecidable /\ WritersDone /\ EntityWriter /\ DivergedUntouched

LEMMA InitProposalsInv == ProposalsInit => ProposalsInv
  BY ProposalAssumption
     DEF ProposalsInit, ProposalsInv, ProposalsTypeOK, HandsDecidable, WritersDone, EntityWriter,
         DivergedUntouched, Undecided, Decider, Proposal

\* A step that writes no record and moves at most one proposal, to a status
\* that fits it, out of the hand of a decider or into one as it was decidable.
LEMMA NextProposalsInv == ProposalsInv /\ [ProposalsNext]_proposalVars => ProposalsInv'
<1> SUFFICES ASSUME ProposalsInv, [ProposalsNext]_proposalVars PROVE ProposalsInv'
  OBVIOUS
<1> USE ProposalAssumption DEF ProposalsInv, Proposal, Decider, Undecided
<1>1. ASSUME NEW p \in Proposal, Propose(p) PROVE ProposalsInv'
  BY <1>1 DEF Propose, ProposalsTypeOK, HandsDecidable, WritersDone, EntityWriter, DivergedUntouched
<1>2. ASSUME NEW p \in Proposal, PolicyNext(p) PROVE ProposalsInv'
  BY <1>2 DEF PolicyNext, Decidable, ProposalsTypeOK, HandsDecidable, WritersDone, EntityWriter,
              DivergedUntouched
<1>3. ASSUME NEW o \in Operator, NEW p \in Proposal, NEW c \in {"accept", "dismiss", "keep_original"},
             c \in Decisions(p), PickUp(o, p, c)
      PROVE  ProposalsInv'
  BY <1>3 DEF PickUp, Decidable, Decisions, ProposalsTypeOK, HandsDecidable, WritersDone, EntityWriter,
              DivergedUntouched
<1>4. CASE PolicySelect
  BY <1>4 DEF PolicySelect, ProposalsTypeOK, HandsDecidable, WritersDone, EntityWriter,
              DivergedUntouched
<1>5. ASSUME NEW d \in Decider, MarkStale(d) PROVE ProposalsInv'
  BY <1>5 DEF MarkStale, HandDone, Fits, ProposalsTypeOK, HandsDecidable, WritersDone, EntityWriter,
              DivergedUntouched
<1>6. ASSUME NEW d \in Decider, Annotate(d) PROVE ProposalsInv'
  BY <1>6 DEF Annotate, HandDone, Fits, StatusOf, ProposalsTypeOK, HandsDecidable, WritersDone,
              EntityWriter, DivergedUntouched
<1>7. ASSUME NEW d \in Decider, Accept(d) PROVE ProposalsInv'
  BY <1>7 DEF Accept, HandDone, Fits, Written, ProposalsTypeOK, HandsDecidable, WritersDone,
              EntityWriter, DivergedUntouched
<1>8. ASSUME NEW d \in Decider, DecisionFails(d) PROVE ProposalsInv'
  BY <1>8 DEF DecisionFails, HandDone, ProposalsTypeOK, HandsDecidable, WritersDone, EntityWriter,
              DivergedUntouched
<1>9. CASE UNCHANGED proposalVars
  BY <1>9 DEF proposalVars, ProposalsTypeOK, HandsDecidable, WritersDone, EntityWriter,
              DivergedUntouched
<1>10. QED
  BY <1>1, <1>2, <1>3, <1>4, <1>5, <1>6, <1>7, <1>8, <1>9 DEF ProposalsNext, Decide

LEMMA AlwaysProposalsInv == ProposalsSpec => []ProposalsInv
  BY InitProposalsInv, NextProposalsInv, PTL DEF ProposalsSpec

(***************************************************************************)
(* Rows have the statuses of their table, and the policy only ever accepts *)
(* (decide_extraction_proposal, accept_para_classification).               *)
(***************************************************************************)
THEOREM ProposalsTyped == ProposalsSpec => []ProposalsTypeOK
  BY AlwaysProposalsInv, PTL DEF ProposalsInv

(***************************************************************************)
(* However many operators race the policy, nobody writes the record of a   *)
(* proposal twice, an entity has one writer, and diverged evidence leaves  *)
(* nothing in the graph.                                                   *)
(***************************************************************************)
THEOREM DecidersAlwaysAgree == ProposalsSpec => []DecidersAgree
<1>1. ProposalsInv => DecidersAgree
  <2> SUFFICES ASSUME ProposalsInv PROVE DecidersAgree
    OBVIOUS
  <2>1. ASSUME NEW p \in Extraction, Kind[p] = "entity" PROVE Total(p) <= 1
    <3> DEFINE W == {d \in Decider : records[p][d] > 0}
    <3>1. CASE W = {}
      BY <3>1, FS_EmptySet DEF Total
    <3>2. CASE W # {}
      <4>1. PICK d \in Decider : W = {d}
        BY <2>1, <3>2 DEF ProposalsInv, EntityWriter
      <4>2. QED
        BY <4>1, FS_Singleton DEF Total
    <3>3. QED
      BY <3>1, <3>2
  <2>2. ASSUME NEW p \in Diverged, p \in Extraction PROVE Total(p) = 0
    <3>1. {d \in Decider : records[p][d] > 0} = {}
      BY <2>2 DEF ProposalsInv, DivergedUntouched
    <3>2. QED
      BY <3>1, FS_EmptySet DEF Total
  <2>3. QED
    BY <2>1, <2>2
       DEF ProposalsInv, WritersDone, DivergedUntouched, DecidersAgree, OneRecordPerDecider,
           DivergedNeverApplied
<1>2. QED
  BY AlwaysProposalsInv, <1>1, PTL

(***************************************************************************)
(* A decided extraction proposal that nobody has in hand never changes,    *)
(* and nobody takes it up again.                                           *)
(***************************************************************************)
THEOREM DecisionsAreFinal == ProposalsSpec => DecidedIsFinal
<1>1. ASSUME ProposalsTypeOK, [ProposalsNext]_proposalVars, NEW p \in Extraction,
             standing[p] \notin Undecided, \A d \in Decider : hand[d] # p
      PROVE  /\ standing'[p] = standing[p] /\ records'[p] = records[p]
             /\ \A d \in Decider : hand'[d] # p
  <2> USE ProposalAssumption DEF ProposalsTypeOK, Undecided, Decider, Proposal
  <2>1. ASSUME NEW d \in Decider, Decide(d) \/ DecisionFails(d)
        PROVE  /\ standing'[p] = standing[p] /\ records'[p] = records[p]
               /\ hand' = [hand EXCEPT ![d] = NoProposal]
    BY <1>1, <2>1 DEF Decide, MarkStale, Annotate, Accept, DecisionFails, HandDone
  <2>2. ASSUME NEW q \in Proposal, Propose(q) \/ PolicyNext(q) \/ PolicySelect
        PROVE  /\ standing'[p] = standing[p] /\ records'[p] = records[p]
               /\ \A d \in Decider : hand'[d] # p
    BY <1>1, <2>2 DEF Propose, PolicyNext, PolicySelect, Decidable
  <2>3. ASSUME NEW o \in Operator, NEW q \in Proposal, NEW c \in {"accept", "dismiss", "keep_original"},
               PickUp(o, q, c)
        PROVE  /\ standing'[p] = standing[p] /\ records'[p] = records[p]
               /\ \A d \in Decider : hand'[d] # p
    BY <1>1, <2>3 DEF PickUp, Decidable
  <2>4. QED
    BY <1>1, <2>1, <2>2, <2>3 DEF ProposalsNext, proposalVars
<1>2. ProposalsTypeOK /\ [ProposalsNext]_proposalVars
        => [\A p \in Extraction :
              standing[p] \notin Undecided /\ (\A d \in Decider : hand[d] # p)
                => /\ standing'[p] = standing[p] /\ records'[p] = records[p]
                   /\ \A d \in Decider : hand'[d] # p]_proposalVars
  BY <1>1
<1>3. QED
  BY <1>2, ProposalsTyped, PTL DEF ProposalsSpec, DecidedIsFinal

-----------------------------------------------------------------------------
(* DecisionTraces *)

\* The number an observer inserts under is the one after its event's parent.
InsertReady ==
    \A o \in Observer : obs[o].step = "insert" =>
        IF obs[o].base = NoTraceEvent THEN obs[o].next = 0
        ELSE obs[o].base \in Stored /\ obs[o].next = seq[obs[o].base] + 1

\* Observers are at an event, and queue retries of recorded ones only.
ObserversAt ==
    \A o \in Observer :
        /\ obs[o].step # "idle" => obs[o].event \in TraceEvent
        /\ obs[o].step = "enqueue" => obs[o].event \in Stored

\* Advisories, tasks and what workers hold are of recorded events.
TasksOfStored ==
    /\ \A e \in TraceEvent : advisory[e] # "none" \/ traceStatus[e] # "none" => e \in Stored
    /\ \A w \in TraceWorker : /\ traceBatch[w] \subseteq Stored
                              /\ call[w].stage # "idle" => call[w].task \in Stored

TraceInv == TraceTypeOK /\ InsertReady /\ ObserversAt /\ TasksOfStored /\ LinearChain

LEMMA InitTraceInv == TraceInit => TraceInv
  BY TraceAssumption
     DEF TraceInit, TraceInv, TraceTypeOK, InsertReady, ObserversAt, TasksOfStored, LinearChain,
         Stored, NoHook, NoCall, Statuses

\* Steps that leave the trace alone keep what is said of it.
LEMMA TraceKept ==
    ASSUME TraceInv, UNCHANGED trace, TraceTypeOK', InsertReady', ObserversAt', TasksOfStored'
    PROVE  TraceInv'
  BY DEF TraceInv, LinearChain, Stored, trace

HookState == [step : {"idle", "lookup", "last", "insert", "enqueue"},
              event : TraceEvent \cup {NoTraceEvent}, base : TraceEvent \cup {NoTraceEvent},
              verdict : {"none", "available", "unavailable", "rejected"}, next : Nat]

CallState == [stage : {"idle", "read", "attach", "complete", "write"},
              task : TraceEvent \cup {NoTraceEvent}, result : {"available", "none"},
              seen : Nat, second : BOOLEAN]

\* A step that only moves an observer on, to a state it may be in.
LEMMA HookStep ==
    ASSUME TraceInv, NEW o \in Observer, NEW r \in HookState,
           obs' = [obs EXCEPT ![o] = r],
           r.step # "idle" => r.event \in TraceEvent,
           r.step = "enqueue" => r.event \in Stored,
           r.step = "insert" => IF r.base = NoTraceEvent THEN r.next = 0
                                ELSE r.base \in Stored /\ r.next = seq[r.base] + 1,
           UNCHANGED <<trace, advisory, hooks, orphaned, tasks, traceBatch, call, traceFaults>>
    PROVE  TraceInv'
  BY TraceKept
     DEF HookState, TraceInv, TraceTypeOK, InsertReady, ObserversAt, TasksOfStored, trace, tasks, Stored

\* A step that only moves a worker on, with a recorded event in hand.
LEMMA CallStep ==
    ASSUME TraceInv, NEW w \in TraceWorker, NEW c \in CallState,
           call' = [call EXCEPT ![w] = c],
           c.stage # "idle" => c.task \in Stored,
           UNCHANGED <<trace, advisory, hooks, obs, orphaned, tasks, traceBatch>>,
           traceFaults' \in 0 .. MaxTraceFaults
    PROVE  TraceInv'
  BY TraceKept
     DEF CallState, TraceInv, TraceTypeOK, InsertReady, ObserversAt, TasksOfStored, trace, tasks, Stored

LEMMA NextTraceInv == TraceInv /\ [TraceNext]_traceVars => TraceInv'
<1> SUFFICES ASSUME TraceInv, [TraceNext]_traceVars PROVE TraceInv'
  OBVIOUS
<1> USE TraceAssumption DEF Stored
<1>1. ASSUME NEW o \in Observer, NEW e \in TraceEvent, ReadHead(o, e) PROVE TraceInv'
  BY <1>1, TraceKept
     DEF ReadHead, TraceInv, TraceTypeOK, InsertReady, ObserversAt, TasksOfStored, trace, tasks
<1>2. ASSUME NEW o \in Observer, Lookup(o) PROVE TraceInv'
  <2> DEFINE r(g) == [obs[o] EXCEPT !.step = g]
  <2>1. /\ obs[o] \in HookState /\ obs[o].event \in TraceEvent
        /\ UNCHANGED <<trace, advisory, hooks, orphaned, tasks, traceBatch, call, traceFaults>>
    BY <1>2 DEF Lookup, HookState, TraceInv, TraceTypeOK, ObserversAt
  <2>2. NoHook \in HookState /\ NoHook.step = "idle"
    BY 0 \in Nat DEF NoHook, HookState
  <2>3. \A g \in {"last", "enqueue"} :
           r(g) \in HookState /\ r(g).step = g /\ r(g).event = obs[o].event
    BY <2>1 DEF HookState
  <2>4. \/ obs' = [obs EXCEPT ![o] = NoHook]
        \/ obs' = [obs EXCEPT ![o] = r("last")]
        \/ obs' = [obs EXCEPT ![o] = r("enqueue")] /\ obs[o].event \in Stored
    BY <1>2, <2>1 DEF Lookup, LeaveTrace, Recorded
  <2> HIDE DEF r, NoHook, Stored
  <2>5. QED
    BY <2>1, <2>2, <2>3, <2>4, HookStep
<1>3. ASSUME NEW o \in Observer, CheckParent(o) PROVE TraceInv'
  <2>1. UNCHANGED <<trace, advisory, hooks, orphaned, tasks, traceBatch, call, traceFaults>>
    BY <1>3 DEF CheckParent
  <2>2. CASE LeaveTrace(o)
    <3>1. NoHook \in HookState /\ NoHook.step = "idle" /\ obs' = [obs EXCEPT ![o] = NoHook]
      BY <2>2, 0 \in Nat DEF LeaveTrace, NoHook, HookState
    <3>2. QED
      <4> HIDE DEF Stored, NoHook
      <4> QED BY <2>1, <3>1, HookStep
  <2>3. ASSUME NEW h \in TraceEvent \cup {NoTraceEvent}, IsHead(h), h = obs[o].base,
               obs' = [obs EXCEPT ![o].step = "insert", ![o].next = AfterHead(h)]
        PROVE  TraceInv'
    <3> DEFINE r == [obs[o] EXCEPT !.step = "insert", !.next = AfterHead(h)]
    <3>1. AfterHead(h) \in Nat
      BY <2>3 DEF IsHead, AfterHead, TraceInv, TraceTypeOK
    <3>2. obs[o] \in HookState /\ obs[o].step = "last" /\ obs[o].event \in TraceEvent
      BY <1>3 DEF CheckParent, HookState, TraceInv, TraceTypeOK, ObserversAt
    <3>3. r \in HookState /\ obs' = [obs EXCEPT ![o] = r]
      BY <2>3, <3>1, <3>2 DEF HookState
    <3>4. r.step = "insert" /\ r.event = obs[o].event /\ r.base = h /\ r.next = AfterHead(h)
      BY <2>3, <3>2 DEF HookState
    <3>5. IF h = NoTraceEvent THEN AfterHead(h) = 0 ELSE h \in Stored /\ AfterHead(h) = seq[h] + 1
      BY <2>3 DEF IsHead, AfterHead
    <3>6. QED
      <4> HIDE DEF Stored, r
      <4>1. r.step = "insert" => IF r.base = NoTraceEvent THEN r.next = 0
                                 ELSE r.base \in Stored /\ r.next = seq[r.base] + 1
        BY <3>4, <3>5
      <4>2. /\ r.step # "idle" => r.event \in TraceEvent
            /\ r.step = "enqueue" => r.event \in Stored
        BY <3>2, <3>4
      <4>3. QED
        BY <2>1, <2>3, <3>3, <4>1, <4>2, HookStep
  <2>4. QED
    BY <1>3, <2>2, <2>3 DEF CheckParent
<1>4. ASSUME NEW o \in Observer, InsertTrace(o) PROVE TraceInv'
  <2>1. CASE LeaveTrace(o) /\ UNCHANGED <<trace, advisory>>
    BY <1>4, <2>1, TraceKept
       DEF InsertTrace, LeaveTrace, NoHook, TraceInv, TraceTypeOK, InsertReady, ObserversAt,
           TasksOfStored, trace, tasks
  <2>2. ASSUME ~Clashes(o), Recorded(o),
               seq' = [seq EXCEPT ![obs[o].event] = obs[o].next],
               parent' = [parent EXCEPT ![obs[o].event] = obs[o].base],
               advisory' = [advisory EXCEPT ![obs[o].event] = obs[o].verdict]
        PROVE  TraceInv'
    <3> DEFINE n == obs[o].event
    <3>1. /\ n \in TraceEvent /\ n \notin Stored /\ Stored' = Stored \cup {n}
          /\ \A e \in Stored : seq'[e] = seq[e] /\ parent'[e] = parent[e] /\ seq[e] # obs[o].next
          /\ seq'[n] = obs[o].next /\ parent'[n] = obs[o].base
      BY <1>4, <2>2 DEF InsertTrace, Clashes, TraceInv, TraceTypeOK, ObserversAt
    <3>2. PICK r \in {NoHook, [obs[o] EXCEPT !.step = "enqueue"]} : obs' = [obs EXCEPT ![o] = r]
      BY <1>4, <2>2 DEF Recorded, LeaveTrace, TraceInv, TraceTypeOK
    <3>3. TraceTypeOK'
      BY <1>4, <2>2, <3>1, <3>2 DEF InsertTrace, NoHook, TraceInv, TraceTypeOK, tasks
    <3>4. InsertReady' /\ ObserversAt'
      BY <1>4, <2>2, <3>1, <3>2 DEF InsertTrace, NoHook, TraceInv, TraceTypeOK, InsertReady, ObserversAt
    <3>5. TasksOfStored'
      BY <1>4, <2>2, <3>1 DEF InsertTrace, TraceInv, TraceTypeOK, TasksOfStored, tasks
    <3>6. LinearChain'
      BY <1>4, <2>2, <3>1 DEF InsertTrace, TraceInv, TraceTypeOK, InsertReady, LinearChain
    <3>7. QED
      BY <3>3, <3>4, <3>5, <3>6 DEF TraceInv
  <2>3. QED
    BY <1>4, <2>1, <2>2 DEF InsertTrace
<1>5. ASSUME NEW o \in Observer, Enqueue(o) PROVE TraceInv'
  BY <1>5, TraceKept
     DEF Enqueue, LeaveTrace, NoHook, Statuses, TraceInv, TraceTypeOK, InsertReady, ObserversAt,
         TasksOfStored, trace
<1>6. ASSUME NEW o \in Observer, ObserverCrash(o) PROVE TraceInv'
  BY <1>6, TraceKept
     DEF ObserverCrash, Orphans, TraceFault, LeaveTrace, NoHook, TraceInv, TraceTypeOK, InsertReady,
         ObserversAt, TasksOfStored, trace, tasks
<1>7. ASSUME NEW w \in TraceWorker, NEW S \in SUBSET TraceEvent, ClaimTrace(w, S) PROVE TraceInv'
  BY <1>7, TraceKept
     DEF ClaimTrace, Idle, Due, Statuses, TraceInv, TraceTypeOK, InsertReady, ObserversAt,
         TasksOfStored, trace
<1>8. ASSUME NEW w \in TraceWorker, NEW e \in TraceEvent, Analyze(w, e) PROVE TraceInv'
  BY <1>8, TraceKept
     DEF Analyze, Idle, TraceInv, TraceTypeOK, InsertReady, ObserversAt, TasksOfStored, trace, tasks
<1>9. ASSUME NEW w \in TraceWorker, FinishRead(w) PROVE TraceInv'
  <2>1. call[w] \in CallState /\ call[w].task \in Stored /\ NoCall \in CallState
    BY <1>9, 0 \in Nat DEF FinishRead, NoCall, CallState, TraceInv, TraceTypeOK, TasksOfStored
  <2>2. UNCHANGED <<trace, advisory, hooks, obs, orphaned, tasks, traceBatch>> /\ traceFaults' \in 0 .. MaxTraceFaults
    BY <1>9 DEF FinishRead, TraceInv, TraceTypeOK
  <2>3. CASE Raise(w)
    <3> DEFINE c == [stage |-> "read", task |-> call[w].task, result |-> "none", seen |-> 0, second |-> TRUE]
    <3>1. c \in CallState
      BY <2>1, 0 \in Nat DEF CallState
    <3>2. call' = [call EXCEPT ![w] = NoCall] \/ call' = [call EXCEPT ![w] = c]
      BY <2>3 DEF Raise
    <3>3. NoCall.stage = "idle" /\ c.task \in Stored
      BY <2>1 DEF NoCall
    <3>4. QED
      BY <2>1, <2>2, <3>1, <3>2, <3>3, CallStep
  <2>4. ASSUME NEW g \in {"attach", "write"}, traceStatus[call[w].task] = "claimed",
               call' = [call EXCEPT ![w].seen = traceAttempts[call[w].task], ![w].stage = g]
        PROVE  TraceInv'
    <3> DEFINE c == [call[w] EXCEPT !.seen = traceAttempts[call[w].task], !.stage = g]
    <3>1. c \in CallState /\ c.task = call[w].task
      BY <2>1 DEF CallState, TraceInv, TraceTypeOK
    <3>2. call' = [call EXCEPT ![w] = c]
      BY <2>1, <2>4 DEF CallState, TraceInv, TraceTypeOK
    <3>3. QED
      BY <2>1, <2>2, <3>1, <3>2, CallStep
  <2>5. QED
    BY <1>9, <2>3, <2>4 DEF FinishRead
<1>10. ASSUME NEW w \in TraceWorker, Attach(w) PROVE TraceInv'
  <2>1. UNCHANGED <<seq, parent, hooks, obs, orphaned, traceStatus, traceAttempts, traceOver, traceBatch, traceFaults>>
    BY <1>10 DEF Attach, trace, tasks
  <2>2. /\ call[w].task \in Stored
        /\ advisory' \in {advisory, [advisory EXCEPT ![call[w].task] = w]}
        /\ call' = [call EXCEPT ![w].stage = "complete"]
    BY <1>10 DEF Attach, TraceInv, TraceTypeOK, TasksOfStored
  <2>3. call' \in [TraceWorker -> CallState]
    <3>1. call \in [TraceWorker -> CallState]
      BY DEF CallState, TraceInv, TraceTypeOK
    <3>2. [call[w] EXCEPT !.stage = "complete"] \in CallState
      BY <3>1 DEF CallState
    <3>3. QED
      BY <2>2, <3>1, <3>2
  <2>4. advisory' \in [TraceEvent -> TraceWorker \cup {"none", "available", "unavailable", "rejected"}]
    BY <2>2 DEF TraceInv, TraceTypeOK
  <2>5. TraceTypeOK'
    BY <2>1, <2>3, <2>4 DEF CallState, TraceInv, TraceTypeOK
  <2>6. InsertReady' /\ ObserversAt'
    BY <2>1 DEF TraceInv, InsertReady, ObserversAt
  <2>7. \A x \in TraceWorker : /\ call'[x].task = call[x].task
                              /\ call'[x].stage # "idle" => call[x].stage # "idle"
    BY <1>10, <2>2 DEF Attach, TraceInv, TraceTypeOK
  <2>8. TasksOfStored'
    BY <2>1, <2>2, <2>7 DEF TraceInv, TraceTypeOK, TasksOfStored
  <2>9. QED
    BY <2>1, <2>5, <2>6, <2>8, TraceKept DEF trace
<1>11. ASSUME NEW w \in TraceWorker, FinishWrite(w) PROVE TraceInv'
  BY <1>11, TraceKept
     DEF FinishWrite, Retry, NoCall, Statuses, TraceInv, TraceTypeOK, InsertReady, ObserversAt,
         TasksOfStored, trace
<1>12. ASSUME NEW w \in TraceWorker, WriteFails(w) \/ TraceWorkerCrash(w) PROVE TraceInv'
  <2>1. CASE WriteFails(w)
    BY <2>1, TraceKept
       DEF WriteFails, TraceFault, Raise, NoCall, TraceInv, TraceTypeOK, InsertReady, ObserversAt,
           TasksOfStored, trace, tasks
  <2>2. CASE TraceWorkerCrash(w)
    BY <2>2, TraceKept
       DEF TraceWorkerCrash, TraceFault, NoCall, TraceInv, TraceTypeOK, InsertReady, ObserversAt,
           TasksOfStored, trace, tasks
  <2>3. QED
    BY <1>12, <2>1, <2>2
<1>13. ASSUME NEW e \in TraceEvent, TraceLeaseRunsOut(e) \/ LeaseLapses(e) PROVE TraceInv'
  BY <1>13, TraceKept
     DEF TraceLeaseRunsOut, LeaseLapses, TraceFault, TraceInv, TraceTypeOK, InsertReady, ObserversAt,
         TasksOfStored, trace
<1>14. CASE UNCHANGED traceVars
  BY <1>14, TraceKept
     DEF traceVars, TraceInv, TraceTypeOK, InsertReady, ObserversAt, TasksOfStored, trace, tasks
<1>15. QED
  BY <1>1, <1>2, <1>3, <1>4, <1>5, <1>6, <1>7, <1>8, <1>9, <1>11, <1>12, <1>13, <1>14, <1>10
     DEF TraceNext, Record, TraceWork, Finish

LEMMA AlwaysTraceInv == TraceSpec => []TraceInv
  BY InitTraceInv, NextTraceInv, PTL DEF TraceSpec

(***************************************************************************)
(* The rows of the trace and of its queue have their types, and an         *)
(* orphaned event was recorded (record_decision_trace_event).              *)
(***************************************************************************)
THEOREM TracesTyped == TraceSpec => []TraceTypeOK
  BY AlwaysTraceInv, PTL DEF TraceInv

(***************************************************************************)
(* However many observers race for the next number, the trace of a session *)
(* stays one chain, no recorded event moves or is linked anew, and no late *)
(* worker replaces an advisory that was available.                         *)
(***************************************************************************)
THEOREM TraceAlwaysGrows == TraceSpec => TraceOnlyGrows
<1>1. ASSUME TraceInv, [TraceNext]_traceVars, NEW e \in TraceEvent
      PROVE  /\ e \in Stored => seq'[e] = seq[e] /\ parent'[e] = parent[e]
             /\ Available(e) => advisory'[e] = advisory[e]
  <2> USE <1>1, TraceAssumption DEF TraceInv, TraceTypeOK, Stored
  <2>1. ASSUME NEW o \in Observer, InsertTrace(o)
        PROVE  /\ e \in Stored => seq'[e] = seq[e] /\ parent'[e] = parent[e]
               /\ Available(e) => advisory'[e] = advisory[e]
    BY <2>1 DEF InsertTrace, Clashes, Available, TasksOfStored, trace
  <2>2. ASSUME NEW w \in TraceWorker, Attach(w)
        PROVE  /\ e \in Stored => seq'[e] = seq[e] /\ parent'[e] = parent[e]
               /\ Available(e) => advisory'[e] = advisory[e]
    BY <2>2 DEF Attach, OpenTrace, Available, trace
  <2>3. CASE UNCHANGED <<trace, advisory>>
    BY <2>3 DEF trace
  <2>4. QED
    BY <2>1, <2>2, <2>3
       DEF TraceNext, Record, TraceWork, Finish, ReadHead, Lookup, CheckParent, Enqueue, ObserverCrash,
           ClaimTrace, Analyze, FinishRead, FinishWrite, WriteFails, TraceWorkerCrash,
           TraceLeaseRunsOut, LeaseLapses, traceVars
<1>2. TraceInv /\ [TraceNext]_traceVars
        => [\A e \in TraceEvent :
              /\ e \in Stored => seq'[e] = seq[e] /\ parent'[e] = parent[e]
              /\ Available(e) => advisory'[e] = advisory[e]]_traceVars
  BY <1>1
<1>3. TraceInv => LinearChain
  BY DEF TraceInv
<1>4. QED
  BY AlwaysTraceInv, <1>2, <1>3, PTL DEF TraceSpec, TraceOnlyGrows, AvailableIsFinal

-----------------------------------------------------------------------------
(* The two of them side by side *)

LEMMA DecisionsParts == FairDecisionsSpec => ProposalsSpec /\ TraceSpec
<1>1. DecisionsInit => ProposalsInit /\ TraceInit
  BY DEF DecisionsInit
<1>2. [DecisionsNext]_DecisionsVars => [ProposalsNext]_proposalVars /\ [TraceNext]_traceVars
  BY DEF DecisionsNext, DecisionsVars
<1>3. QED
  BY <1>1, <1>2, PTL DEF FairDecisionsSpec, ProposalsSpec, TraceSpec

(***************************************************************************)
(* The proposals with their records, and the traces with their             *)
(* advisories, keep their types when they are run beside each other.       *)
(***************************************************************************)
THEOREM DecisionsTyped == FairDecisionsSpec => []DecisionsTypeOK
<1>1. ProposalsTypeOK /\ TraceTypeOK => DecisionsTypeOK
  BY DEF DecisionsTypeOK
<1>2. QED
  BY <1>1, DecisionsParts, ProposalsTyped, TracesTyped, PTL
=============================================================================
