--------------------------- MODULE TelemetryOutbox ---------------------------
(***************************************************************************)
(* The durable fan-out queue of telemetry_outbox.py and its consumers: the *)
(* drain of observer_capture.py, the consumer of                           *)
(* integrity_sdk_outbox_consumer.py, and hermes_bridge.py, which queues an *)
(* event and delivers it to the store itself.                              *)
(*                                                                         *)
(* A delivery is <<event, destination>>.  A claim is a lease without a     *)
(* token: ack and fail identify the delivery, not the claim.               *)
(***************************************************************************)
EXTENDS Integers, FiniteSets, Functions

CONSTANTS
    OutboxEvent,
    OutboxWorker,
    Deployment,           \* queue files: their targets, their workers' roles, max_events
    OutboxBatchLimit,     \* limit of claim
    MaxDeliveryAttempts,  \* max_attempts of fail
    NoOutboxEvent,
    MaxOutboxCalls,       \* bound: calls of enqueue
    MaxOutboxFaults       \* bound: crashes, leases outlasted, late failures

ServedBy == [drain |-> "observer", consumer |-> "integrity_sdk", bridge |-> "cortex"]

Destination == {"observer", "integrity_sdk", "cortex"}
Delivery == OutboxEvent \X Destination

ASSUME OutboxAssumption ==
    /\ Deployment \subseteq [targets : SUBSET Destination,
                              role : [OutboxWorker -> {"drain", "consumer", "bridge"}],
                              max_events : Nat \ {0}]
    /\ {MaxDeliveryAttempts, OutboxBatchLimit} \subseteq Nat \ {0} /\ MaxOutboxFaults \in Nat
    /\ IsFiniteSet(OutboxWorker) /\ NoOutboxEvent \notin OutboxEvent

VARIABLES
    deployment,        \* the queue file this behaviour is about; never changes
    events,            \* rows of outbox_events
    delivery,          \* delivery -> its status, or "none" without a row
    deliveryAttempts,  \* delivery -> attempts
    outboxOver,        \* deliveries in flight with lease_until in the past
    outboxBatch,       \* worker -> events it claimed and has not come to
    current,           \* worker -> the event it works on
    outboxStage,       \* worker -> where it is with the current event
    seen,              \* worker -> attempts that fail has read
    taken,             \* delivery -> times its destination accepted the event
    calls, outboxFaults,
    outlasted          \* history: deliveries whose lease ran out under a worker

queue       == <<events, delivery, deliveryAttempts, outboxOver>>
workerState == <<outboxBatch, current, outboxStage, seen>>
faults      == <<outboxFaults, outlasted>>
state       == <<queue, workerState, taken, calls, faults>>
outboxVars  == <<state, deployment>>

Targets == deployment.targets
Role == deployment.role
ServesTarget(w) == ServedBy[Role[w]]
Row(w, e) == <<e, ServesTarget(w)>>

OutboxTerminal == {"acked", "dead_letter"}
Unsettled == {"pending", "in_flight", "retry"}

OutboxInit ==
    /\ deployment \in Deployment
    /\ events = {}
    /\ delivery = [r \in Delivery |-> "none"]
    /\ deliveryAttempts = [r \in Delivery |-> 0]
    /\ outboxOver = {}
    /\ outboxBatch = [w \in OutboxWorker |-> {}]
    /\ current = [w \in OutboxWorker |-> NoOutboxEvent]
    /\ outboxStage = [w \in OutboxWorker |-> "idle"]
    /\ seen = [w \in OutboxWorker |-> 0]
    /\ taken = [r \in Delivery |-> 0]
    /\ calls = [e \in OutboxEvent |-> 0]
    /\ outboxFaults = 0 /\ outlasted = {}

OutboxFault == outboxFaults < MaxOutboxFaults /\ outboxFaults' = outboxFaults + 1

-----------------------------------------------------------------------------
HasRoom(e) == e \in events \/ Cardinality(events) < deployment.max_events

\* enqueue: a new event, or the destinations a known one has no row for.
InsertEvent(e) ==
    LET new(r) == r[1] = e /\ r[2] \in Targets /\ delivery[r] = "none" IN
    /\ events' = events \cup {e}
    /\ delivery' = [r \in Delivery |-> IF new(r) THEN "pending" ELSE delivery[r]]
    /\ deliveryAttempts' = [r \in Delivery |-> IF new(r) THEN 0 ELSE deliveryAttempts[r]]
    /\ UNCHANGED outboxOver

Call(e) == FoldFunction(+, 0, calls) < MaxOutboxCalls /\ calls' = [calls EXCEPT ![e] = @ + 1]

\* An observer hook queues what it captured; a full queue refuses it.
CaptureEvent(e) ==
    /\ "observer" \in Targets
    /\ Call(e)
    /\ IF HasRoom(e) THEN InsertEvent(e) ELSE UNCHANGED queue
    /\ UNCHANGED <<workerState, taken, faults>>

\* A hook process of Hermes: the event is queued for both destinations.
BridgeEnqueue(w, e) ==
    /\ Role[w] = "bridge" /\ outboxStage[w] = "idle" /\ outboxBatch[w] = {}
    /\ Call(e)
    /\ HasRoom(e)
    /\ InsertEvent(e)
    /\ current' = [current EXCEPT ![w] = e]
    /\ outboxStage' = [outboxStage EXCEPT ![w] = "queued"]
    /\ UNCHANGED <<outboxBatch, seen, taken, faults>>

\* The outbox is full: fail-open, the handler runs all the same.
BridgeUnqueued(w, e) ==
    /\ Role[w] = "bridge" /\ outboxStage[w] = "idle" /\ outboxBatch[w] = {}
    /\ Call(e)
    /\ ~ HasRoom(e)
    /\ taken' = [taken EXCEPT ![Row(w, e)] = @ + 1]
    /\ UNCHANGED <<queue, workerState, faults>>

-----------------------------------------------------------------------------
\* Mutant of Deliverable: an expired lease is not taken over.
DeliverableWaiting(r) == delivery[r] \in {"pending", "retry"}
Deliverable(r) == delivery[r] \in {"pending", "retry"} \/ r \in outboxOver

\* claim: a batch of due deliveries; a retry is due once its delay has passed.
OutboxBatches(w) ==
    LET due == {e \in OutboxEvent : Deliverable(Row(w, e))}
        size == IF Cardinality(due) < OutboxBatchLimit THEN Cardinality(due) ELSE OutboxBatchLimit
        delayed(B) == \A e \in due \ B : delivery[Row(w, e)] = "retry"
    IN {B \in SUBSET due : B # {} /\ (Cardinality(B) = size \/ delayed(B))
                                 /\ Cardinality(B) <= size}

Lease(w, B) ==
    LET rows == {Row(w, e) : e \in B} IN
    /\ delivery' = [r \in Delivery |-> IF r \in rows THEN "in_flight" ELSE delivery[r]]
    /\ deliveryAttempts' = [r \in Delivery |-> IF r \in rows THEN deliveryAttempts[r] + 1 ELSE deliveryAttempts[r]]
    /\ outboxOver' = outboxOver \ rows
    /\ UNCHANGED events

ClaimDelivery(w) ==
    /\ Role[w] # "bridge"
    /\ outboxStage[w] = "idle" /\ outboxBatch[w] = {}
    /\ \E B \in OutboxBatches(w) : Lease(w, B) /\ outboxBatch' = [outboxBatch EXCEPT ![w] = B]
    /\ UNCHANGED <<current, outboxStage, seen, taken, calls, faults>>

(***************************************************************************)
(* The bridge claims the event it has queued, and no other.  If another    *)
(* has it in flight or has settled it, the handler runs without a claim.   *)
(***************************************************************************)
BridgeClaim(w) ==
    LET e == current[w] IN
    /\ outboxStage[w] = "queued"
    /\ current' = [current EXCEPT ![w] = NoOutboxEvent]
    /\ outboxStage' = [outboxStage EXCEPT ![w] = "idle"]
    /\ IF Deliverable(Row(w, e))
       THEN Lease(w, {e}) /\ outboxBatch' = [outboxBatch EXCEPT ![w] = {e}] /\ UNCHANGED taken
       ELSE /\ taken' = [taken EXCEPT ![Row(w, e)] = @ + 1]
            /\ UNCHANGED <<queue, outboxBatch>>
    /\ UNCHANGED <<seen, calls, faults>>

-----------------------------------------------------------------------------
\* record_otel_batch deduplicates by event id; the Oracle and the hooks do not.
Accepted(w, r) == IF Role[w] = "drain" THEN 1 ELSE taken[r] + 1

Begin(w, e) ==
    /\ outboxStage[w] = "idle" /\ e \in outboxBatch[w]
    /\ outboxBatch' = [outboxBatch EXCEPT ![w] = @ \ {e}]
    /\ current' = [current EXCEPT ![w] = e]
    /\ UNCHANGED <<queue, seen, calls>>

Deliver(w, e) ==
    /\ Begin(w, e)
    /\ taken' = [taken EXCEPT ![Row(w, e)] = Accepted(w, Row(w, e))]
    /\ outboxStage' = [outboxStage EXCEPT ![w] = "delivered"]
    /\ UNCHANGED faults

\* The destination refuses or cannot be reached.
DeliveryFails(w, e) ==
    /\ Begin(w, e)
    /\ outboxStage' = [outboxStage EXCEPT ![w] = "failed"]
    /\ UNCHANGED <<taken, faults>>

\* The event was accepted and an exception follows: a timeout, or the receipt.
DeliveryFailsLate(w, e) ==
    /\ Role[w] # "drain"
    /\ Begin(w, e)
    /\ OutboxFault
    /\ taken' = [taken EXCEPT ![Row(w, e)] = Accepted(w, Row(w, e))]
    /\ outboxStage' = [outboxStage EXCEPT ![w] = "failed"]
    /\ UNCHANGED outlasted

Settle(w) ==
    /\ current' = [current EXCEPT ![w] = NoOutboxEvent]
    /\ outboxStage' = [outboxStage EXCEPT ![w] = "idle"]

\* ack, whoever's claim it is that is in flight.
Ack(w) ==
    LET r == Row(w, current[w]) IN
    /\ outboxStage[w] = "delivered"
    /\ delivery[r] = "in_flight"
    /\ delivery' = [delivery EXCEPT ![r] = "acked"]
    /\ outboxOver' = outboxOver \ {r}
    /\ Settle(w)
    /\ UNCHANGED <<events, deliveryAttempts, outboxBatch, seen, taken, calls, faults>>

\* ack raises OutboxStateError: fail is called, but the bridge calls it outside try.
AckRefused(w) ==
    /\ outboxStage[w] = "delivered"
    /\ delivery[Row(w, current[w])] # "in_flight"
    /\ IF Role[w] = "bridge" THEN Settle(w)
       ELSE outboxStage' = [outboxStage EXCEPT ![w] = "failed"] /\ UNCHANGED current
    /\ UNCHANGED <<queue, outboxBatch, seen, taken, calls, faults>>

\* fail, a statement of its own each: first the attempts and the status ...
FailRead(w) ==
    LET r == Row(w, current[w]) IN
    /\ outboxStage[w] = "failed"
    /\ delivery[r] = "in_flight"
    /\ seen' = [seen EXCEPT ![w] = deliveryAttempts[r]]
    /\ outboxStage' = [outboxStage EXCEPT ![w] = "failing"]
    /\ UNCHANGED <<queue, outboxBatch, current, taken, calls, faults>>

\* fail raises: the consumer notes it, the drain ends with its batch in flight.
FailRefused(w) ==
    /\ outboxStage[w] = "failed"
    /\ delivery[Row(w, current[w])] # "in_flight"
    /\ Settle(w)
    /\ outboxBatch' = IF Role[w] = "drain" THEN [outboxBatch EXCEPT ![w] = {}] ELSE outboxBatch
    /\ UNCHANGED <<queue, seen, taken, calls, faults>>

Verdict(n) == IF n >= MaxDeliveryAttempts THEN "dead_letter" ELSE "retry"

\* ... then the update, which does not compare the status again.
FailWrite(w) ==
    LET r == Row(w, current[w]) IN
    /\ outboxStage[w] = "failing"
    /\ delivery' = [delivery EXCEPT ![r] = Verdict(seen[w])]
    /\ outboxOver' = outboxOver \ {r}
    /\ Settle(w)
    /\ seen' = [seen EXCEPT ![w] = 0]
    /\ UNCHANGED <<events, deliveryAttempts, outboxBatch, taken, calls, faults>>

-----------------------------------------------------------------------------
Busy(r) == \E w \in OutboxWorker : ServesTarget(w) = r[2] /\ r[1] \in outboxBatch[w] \cup {current[w]}

\* lease_until passes; while a worker still has the event, that is a fault.
DeliveryLeaseRunsOut(r) ==
    /\ delivery[r] = "in_flight" /\ r \notin outboxOver
    /\ IF Busy(r) THEN OutboxFault /\ outlasted' = outlasted \cup {r} ELSE UNCHANGED faults
    /\ outboxOver' = outboxOver \cup {r}
    /\ UNCHANGED <<events, delivery, deliveryAttempts, workerState, taken, calls>>

Crash(w) ==
    /\ outboxStage[w] # "idle" \/ outboxBatch[w] # {}
    /\ OutboxFault
    /\ outboxBatch' = [outboxBatch EXCEPT ![w] = {}]
    /\ Settle(w)
    /\ seen' = [seen EXCEPT ![w] = 0]
    /\ UNCHANGED <<queue, taken, calls, outlasted>>

\* Settled more than a day ago: no worker has been at it for that long.
Prunable(r) == delivery[r] \in OutboxTerminal /\ ~ Busy(r)

\* prune_terminal, which every TelemetryOutbox() runs; the set is what is old enough.
Prune(R) ==
    /\ R # {}
    /\ delivery' = [r \in Delivery |-> IF r \in R THEN "none" ELSE delivery[r]]
    /\ events' = {e \in events : \E d \in Targets : delivery'[<<e, d>>] # "none"}
    /\ UNCHANGED <<deliveryAttempts, outboxOver, workerState, taken, calls, faults>>

OutboxWork(w) ==
    \/ BridgeClaim(w) \/ Ack(w) \/ AckRefused(w)
    \/ FailRead(w) \/ FailRefused(w) \/ FailWrite(w)
    \/ \E e \in OutboxEvent : Deliver(w, e) \/ DeliveryFails(w, e) \/ DeliveryFailsLate(w, e)

Step ==
    \/ \E e \in OutboxEvent : \/ CaptureEvent(e)
                        \/ \E w \in OutboxWorker : BridgeEnqueue(w, e) \/ BridgeUnqueued(w, e)
    \/ \E w \in OutboxWorker : ClaimDelivery(w) \/ OutboxWork(w) \/ Crash(w)
    \/ \E r \in Delivery : DeliveryLeaseRunsOut(r)
    \/ \E R \in SUBSET {r \in Delivery : Prunable(r)} : Prune(R)

OutboxNext == Step /\ UNCHANGED deployment

OutboxSpec == OutboxInit /\ [][OutboxNext]_outboxVars

\* Drains and consumers run on a timer; a process does not stop midway; time passes.
OutboxFairness ==
    /\ \A w \in OutboxWorker : WF_state(OutboxWork(w))
    /\ \A r \in Delivery :
          /\ WF_state(\E w \in OutboxWorker : ServesTarget(w) = r[2] /\ ClaimDelivery(w) /\ deliveryAttempts'[r] > deliveryAttempts[r])
          /\ WF_state(DeliveryLeaseRunsOut(r))

FairOutboxSpec == OutboxSpec /\ OutboxFairness

-----------------------------------------------------------------------------
OutboxTypeOK ==
    /\ deployment \in Deployment
    /\ events \subseteq OutboxEvent /\ Cardinality(events) <= deployment.max_events
    /\ delivery \in [Delivery -> Unsettled \cup OutboxTerminal \cup {"none"}]
    /\ deliveryAttempts \in [Delivery -> Nat]
    /\ outboxOver \subseteq {r \in Delivery : delivery[r] = "in_flight"}
    /\ outboxBatch \in [OutboxWorker -> SUBSET OutboxEvent]
    /\ current \in [OutboxWorker -> OutboxEvent \cup {NoOutboxEvent}]
    /\ outboxStage \in [OutboxWorker -> {"idle", "queued", "delivered", "failed", "failing"}]
    /\ \A w \in OutboxWorker : outboxStage[w] = "idle" <=> current[w] = NoOutboxEvent
    /\ seen \in [OutboxWorker -> Nat] /\ taken \in [Delivery -> Nat]
    /\ calls \in [OutboxEvent -> Nat] /\ outboxFaults \in 0 .. MaxOutboxFaults /\ outlasted \subseteq Delivery
    /\ \A r \in Delivery : delivery[r] # "none" => r[1] \in events

(***************************************************************************)
(* At least once costs at most one repetition per fault: a destination     *)
(* sees an event once per call of enqueue and once more for every crash    *)
(* and every late failure, while no worker outlasts its lease on it.  One  *)
(* that does may turn the claim of the next back into a retry, which then  *)
(* does so to the one after: ack and fail name no claim.                   *)
(***************************************************************************)
RepeatsNeedFaults ==
    \A r \in Delivery : r \notin outlasted => taken[r] <= calls[r[1]] + outboxFaults

(***************************************************************************)
(* A delivery with a destination that is polled gets settled although      *)
(* workers crash, outlast leases, fail and abort their batches.  Nobody    *)
(* polls cortex: the bridge claims the event of its own process, once.     *)
(***************************************************************************)
DeliveriesSettle ==
    \A r \in Delivery : r[2] # "cortex" =>
        (delivery[r] \in Unsettled ~> delivery[r] \in OutboxTerminal \cup {"none"})

(***************************************************************************)
(* The outbox delivers at least once and repeats itself for faults only.   *)
(***************************************************************************)
DeliversAtLeastOnce == []RepeatsNeedFaults /\ DeliveriesSettle
=============================================================================
