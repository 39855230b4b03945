------------------------------- MODULE MCWrites ------------------------------
(***************************************************************************)
(* Small instances of the writes that have to be whole or repeated until   *)
(* they are: agent turns under their nested transactions, and the          *)
(* telemetry outbox. They share no state, so a behaviour is about one of   *)
(* them, focus, chosen at the start; the other stays as it began.          *)
(***************************************************************************)
EXTENDS AgentTurns, TelemetryOutbox, TLC

CONSTANTS p1, p2, t1, t2, t3, d1, d2, d3

\* The process p1 has two threads, p2 has one.
Threads == t1 :> p1 @@ t2 :> p1 @@ t3 :> p2

\* The queue of the observer with two drains, and the one of Hermes with a
\* bridge process and two consumers.
Queue(targets, r1, r2, r3, n) ==
    [targets |-> targets, role |-> d1 :> r1 @@ d2 :> r2 @@ d3 :> r3, max_events |-> n]
ObserverQueue == Queue({"observer"}, "drain", "drain", "consumer", 2)
HermesQueue   == Queue({"cortex", "integrity_sdk"}, "bridge", "consumer", "consumer", 1)
BothQueues    == {ObserverQueue, HermesQueue}

VARIABLE focus

Focus == {"turns", "outbox"}

WritesVars ==
    <<turnsVars, outboxVars, focus>>

WritesNext ==
    \/ /\ focus = "turns" /\ TurnsNext
       /\ UNCHANGED <<outboxVars, focus>>
    \/ /\ focus = "outbox" /\ OutboxNext
       /\ UNCHANGED <<turnsVars, focus>>

WritesInit ==
    /\ focus \in Focus
    /\ TurnsInit
    /\ OutboxInit /\ (focus # "outbox" => deployment = ObserverQueue)

FairWritesSpec == WritesInit /\ [][WritesNext]_WritesVars /\ TurnsFairness /\ OutboxFairness

\* The state of each part has its type.
WritesTypeOK == TurnsTypeOK /\ OutboxTypeOK
=============================================================================
