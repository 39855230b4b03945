--------------------------- MODULE TelemetryIngest ---------------------------
(***************************************************************************)
(* Telemetry on its way into the store: the OTLP receivers                 *)
(* (src/xibalba_cortex/otlp_receiver.py, otlp_grpc_receiver.py,            *)
(* otel_core.py), the scan of raw request bodies (raw_body_ingest.py), the *)
(* provider adapters (provider_adapters.py) and the tables they fill       *)
(* (record_otel_batch, telemetry_health, retention and provider deletion   *)
(* of src/xibalba_cortex/store.py).                                        *)
(*                                                                         *)
(* A batch is handled record by record, each store call in a transaction   *)
(* of its own, by several threads at once.  Text becomes a memory unless   *)
(* one with that content is found first; telemetry becomes a row.  An      *)
(* exporter sends again what was not answered, so a batch may arrive more  *)
(* than once, whole or after a failure halfway.  Only the adapters' rows   *)
(* carry a key, kept in a table that outlives the rows.                    *)
(***************************************************************************)
EXTENDS Integers, Sequences, FiniteSets

CONSTANTS
  Receiver,       \* threads of the receivers, the scan and the adapters
  Text,           \* message texts
  IngestTurn,     \* prompt ids and trace ids
  Provider,       \* providers called through an adapter
  MaxFacts,       \* bound on memories
  MaxBatch,       \* bound on the records of a batch
  MaxIngestRows,  \* bound on telemetry rows ever written
  MaxArrivals     \* bound on batches, scans and calls started

ASSUME IngestAssumption == {MaxFacts, MaxBatch, MaxIngestRows, MaxArrivals} \subseteq Nat

NotThere == "absent"
NoKey == <<>>
NoFact == 0

VARIABLES
  fact,      \* memories, in rowid order: their text and the turn recorded
  row,       \* otel_events
  rowsEver,  \* rows written so far (ids)
  dedupe,    \* keys of telemetry_event_dedupe
  health,    \* accepted and duplicates, by provider
  receiver,  \* program counter and local variables of each thread
  arrivals,  \* batches, scans and calls so far
  removed    \* keys of rows that retention or deletion has removed

ingestVars == <<fact, row, rowsEver, dedupe, health, receiver, arrivals, removed>>

Waiting == [at |-> "idle", steps |-> <<>>, of |-> [t \in IngestTurn |-> NoFact], call |-> NotThere,
            took |-> 0]

IngestInit ==
  /\ fact = <<>> /\ row = {} /\ rowsEver = 0 /\ dedupe = {} /\ removed = {}
  /\ health = [p \in Provider |-> [accepted |-> 0, duplicates |-> 0]]
  /\ receiver = [r \in Receiver |-> Waiting]
  /\ arrivals = 0

(***************************************************************************)
(* Batches.  A record is a text of a turn, telemetry of a turn, or an      *)
(* event nobody routes.  Of a batch of at most MaxBatch records are given  *)
(* the steps the code takes over it, in their order.                       *)
(***************************************************************************)
IngestRecord ==
  [event : {"text"}, text : Text, turn : IngestTurn, linked : {FALSE}]
  \union [event : {"telemetry"}, text : {NotThere}, turn : IngestTurn, linked : BOOLEAN]

Batches(n) == UNION {[1..k -> IngestRecord] : k \in 1..n}
Telemetry(b) == {i \in DOMAIN b : b[i].event = "telemetry"}

\* ingest_log_records makes two passes: every text first, then the telemetry,
\* which is linked to the memory its turn's text became.
LogSteps ==
  {b \in Batches(MaxBatch) :
     \A i \in DOMAIN b : /\ b[i].linked <=> i \in Telemetry(b)
                         /\ i \in Telemetry(b) => i..Len(b) \subseteq Telemetry(b)}

\* ingest_gen_ai_spans goes span by span: its texts, if it has any, then a row
\* for the chat; the texts of a span are of its turn.  One step more than a batch
\* of records has leaves room for a span with two texts, or two spans and a text.
SpanSteps ==
  {b \in Batches(MaxBatch + 1) :
     \A i \in DOMAIN b :
          /\ ~b[i].linked
          /\ i \notin Telemetry(b) => i + 1 \in DOMAIN b /\ b[i + 1].turn = b[i].turn}

\* ingest_metric_records turns no metric into a memory.
MetricSteps ==
  {b \in Batches(MaxBatch) : Telemetry(b) = DOMAIN b /\ \A i \in DOMAIN b : ~b[i].linked}

\* scan_once reads one text of each file, the last message or the response;
\* each scan here is of a file not scanned before, and its turn is unknown.
FileSteps == {b \in Batches(1) : Telemetry(b) = {}}

Begin(r, steps) ==
  /\ receiver[r].at = "idle" /\ arrivals < MaxArrivals
  /\ receiver' = [receiver EXCEPT ![r] = [Waiting EXCEPT !.at = "next", !.steps = steps]]
  /\ arrivals' = arrivals + 1
  /\ UNCHANGED <<fact, row, rowsEver, dedupe, health, removed>>

\* A request that passed the token check; the exporter sends what it has,
\* again if an earlier answer was an error or was lost.
PostLogs(r) == \E b \in LogSteps : Begin(r, b)
PostTraces(r) == \E b \in SpanSteps : Begin(r, b)
PostMetrics(r) == \E b \in MetricSteps : Begin(r, b)
ScanFile(r) == \E b \in FileSteps : Begin(r, b)

(***************************************************************************)
(* One record at a time.  find_memory_id_by_content and store_memory take  *)
(* the lock separately.                                                    *)
(***************************************************************************)
IngestStep(r) == Head(receiver[r].steps)
IngestAt(r, label, event) ==
  /\ receiver[r].at = label /\ receiver[r].steps # <<>> /\ IngestStep(r).event = event

\* The oldest memory with the text, if there is one.
WithText(text) == {i \in 1..Len(fact) : fact[i].text = text}
Oldest(text) ==
  IF WithText(text) = {} THEN NoFact
  ELSE CHOOSE i \in WithText(text) : \A j \in WithText(text) : i <= j

Resolved(r, memory) ==
  receiver' = [receiver EXCEPT ![r].at = "next", ![r].steps = Tail(@),
                               ![r].of[IngestStep(r).turn] = memory]

FindText(r) ==
  /\ IngestAt(r, "next", "text")
  /\ IF Oldest(IngestStep(r).text) # NoFact
     THEN Resolved(r, Oldest(IngestStep(r).text))
     ELSE receiver' = [receiver EXCEPT ![r].at = "store"]
  /\ UNCHANGED <<fact, row, rowsEver, dedupe, health, arrivals, removed>>

StoreText(r) ==
  /\ IngestAt(r, "store", "text") /\ Len(fact) < MaxFacts
  /\ fact' = Append(fact, [text |-> IngestStep(r).text, turn |-> IngestStep(r).turn])
  /\ Resolved(r, Len(fact) + 1)
  /\ UNCHANGED <<row, rowsEver, dedupe, health, arrivals, removed>>

(***************************************************************************)
(* record_otel_batch.  A keyed event whose key is in the dedupe table is   *)
(* counted as a duplicate and skipped; key and row commit together.        *)
(***************************************************************************)
NewRow(key, provider, turn, memory) ==
  [id |-> rowsEver + 1, key |-> key, provider |-> provider, turn |-> turn, memory |-> memory,
   old |-> FALSE]

RecordRow(r) ==
  /\ IngestAt(r, "next", "telemetry") /\ rowsEver < MaxIngestRows
  /\ LET turn == IngestStep(r).turn
         memory == IF IngestStep(r).linked THEN receiver[r].of[turn] ELSE NoFact
     IN row' = row \union {NewRow(NoKey, NotThere, turn, memory)}
  /\ rowsEver' = rowsEver + 1
  /\ receiver' = [receiver EXCEPT ![r].steps = Tail(@)]
  /\ UNCHANGED <<fact, dedupe, health, arrivals, removed>>

\* The batch is answered; an exception or a crash leaves what was written.
Answer(r) ==
  /\ receiver[r].at = "next" /\ receiver[r].steps = <<>>
  /\ receiver' = [receiver EXCEPT ![r] = Waiting]
  /\ UNCHANGED <<fact, row, rowsEver, dedupe, health, arrivals, removed>>

IngestFails(r) ==
  /\ receiver[r].at # "idle"
  /\ receiver' = [receiver EXCEPT ![r] = Waiting]
  /\ UNCHANGED <<fact, row, rowsEver, dedupe, health, arrivals, removed>>

(***************************************************************************)
(* An adapter's event (_event): the keyed log event, the keyed usage       *)
(* metric, and the health counters, in three transactions.                 *)
(***************************************************************************)
IngestStages == <<"event", "metric", "health">>

AdapterCall(r, provider, turn) ==
  /\ receiver[r].at = "idle" /\ arrivals < MaxArrivals
  /\ receiver' = [receiver EXCEPT ![r] = [Waiting EXCEPT !.at = "event", !.call = provider,
                    !.steps = <<[event |-> "call", text |-> NotThere, turn |-> turn,
                                 linked |-> FALSE]>>]]
  /\ arrivals' = arrivals + 1
  /\ UNCHANGED <<fact, row, rowsEver, dedupe, health, removed>>

\* Mutant of Known: the rows are asked, which retention removes.
KnownByRow(key) == \E e \in row : e.key = key
\* Whether a key was recorded before: by the dedupe table, not by the rows.
Known(key) == key \in dedupe

AdapterRecord(r, stage) ==
  /\ stage \in {"event", "metric"} /\ IngestAt(r, stage, "call")
  /\ LET key == <<receiver[r].call, IngestStep(r).turn, stage>> IN
     /\ IF Known(key) THEN UNCHANGED <<row, rowsEver, dedupe>>
        ELSE /\ rowsEver < MaxIngestRows
             /\ row' = row \union {NewRow(key, receiver[r].call, IngestStep(r).turn, NoFact)}
             /\ rowsEver' = rowsEver + 1
             /\ dedupe' = dedupe \union {key}
     /\ receiver' = [receiver EXCEPT
          ![r].at = IF stage = "event" THEN "metric" ELSE "health",
          ![r].took = IF Known(key) THEN @ ELSE @ + 1]
  /\ UNCHANGED <<fact, health, arrivals, removed>>

\* record_telemetry_health adds what the two calls returned.
Took(r) == receiver[r].took

AdapterHealth(r) ==
  /\ IngestAt(r, "health", "call")
  /\ health' = [health EXCEPT ![receiver[r].call].accepted = @ + Took(r),
                              ![receiver[r].call].duplicates = @ + (2 - Took(r))]
  /\ receiver' = [receiver EXCEPT ![r] = Waiting]
  /\ UNCHANGED <<fact, row, rowsEver, dedupe, arrivals, removed>>

(***************************************************************************)
(* Retention and provider deletion remove rows, oldest first and bounded;  *)
(* the dedupe table is left alone.                                         *)
(***************************************************************************)
RowsAge ==
  /\ \E e \in row : ~e.old
  /\ row' = {[e EXCEPT !.old = TRUE] : e \in row}
  /\ UNCHANGED <<fact, rowsEver, dedupe, health, receiver, arrivals, removed>>

Discard(gone) ==
  /\ gone # {}
  /\ row' = row \ gone
  /\ removed' = removed \union ({e.key : e \in gone} \ {NoKey})
  /\ UNCHANGED <<fact, rowsEver, dedupe, health, receiver, arrivals>>

\* prune_old_otel_events, applied, with its limit at one row or at all.
PruneOld ==
  LET old == {e \in row : e.old} IN
  \/ Discard(old)
  \/ Discard({e \in old : \A other \in old : e.id <= other.id})

DeleteProvider(provider) == Discard({e \in row : e.provider = provider /\ e.old})

IngestNext ==
  \/ \E r \in Receiver :
       \/ PostLogs(r) \/ PostTraces(r) \/ PostMetrics(r) \/ ScanFile(r)
       \/ FindText(r) \/ StoreText(r) \/ RecordRow(r) \/ Answer(r) \/ IngestFails(r)
       \/ \E p \in Provider, t \in IngestTurn : AdapterCall(r, p, t)
       \/ \E i \in 1..2 : AdapterRecord(r, IngestStages[i])
       \/ AdapterHealth(r)
  \/ RowsAge \/ PruneOld \/ \E p \in Provider : DeleteProvider(p)

IngestSpec == IngestInit /\ [][IngestNext]_ingestVars

-----------------------------------------------------------------------------
\* Rows, counters and program counters have the shapes the code gives them.
IngestTypeOK ==
  /\ Len(fact) <= MaxFacts /\ rowsEver \in 0..MaxIngestRows /\ arrivals \in 0..MaxArrivals
  /\ \A e \in row : e.id \in 1..rowsEver /\ e.memory \in 0..Len(fact)
  /\ {e.key : e \in row} \subseteq dedupe \union {NoKey}
  /\ \A r \in Receiver : receiver[r].took \in 0..2

\* Telemetry an adapter recorded is recorded once: a repeated call adds no
\* second row, and what retention or deletion removed does not come back
\* (telemetry_event_dedupe outlives otel_events).
KeyedRowsOnce ==
  /\ \A e, other \in row : e.key = other.key /\ e.key # NoKey => e = other
  /\ \A e \in row : e.key \notin removed

\* A provider's accepted counter never exceeds the events recorded for it,
\* whatever is retried, interleaved or lost between the event and the counter.
AcceptedWasRecorded ==
  \A p \in Provider : health[p].accepted <= Cardinality({k \in dedupe : k[1] = p})

\* "this does NOT create a duplicate memory" (ingest_log_records): no two
\* memories hold the same text.
NoDuplicateText ==
  \A i, j \in 1..Len(fact) : fact[i].text = fact[j].text => i = j

(***************************************************************************)
(* Telemetry counts once, however often it is delivered.                   *)
(***************************************************************************)
IngestHolds == KeyedRowsOnce /\ AcceptedWasRecorded
=============================================================================
