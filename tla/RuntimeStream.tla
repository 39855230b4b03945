---------------------------- MODULE RuntimeStream ----------------------------
(***************************************************************************)
(* The recorder of a provider's background stream                          *)
(* (src/xibalba_cortex/perplexity_runtime.py) and the runtime controller   *)
(* it mirrors into (src/xibalba_cortex/runtime_controller.py).             *)
(*                                                                         *)
(* A run has a row and a journal in a database of its own.  Each appended  *)
(* event commits with the cursor, the status and the gap flag it implies,  *)
(* and is then flushed: journalled events not yet delivered are ingested   *)
(* into the memory store, each marked delivered in a transaction of its    *)
(* own, and a terminal run's session is closed.  A lease keeps one worker  *)
(* on the stream; a worker that stalls past the lease, or dies, is         *)
(* followed by another, and cancellation and snapshots take no lease.      *)
(***************************************************************************)
EXTENDS Integers, Sequences, FiniteSets

CONSTANTS
  Streamer,       \* processes that open the journal: command lines, adapters
  MaxSequence,    \* events the provider emits before its last one
  MaxStreamRows,  \* bound on the journal while the run goes on
  MaxLeases       \* bound on lost leases and crashes

ASSUME StreamAssumption == {MaxSequence, MaxStreamRows, MaxLeases} \subseteq Nat

NoOne == "no one"
Terminal == {"completed", "failed", "cancelled", "incomplete"}
Unset == -1                       \* a cursor that is NULL

VARIABLES
  run,            \* the row of runs
  journal,        \* rows of events, in position order
  streamed,       \* positions marked delivered
  mirrored,       \* keys of the events the store holds for the session
  streamSession,  \* "none", "open" or "ended": the mirrored session
  remote,         \* the statuses of the events the provider has emitted
  streamer,       \* program counter and local variables of each process
  mishaps         \* crashes and expired leases so far

streamVars == <<run, journal, streamed, mirrored, streamSession, remote, streamer, mishaps>>

StreamResting == [at |-> "idle", then |-> "idle", seen |-> "none", last |-> Unset,
            seq |-> Unset, rows |-> {}, method |-> "none"]

StreamInit ==
  /\ run = [made |-> FALSE, status |-> "none", response |-> FALSE, cursor |-> Unset,
            gap |-> FALSE, lease |-> NoOne, live |-> FALSE]
  /\ journal = <<>>
  /\ streamed = {}
  /\ mirrored = {}
  /\ streamSession = "none"
  /\ remote = <<>>
  /\ streamer = [w \in Streamer |-> StreamResting]
  /\ mishaps = 0

StreamAt(w, label) == streamer[w].at = label
\* The locals of a call are gone when it returns.
StreamGoto(w, label) ==
  streamer' = [streamer EXCEPT ![w] = IF label = "idle" THEN StreamResting ELSE [@ EXCEPT !.at = label]]
Ended(status) == status \in Terminal

(***************************************************************************)
(* The provider, as its stream is consumed: events 0, 1, ... and a last    *)
(* one with a terminal status.                                             *)
(***************************************************************************)
RemoteStatus == IF remote = <<>> THEN "none" ELSE remote[Len(remote)]

ProviderEmits(status) ==
  /\ remote # <<>> /\ ~Ended(RemoteStatus)
  /\ Ended(status) \/ Len(remote) < MaxSequence
  /\ remote' = Append(remote, status)
  /\ UNCHANGED <<run, journal, streamed, mirrored, streamSession, streamer, mishaps>>

(***************************************************************************)
(* _append: the event, unless its key is there, and what it says of the    *)
(* run, in one transaction.  The status is the one the row has in that     *)
(* transaction and never leaves a terminal one.                            *)
(***************************************************************************)
\* The status an append starts from: the row's, read inside the transaction.
CurrentStatus(w) == run.status

\* Mutant of NextStatus: a late event of a run that ended reopens it.
NextStatusReopened(current, incoming) ==
  IF incoming = "none" \/ (current = "cancelling" /\ ~Ended(incoming))
  THEN current ELSE incoming
NextStatus(current, incoming) ==
  IF incoming = "none" \/ Ended(current)
       \/ (current = "cancelling" /\ ~Ended(incoming))
  THEN current ELSE incoming

Journalled(key) == \E i \in 1..Len(journal) : journal[i].key = key
\* Bound: one row more once the run is being cancelled or has ended, so that
\* late ones arrive.
HasRoomForRow ==
  Len(journal) < MaxStreamRows + (IF Ended(run.status) \/ run.status = "cancelling" THEN 1 ELSE 0)
OwnKey == <<"own", Len(journal)>>          \* a key made with a fresh uuid

RecordStream(w, key, status, seq, gap, then) ==
  /\ Journalled(key) \/ HasRoomForRow
  /\ IF Journalled(key) THEN UNCHANGED <<run, journal>>
     ELSE /\ journal' = Append(journal, [key |-> key, status |-> status])
          /\ run' = [run EXCEPT
               !.cursor = IF seq > @ THEN seq ELSE @,
               !.response = @ \/ seq # Unset,
               !.status = NextStatus(CurrentStatus(w), status),
               !.gap = @ \/ gap,
               !.live = run.lease # NoOne]
  /\ streamer' = [streamer EXCEPT ![w] = [@ EXCEPT !.at = "flush", !.then = then]]
  /\ UNCHANGED <<streamed, mirrored, streamSession, remote, mishaps>>

(***************************************************************************)
(* flush, for whoever appended: the run is read, the session opened, the   *)
(* undelivered rows listed, and each ingested and then marked.             *)
(***************************************************************************)
\* controller.open_session: declares the session, or finds it.
OpenStreamSession == streamSession' = IF streamSession = "none" THEN "open" ELSE streamSession

FlushBegin(w) ==
  /\ StreamAt(w, "flush")
  /\ OpenStreamSession
  /\ streamer' = [streamer EXCEPT ![w] = [@ EXCEPT !.at = "rows", !.seen = run.status]]
  /\ UNCHANGED <<run, journal, streamed, mirrored, remote, mishaps>>

Pending == (1..Len(journal)) \ streamed

FlushRows(w) ==
  /\ StreamAt(w, "rows")
  /\ streamer' = [streamer EXCEPT ![w] = [@ EXCEPT !.at = "ingest", !.rows = Pending]]
  /\ UNCHANGED <<run, journal, streamed, mirrored, streamSession, remote, mishaps>>

\* The listed rows are delivered in the order of their positions.
NextRow(w) == CHOOSE i \in streamer[w].rows : \A j \in streamer[w].rows : i <= j

\* controller.ingest_event: idempotent by the event's key.
IngestEvent(w) ==
  /\ StreamAt(w, "ingest") /\ streamer[w].rows # {}
  /\ mirrored' = mirrored \union {journal[NextRow(w)].key}
  /\ StreamGoto(w, "mark")
  /\ UNCHANGED <<run, journal, streamed, streamSession, remote, mishaps>>

FlushMark(w) ==
  /\ StreamAt(w, "mark")
  /\ streamed' = streamed \union {NextRow(w)}
  /\ streamer' = [streamer EXCEPT ![w] = [@ EXCEPT !.at = "ingest", !.rows = streamer[w].rows \ {NextRow(w)}]]
  /\ UNCHANGED <<run, journal, mirrored, streamSession, remote, mishaps>>

\* Whether a flush closes: by the run as the flush read it at its start.
Closes(w) == Ended(streamer[w].seen)

FlushEnd(w) ==
  /\ StreamAt(w, "ingest") /\ streamer[w].rows = {}
  /\ streamSession' = IF Closes(w) THEN "ended" ELSE streamSession
  /\ StreamGoto(w, streamer[w].then)
  /\ UNCHANGED <<run, journal, streamed, mirrored, remote, mishaps>>

(***************************************************************************)
(* start: the row and the request are journalled before the one creation   *)
(* request.  resume: flush, then go on from the cursor as first read; a    *)
(* run with no response id is never created again.                         *)
(***************************************************************************)
StartStream(w) ==
  /\ StreamAt(w, "idle") /\ ~run.made
  /\ run' = [run EXCEPT !.made = TRUE, !.status = "launching"]
  /\ streamer' = [streamer EXCEPT ![w] = [StreamResting EXCEPT !.at = "request", !.seen = "launching",
                                                         !.method = "POST"]]
  /\ UNCHANGED <<journal, streamed, mirrored, streamSession, remote, mishaps>>

AppendRequest(w) ==
  StreamAt(w, "request") /\ RecordStream(w, <<"request">>, "launching", Unset, FALSE, "lease")

Resume(w) ==
  /\ StreamAt(w, "idle") /\ run.made
  /\ streamer' = [streamer EXCEPT ![w] = [StreamResting EXCEPT
                    !.at = "flush", !.last = run.cursor, !.seen = run.status, !.method = "GET",
                    !.then = IF Ended(run.status) \/ ~run.response THEN "idle" ELSE "lease"]]
  /\ UNCHANGED <<run, journal, streamed, mirrored, streamSession, remote, mishaps>>

(***************************************************************************)
(* _consume: take the lease, open the stream, read it event by event.      *)
(***************************************************************************)
TakeLease(w) ==
  /\ StreamAt(w, "lease")
  /\ IF run.live
     THEN StreamGoto(w, "idle") /\ UNCHANGED run
     ELSE StreamGoto(w, "connect") /\ run' = [run EXCEPT !.lease = w, !.live = TRUE]
  /\ UNCHANGED <<journal, streamed, mirrored, streamSession, remote, mishaps>>

\* The request is answered by a stream, refused, or lost after it arrived.
ConnectStream(w) ==
  /\ StreamAt(w, "connect")
  /\ \/ /\ remote' = IF streamer[w].method = "POST" THEN <<"in_progress">> ELSE remote
        /\ StreamGoto(w, "stream") \/ StreamGoto(w, "fail")
     \/ /\ streamer[w].method = "GET"       \* 400: the events are no longer kept
        /\ StreamGoto(w, "refused")
        /\ UNCHANGED remote
     \/ StreamGoto(w, "fail") /\ UNCHANGED remote
  /\ UNCHANGED <<run, journal, streamed, mirrored, streamSession, mishaps>>

Refused(w) == StreamAt(w, "refused") /\ RecordStream(w, OwnKey, "none", Unset, TRUE, "snapshot")

\* pulse, before each line: the lease is renewed if it is still this one's.
ReadLine(w, s) ==
  /\ StreamAt(w, "stream")
  /\ IF run.lease # w
     THEN StreamGoto(w, "fail") /\ UNCHANGED run
     ELSE /\ s > streamer[w].last /\ s < Len(remote)
          /\ streamer[w].last = Unset => s = 0
          /\ run' = [run EXCEPT !.live = TRUE]
          /\ streamer' = [streamer EXCEPT ![w] = [@ EXCEPT !.at = "event", !.last = s, !.seq = s,
                                                             !.seen = run.status]]
  /\ UNCHANGED <<journal, streamed, mirrored, streamSession, remote, mishaps>>

\* _provider_event reads the run: a sequence further than one past its
\* cursor is journalled as a gap first.
Skips(seq) == run.cursor # Unset /\ seq > run.cursor + 1

ProviderEvent(w) ==
  /\ StreamAt(w, "event")
  /\ IF Skips(streamer[w].seq) /\ ~Journalled(<<"seq", streamer[w].seq>>)
     THEN RecordStream(w, <<"gap", streamer[w].seq>>, "none", Unset, TRUE, "accept")
     ELSE /\ StreamGoto(w, "accept")
          /\ UNCHANGED <<run, journal, streamed, mirrored, streamSession, remote, mishaps>>

AcceptEvent(w) ==
  /\ StreamAt(w, "accept")
  /\ LET s == streamer[w].seq IN RecordStream(w, <<"seq", s>>, remote[s + 1], s, FALSE, "stream")

\* The body ends, with or without a terminal event, or the reader leaves.
StreamEnds(w) ==
  /\ StreamAt(w, "stream")
  /\ StreamGoto(w, IF Ended(run.status) THEN "release" ELSE "interrupt")
  /\ UNCHANGED <<run, journal, streamed, mirrored, streamSession, remote, mishaps>>

Interrupted(w) == StreamAt(w, "interrupt") /\ RecordStream(w, OwnKey, "interrupted", Unset, FALSE, "release")

\* A transport error, a refused status or a lost lease.
TransportError(w) ==
  StreamAt(w, "fail") /\ RecordStream(w, OwnKey, IF Ended(run.status) THEN "none" ELSE "interrupted",
                          Unset, FALSE, "release")

Release(w) ==
  /\ StreamAt(w, "release")
  /\ run' = IF run.lease = w THEN [run EXCEPT !.lease = NoOne, !.live = FALSE] ELSE run
  /\ StreamGoto(w, "idle")
  /\ UNCHANGED <<journal, streamed, mirrored, streamSession, remote, mishaps>>

(***************************************************************************)
(* snapshot and cancel: a request by response id, whose answer is appended *)
(* when it arrives; no lease is taken.  A snapshot that replaces a refused *)
(* resume runs inside _consume and releases its lease at the end.          *)
(***************************************************************************)
Holding(w) == IF streamer[w].method = "GET" THEN "release" ELSE "idle"

AskSnapshot(w) ==
  /\ StreamAt(w, "idle") \/ StreamAt(w, "snapshot")
  /\ run.response
  /\ streamer' = [streamer EXCEPT ![w] = [@ EXCEPT !.at = "answer", !.seen = RemoteStatus,
                    !.method = IF StreamAt(w, "idle") THEN "none" ELSE streamer[w].method]]
  /\ UNCHANGED <<run, journal, streamed, mirrored, streamSession, remote, mishaps>>

Snapshot(w) ==
  /\ StreamAt(w, "answer")
  /\ RecordStream(w, <<"snapshot", streamer[w].seen>>, streamer[w].seen, Unset, FALSE, Holding(w))

AskCancel(w) ==
  /\ StreamAt(w, "idle") /\ run.response /\ ~Ended(run.status) /\ ~Ended(RemoteStatus)
  /\ streamer' = [streamer EXCEPT ![w] = [@ EXCEPT !.at = "cancelled", !.method = "none",
                                                     !.seen = run.status]]
  /\ \/ remote' = Append(remote, "cancelled")      \* cancelled at once, or later
     \/ UNCHANGED remote
  /\ UNCHANGED <<run, journal, streamed, mirrored, streamSession, mishaps>>

Cancel(w) ==
  /\ StreamAt(w, "cancelled")
  /\ RecordStream(w, OwnKey, IF RemoteStatus = "cancelled" THEN "cancelled" ELSE "cancelling",
            Unset, FALSE, "idle")

\* The lease runs out under a worker that stalls, or after one that died.
LeaseExpires ==
  /\ run.live /\ mishaps < MaxLeases
  /\ run' = [run EXCEPT !.live = FALSE]
  /\ mishaps' = mishaps + 1
  /\ UNCHANGED <<journal, streamed, mirrored, streamSession, remote, streamer>>

StreamerDies(w) ==
  /\ ~StreamAt(w, "idle") /\ mishaps < MaxLeases
  /\ streamer' = [streamer EXCEPT ![w] = StreamResting]
  /\ mishaps' = mishaps + 1
  /\ UNCHANGED <<run, journal, streamed, mirrored, streamSession, remote>>

StreamNext ==
  \/ \E status \in {"in_progress", "completed", "failed"} : ProviderEmits(status)
  \/ LeaseExpires
  \/ \E w \in Streamer :
       \/ StartStream(w) \/ AppendRequest(w) \/ Resume(w) \/ TakeLease(w) \/ ConnectStream(w) \/ Refused(w)
       \/ \E s \in 0..MaxSequence : ReadLine(w, s)
       \/ ProviderEvent(w) \/ AcceptEvent(w) \/ StreamEnds(w) \/ Interrupted(w)
       \/ TransportError(w) \/ Release(w)
       \/ AskSnapshot(w) \/ Snapshot(w) \/ AskCancel(w) \/ Cancel(w)
       \/ FlushBegin(w) \/ FlushRows(w) \/ IngestEvent(w) \/ FlushMark(w) \/ FlushEnd(w)
       \/ StreamerDies(w)

StreamSpec == StreamInit /\ [][StreamNext]_streamVars

-----------------------------------------------------------------------------
\* The rows, sets and program counters have the shapes the code gives them.
StreamTypeOK ==
  /\ run.cursor \in Unset..MaxSequence /\ run.lease \in Streamer \union {NoOne}
  /\ run.status \in Terminal \union {"none", "launching", "in_progress", "interrupted",
                                     "cancelling"}
  /\ Len(journal) <= MaxStreamRows + 1 /\ streamed \subseteq 1..Len(journal)
  /\ mirrored \subseteq {journal[i].key : i \in 1..Len(journal)}
  /\ streamSession \in {"none", "open", "ended"} /\ mishaps \in 0..MaxLeases

\* A run that reached a terminal status keeps it, and a cancelling one only
\* becomes terminal, whatever a stale stream, snapshot, cancellation or error
\* path appends later (_next_status inside the transaction of _append).
StatusOnlyAdvances ==
  [][/\ Ended(run.status) => run'.status = run.status
     /\ run.status = "cancelling" => run'.status \in Terminal \union {"cancelling"}]_streamVars

\* Every provider sequence up to the cursor is in the journal, or the run
\* says its capture has a gap: resuming after the cursor loses nothing unseen
\* (_provider_event and _append).
NoSilentGap ==
  run.gap \/ \A s \in 0..run.cursor : Journalled(<<"seq", s>>)

\* A session is closed only when the store holds every event journalled up to
\* the terminal one, and an event is never marked delivered before the store
\* has it, across crashes and concurrent flushes (flush).
MirroredBeforeClose ==
  /\ \A i \in streamed : journal[i].key \in mirrored
  /\ streamSession = "ended" =>
       \E last \in 1..Len(journal) :
         /\ Ended(journal[last].status)
         /\ \A i \in 1..last : journal[i].key \in mirrored

(***************************************************************************)
(* A run is journalled without silent gaps, ends once and is mirrored      *)
(* whole.                                                                  *)
(***************************************************************************)
StreamHolds == StatusOnlyAdvances /\ []NoSilentGap /\ []MirroredBeforeClose
=============================================================================
