---------------------------- MODULE StoresProofs -----------------------------
(*************************************************************************)
(* Proofs about RuntimeStream, RuntimeSessions, CodexBackfill,           *)
(* HookWatermark, StoreFiles and TelemetryIngest, for any number of      *)
(* processes, events, mishaps, sessions, agents, batches and rows: a run *)
(* is journalled without silent gaps, ends once and is mirrored whole; a *)
(* session stays its agent's, and an invocation keeps its outcome;       *)
(* collectors make nothing up; upgrades and restores lose no row and     *)
(* leave no reader behind; telemetry counts once.  With KnowledgeProofs  *)
(* they give what MCStores states of all parts together.                 *)
(*************************************************************************)
EXTENDS MCStores, KnowledgeProofs, FiniteSetTheorems, SequenceTheorems, WellFoundedInduction, TLAPS

-----------------------------------------------------------------------------
(* RuntimeStream: the inductive invariant *)

StreamStatus == Terminal \cup {"none", "launching", "in_progress", "interrupted", "cancelling"}
StreamPlace ==
    {"idle", "request", "flush", "rows", "ingest", "mark", "lease", "connect", "refused", "snapshot",
     "stream", "event", "accept", "interrupt", "fail", "release", "answer", "cancelled"}
AfterFlush == {"lease", "snapshot", "accept", "stream", "release", "idle"}    \* where a flush returns to
Sequence == 0 .. MaxSequence
RowKey == {<<"request">>} \cup ({"seq", "gap"} \X Sequence) \cup ({"own"} \X Nat)
          \cup ({"snapshot"} \X StreamStatus)

RunRow   == [made : BOOLEAN, status : StreamStatus, response : BOOLEAN, cursor : Unset .. MaxSequence,
             gap : BOOLEAN, lease : Streamer \cup {NoOne}, live : BOOLEAN]
EventRow == [key : RowKey, status : StreamStatus]
StreamerState ==
    [at : StreamPlace, then : AfterFlush, seen : StreamStatus, last : Unset .. MaxSequence,
     seq : Unset .. MaxSequence, rows : SUBSET Nat, method : {"none", "POST", "GET"}]

RecorderTypes ==
    /\ run \in RunRow /\ journal \in Seq(EventRow) /\ remote \in Seq(StreamStatus)
    /\ Len(journal) <= MaxStreamRows + 1
    /\ streamed \subseteq 1 .. Len(journal)
    /\ mirrored \subseteq {journal[i].key : i \in 1 .. Len(journal)}
    /\ streamSession \in {"none", "open", "ended"}
    /\ mishaps \in 0 .. MaxLeases

\* The journal says of the run what its row says.
HasEnd == \E last \in 1 .. Len(journal) : Ended(journal[last].status)
JournalFits ==
    /\ \A s \in Sequence : /\ Journalled(<<"seq", s>>) => s <= run.cursor
                           /\ Journalled(<<"gap", s>>) => run.gap
    /\ NoSilentGap
    /\ run.status # "none" => run.made
    /\ (run.response => remote # <<>>) /\ (remote # <<>> => run.made)
    /\ Ended(run.status) => HasEnd

\* The events of a run up to its end are in the store or in these rows.
WholeBut(rows) ==
    \E last \in 1 .. Len(journal) :
        /\ Ended(journal[last].status)
        /\ \A i \in 1 .. last : i \in rows \/ journal[i].key \in mirrored

\* Where a worker is, or goes when its flush is done.
Flushing(x) == x.at \in {"flush", "rows", "ingest", "mark"}
Onto(x) == IF Flushing(x) THEN x.then ELSE x.at
\* The worker that started the run has its one creation request to send.
ToCreate(x) == x.method = "POST" /\ Onto(x) \in {"request", "lease", "connect"}

ReadingFits(x) ==
    /\ Onto(x) \in {"request", "lease", "connect", "stream"} => x.last <= run.cursor
    /\ Onto(x) \in {"event", "accept"} =>
          /\ x.seq \in Sequence /\ x.last = x.seq /\ x.seq < Len(remote)
          /\ run.cursor = Unset => x.seq = 0
    /\ Onto(x) = "accept" => run.gap \/ x.seq <= run.cursor + 1

FlushFits(w) ==
    /\ streamer[w].at \in {"ingest", "mark"} => streamer[w].rows \subseteq 1 .. Len(journal)
    /\ streamer[w].at = "mark" =>
          streamer[w].rows # {} /\ journal[NextRow(w)].key \in mirrored
    /\ streamer[w].at \in {"rows", "ingest", "mark"} /\ Ended(streamer[w].seen) => HasEnd
    /\ streamer[w].at \in {"ingest", "mark"} /\ Ended(streamer[w].seen) => WholeBut(streamer[w].rows)

StreamerFits(w) ==
    /\ streamer[w].at # "idle" => run.made
    /\ ReadingFits(streamer[w]) /\ FlushFits(w)
    /\ ToCreate(streamer[w]) => remote = <<>>

OneCreator == \A v, w \in Streamer : ToCreate(streamer[v]) /\ ToCreate(streamer[w]) => v = w

StreamInv ==
    /\ RecorderTypes /\ streamer \in [Streamer -> StreamerState]
    /\ JournalFits /\ MirroredBeforeClose /\ OneCreator
    /\ \A w \in Streamer : StreamerFits(w)

-----------------------------------------------------------------------------
(* What grows, and what may be relied on because of it *)

\* A recorder never takes back what it wrote.
Grows ==
    /\ run.made => run'.made
    /\ run.cursor <= run'.cursor /\ (run.gap => run'.gap)
    /\ Len(journal) <= Len(journal') /\ \A i \in 1 .. Len(journal) : journal'[i] = journal[i]
    /\ mirrored \subseteq mirrored' /\ Len(remote) <= Len(remote')

LEMMA StreamFacts ==
    ASSUME StreamInv
    PROVE  /\ run \in RunRow /\ run.cursor \in Unset .. MaxSequence /\ run.cursor \in Int
           /\ journal \in Seq(EventRow) /\ Len(journal) \in Nat
           /\ remote \in Seq(StreamStatus) /\ Len(remote) \in Nat
           /\ DOMAIN journal = 1 .. Len(journal)
           /\ \A w \in Streamer : streamer[w] \in StreamerState /\ streamer[w].rows \subseteq Nat
           /\ MaxSequence \in Nat /\ MaxStreamRows \in Nat /\ MaxLeases \in Nat
<1>1. run \in RunRow /\ journal \in Seq(EventRow) /\ remote \in Seq(StreamStatus)
      /\ streamer \in [Streamer -> StreamerState]
  BY DEF StreamInv, RecorderTypes
<1>2. run.cursor \in Unset .. MaxSequence /\ MaxSequence \in Nat /\ MaxStreamRows \in Nat /\ MaxLeases \in Nat
  BY <1>1, StreamAssumption DEF RunRow
<1>3. run.cursor \in Int
  BY <1>2 DEF Unset
<1>4. \A w \in Streamer : streamer[w].rows \subseteq Nat
  BY <1>1 DEF StreamerState
<1>5. QED
  BY <1>1, <1>2, <1>3, <1>4

\* The rows of a flush have a first one.
LEMMA FirstRow ==
    ASSUME NEW w \in Streamer, streamer[w].rows \subseteq Nat, streamer[w].rows # {}
    PROVE  NextRow(w) \in streamer[w].rows
<1>1. PICK i \in streamer[w].rows : \A j \in streamer[w].rows : ~(<<j, i>> \in OpToRel(<, Nat))
  BY NatLessThanWellFounded, WFMin
<1>2. \A j \in streamer[w].rows : ~(j < i)
  BY <1>1 DEF OpToRel
<1>3. \A j \in streamer[w].rows : i <= j
  BY <1>2
<1>4. QED
  BY <1>3 DEF NextRow

LEMMA OthersKept ==
    ASSUME StreamInv, NEW v \in Streamer, streamer'[v] = streamer[v], Grows, run' \in RunRow,
           remote' \in Seq(StreamStatus), journal' \in Seq(EventRow),
           ToCreate(streamer[v]) => remote' = remote
    PROVE  StreamerFits(v)'
<1>1. StreamerFits(v)
  BY DEF StreamInv
<1>2. run'.cursor \in Int /\ run.cursor \in Int /\ Len(remote) \in Nat /\ Len(remote') \in Nat
      /\ Len(journal) \in Nat /\ Len(journal') \in Nat /\ streamer[v] \in StreamerState
      /\ streamer[v].last \in Int /\ streamer[v].seq \in Int
      /\ run.cursor >= Unset /\ run'.cursor >= Unset
  <2>1. /\ streamer[v] \in StreamerState /\ Len(journal) \in Nat /\ Len(remote) \in Nat /\ MaxSequence \in Nat
        /\ run.cursor \in Unset .. MaxSequence
    BY StreamFacts
  <2>2. run'.cursor \in Unset .. MaxSequence
    BY DEF RunRow
  <2>3. streamer[v].last \in Unset .. MaxSequence /\ streamer[v].seq \in Unset .. MaxSequence
    BY <2>1 DEF StreamerState
  <2>4. Len(journal') \in Nat /\ Len(remote') \in Nat
    BY LenProperties
  <2>5. QED
    BY <2>1, <2>2, <2>3, <2>4 DEF Unset
<1>3. 1 .. Len(journal) \subseteq 1 .. Len(journal')
  BY <1>2 DEF Grows
<1>4. HasEnd => HasEnd'
  BY <1>3 DEF HasEnd, Grows
<1>5. WholeBut(streamer[v].rows) => WholeBut(streamer[v].rows)'
  <2>1. SUFFICES ASSUME WholeBut(streamer[v].rows) PROVE WholeBut(streamer[v].rows)'
    OBVIOUS
  <2>2. PICK last \in 1 .. Len(journal) :
            /\ Ended(journal[last].status)
            /\ \A i \in 1 .. last : i \in streamer[v].rows \/ journal[i].key \in mirrored
    BY <2>1 DEF WholeBut
  <2>3. \A i \in 1 .. last : i \in 1 .. Len(journal)
    BY <1>2
  <2>4. last \in 1 .. Len(journal') /\ Ended(journal'[last].status)
        /\ \A i \in 1 .. last : i \in streamer'[v].rows \/ journal'[i].key \in mirrored'
    BY <1>3, <2>2, <2>3 DEF Grows
  <2>5. QED
    BY <2>4 DEF WholeBut
<1>6. streamer[v].at = "mark" =>
          streamer[v].rows # {} /\ journal'[NextRow(v)].key \in mirrored' /\ NextRow(v)' = NextRow(v)
  <2>1. NextRow(v)' = NextRow(v)
    BY DEF NextRow
  <2>2. streamer[v].at = "mark" => NextRow(v) \in 1 .. Len(journal)
    BY <1>1, <1>2, StreamFacts, FirstRow DEF StreamerFits, FlushFits
  <2>3. QED
    BY <1>1, <2>1, <2>2 DEF StreamerFits, FlushFits, Grows
<1>7. FlushFits(v)'
  BY <1>1, <1>3, <1>4, <1>5, <1>6 DEF StreamerFits, FlushFits
<1>8. ReadingFits(streamer[v])'
  <2>1. PICK x \in StreamerState : x = streamer[v] /\ x = streamer'[v] /\ ReadingFits(x)
    BY <1>1, <1>2 DEF StreamerFits
  <2>2. /\ run.cursor <= run'.cursor /\ Len(remote) <= Len(remote') /\ (run.gap => run'.gap)
        /\ x.last \in Int /\ x.seq \in Int
    BY <1>2, <2>1 DEF Grows
  <2>3. Onto(x) \in {"request", "lease", "connect", "stream"} => x.last <= run'.cursor
    BY <1>2, <2>1, <2>2 DEF ReadingFits
  <2>4. Onto(x) \in {"event", "accept"} =>
            /\ x.seq \in Sequence /\ x.last = x.seq /\ x.seq < Len(remote')
            /\ run'.cursor = Unset => x.seq = 0
    BY <1>2, <2>1, <2>2 DEF ReadingFits, Unset
  <2>5. Onto(x) = "accept" => run'.gap \/ x.seq <= run'.cursor + 1
    BY <1>2, <2>1, <2>2 DEF ReadingFits
  <2>6. QED
    BY <2>1, <2>3, <2>4, <2>5 DEF ReadingFits, Onto
<1>9. QED
  BY <1>1, <1>7, <1>8 DEF StreamerFits, Grows

\* One worker goes on to a place that fits.
LEMMA OneMoves ==
    ASSUME StreamInv, NEW w \in Streamer, NEW r \in StreamerState, streamer' = [streamer EXCEPT ![w] = r],
           Grows, RecorderTypes', JournalFits', MirroredBeforeClose',
           StreamerFits(w)',
           ToCreate(r) => ToCreate(streamer[w]) \/ \A v \in Streamer : ~ToCreate(streamer[v]),
           \A v \in Streamer : v # w /\ ToCreate(streamer[v]) => remote' = remote
    PROVE  StreamInv'
<1>1. streamer' \in [Streamer -> StreamerState] /\ streamer'[w] = r
      /\ \A v \in Streamer : v # w => streamer'[v] = streamer[v]
  BY DEF StreamInv
<1>2. \A v \in Streamer : v # w => StreamerFits(v)'
  BY <1>1, OthersKept DEF RecorderTypes
<1>3. OneCreator'
  BY <1>1 DEF StreamInv, OneCreator
<1>4. QED
  BY <1>1, <1>2, <1>3 DEF StreamInv

-----------------------------------------------------------------------------
(* What a step does to the journal and the store *)

LEMMA JournalQuiet ==
    ASSUME StreamInv, run' \in RunRow, run'.made = run.made, run'.status = run.status,
           run'.response = run.response, run'.cursor = run.cursor, run'.gap = run.gap,
           UNCHANGED <<journal, streamed, mirrored, streamSession, remote>>,
           mishaps' \in 0 .. MaxLeases
    PROVE  Grows /\ RecorderTypes' /\ JournalFits' /\ MirroredBeforeClose'
<1>1. Grows
  BY StreamFacts DEF Grows
<1>2. RecorderTypes'
  BY DEF StreamInv, RecorderTypes
<1>3. JournalFits'
  BY DEF StreamInv, JournalFits, Journalled, NoSilentGap, HasEnd
<1>4. MirroredBeforeClose'
  BY DEF StreamInv, MirroredBeforeClose
<1>5. QED
  BY <1>1, <1>2, <1>3, <1>4

\* The transaction of _append: a row with what it implies, or nothing.
LEMMA RecordData ==
    ASSUME StreamInv, NEW w \in Streamer, NEW key \in RowKey, NEW status \in StreamStatus,
           NEW seq \in Unset .. MaxSequence, NEW gap \in BOOLEAN, NEW then,
           RecordStream(w, key, status, seq, gap, then), run.made,
           \A s \in Sequence : /\ key = <<"seq", s>> => s = seq
                               /\ key = <<"gap", s>> => gap,
           seq # Unset => /\ key = <<"seq", seq>> /\ remote # <<>>
                          /\ run.gap \/ seq <= run.cursor + 1
    PROVE  /\ Grows /\ RecorderTypes' /\ JournalFits' /\ MirroredBeforeClose'
           /\ Journalled(key)' /\ (gap /\ ~Journalled(key) => run'.gap)
           /\ run'.cursor = (IF ~Journalled(key) /\ seq > run.cursor THEN seq ELSE run.cursor)
<1>1. /\ run \in RunRow /\ journal \in Seq(EventRow) /\ Len(journal) \in Nat
      /\ run.cursor \in Unset .. MaxSequence /\ run.cursor \in Int /\ seq \in Int /\ MaxSequence \in Nat
      /\ MaxStreamRows \in Nat
  BY StreamFacts DEF Unset
<1>2. UNCHANGED <<streamed, mirrored, streamSession, remote, mishaps>>
  BY DEF RecordStream
<1>3. CASE Journalled(key)
  <2>1. run' = run /\ journal' = journal
    BY <1>3 DEF RecordStream
  <2>2. Grows /\ RecorderTypes' /\ JournalFits' /\ MirroredBeforeClose'
    BY <1>1, <1>2, <2>1, JournalQuiet DEF StreamInv, RecorderTypes
  <2>3. QED
    BY <1>3, <2>1, <2>2 DEF Journalled
<1>4. CASE ~Journalled(key)
  <2> DEFINE entry == [key |-> key, status |-> status]
  <2>1. /\ journal' = Append(journal, entry) /\ HasRoomForRow
        /\ run' = [run EXCEPT !.cursor = IF seq > @ THEN seq ELSE @,
                              !.response = @ \/ seq # Unset,
                              !.status = NextStatus(run.status, status),
                              !.gap = @ \/ gap,
                              !.live = run.lease # NoOne]
    BY <1>4 DEF RecordStream, CurrentStatus
  <2>2. entry \in EventRow /\ entry.key = key /\ entry.status = status
    BY DEF EventRow
  <2> HIDE DEF entry
  <2>3. /\ journal' \in Seq(EventRow) /\ Len(journal') = Len(journal) + 1
        /\ journal'[Len(journal) + 1] = entry
        /\ \A i \in 1 .. Len(journal) : journal'[i] = journal[i]
    BY <1>1, <2>1, <2>2
  <2>4. \A i \in 1 .. Len(journal') : i \in 1 .. Len(journal) \/ i = Len(journal) + 1
    BY <1>1, <2>3
  <2>5. 1 .. Len(journal) \subseteq 1 .. Len(journal') /\ Len(journal) + 1 \in 1 .. Len(journal')
    BY <1>1, <2>3
  <2>6. \A k \in RowKey : Journalled(k)' <=> Journalled(k) \/ k = key
    BY <2>2, <2>3, <2>4, <2>5 DEF Journalled
  <2>7. NextStatus(run.status, status) \in StreamStatus
    BY <1>1 DEF NextStatus, RunRow
  <2>8. (IF seq > run.cursor THEN seq ELSE run.cursor) \in Unset .. MaxSequence
    BY <1>1
  <2>9. /\ run' \in RunRow /\ run'.made = run.made
        /\ run'.cursor = (IF seq > run.cursor THEN seq ELSE run.cursor)
        /\ run'.status = NextStatus(run.status, status)
        /\ (run'.gap <=> (run.gap \/ gap)) /\ (run'.response <=> (run.response \/ seq # Unset))
    <3>1. PICK cursor, state, response, marked, live :
              /\ run' = [run EXCEPT !.cursor = cursor, !.response = response, !.status = state,
                                    !.gap = marked, !.live = live]
              /\ cursor = (IF seq > run.cursor THEN seq ELSE run.cursor)
              /\ state = NextStatus(run.status, status)
              /\ response = (run.response \/ seq # Unset) /\ marked = (run.gap \/ gap)
              /\ live = (run.lease # NoOne)
      BY <2>1
    <3>2. cursor \in Unset .. MaxSequence /\ state \in StreamStatus
      BY <2>7, <2>8, <3>1
    <3>3. response \in BOOLEAN /\ marked \in BOOLEAN /\ live \in BOOLEAN
      BY <3>1
    <3>4. run' = [run EXCEPT !.cursor = cursor, !.response = response, !.status = state,
                             !.gap = marked, !.live = live]
      BY <3>1
    <3>5. run \in RunRow
      BY <1>1
    <3>6. run' \in RunRow
      BY <3>2, <3>3, <3>4, <3>5 DEF RunRow
    <3>7. run'.made = run.made /\ run'.cursor = cursor /\ run'.status = state
      BY <3>4, <3>5 DEF RunRow
    <3>8. run'.gap = marked /\ run'.response = response
      BY <3>4, <3>5 DEF RunRow
    <3>9. QED
      BY <3>1, <3>6, <3>7, <3>8
  <2>10. Grows
    <3>1. run.cursor <= run'.cursor
      BY <1>1, <2>9
    <3>2. Len(remote) <= Len(remote') /\ Len(journal) <= Len(journal')
      BY <1>1, <1>2, <2>3, StreamFacts
    <3>3. QED
      BY <1>2, <2>3, <2>9, <3>1, <3>2 DEF Grows
  <2>11. RecorderTypes'
    <3>1. Len(journal') <= MaxStreamRows + 1
      BY <1>1, <2>1, <2>3 DEF HasRoomForRow
    <3>2. mirrored' \subseteq {journal'[i].key : i \in 1 .. Len(journal')}
      BY <1>2, <2>3, <2>5 DEF StreamInv, RecorderTypes
    <3>3. streamed' \subseteq 1 .. Len(journal')
      BY <1>2, <2>5 DEF StreamInv, RecorderTypes
    <3>4. QED
      BY <1>2, <2>3, <2>9, <3>1, <3>2, <3>3 DEF StreamInv, RecorderTypes
  <2>12. ASSUME NEW s \in Sequence
         PROVE  /\ <<"seq", s>> \in RowKey /\ <<"gap", s>> \in RowKey /\ s \in Int
                /\ Journalled(<<"seq", s>>) => s <= run.cursor
                /\ Journalled(<<"gap", s>>) => run.gap
    BY <1>1 DEF StreamInv, JournalFits, RowKey, Sequence
  <2>13. ASSUME NEW s \in Sequence
         PROVE  /\ Journalled(<<"seq", s>>)' => s <= run'.cursor
                /\ Journalled(<<"gap", s>>)' => run'.gap
    <3>1. /\ Journalled(<<"seq", s>>)' <=> Journalled(<<"seq", s>>) \/ <<"seq", s>> = key
          /\ Journalled(<<"gap", s>>)' <=> Journalled(<<"gap", s>>) \/ <<"gap", s>> = key
      BY <2>6, <2>12
    <3>2. <<"seq", s>> = key => s <= run'.cursor
      BY <1>1, <2>9, <2>12
    <3>3. s <= run.cursor => s <= run'.cursor
      <4>1. s \in Int /\ run.cursor <= run'.cursor /\ run'.cursor \in Int
        BY <1>1, <2>9 DEF Sequence
      <4>2. QED
        BY <1>1, <4>1
    <3>4. <<"gap", s>> = key => run'.gap
      BY <2>9
    <3>5. run.gap => run'.gap
      BY <2>9
    <3>6. QED
      BY <2>12, <3>1, <3>2, <3>3, <3>4, <3>5
  <2>14. NoSilentGap'
    <3>1. SUFFICES ASSUME ~run'.gap, NEW s \in 0 .. run'.cursor
                   PROVE  Journalled(<<"seq", s>>)'
      BY DEF NoSilentGap
    <3>2. s \in Sequence /\ <<"seq", s>> \in RowKey /\ ~run.gap
      <4>1. run'.cursor \in Unset .. MaxSequence
        BY <2>8, <2>9
      <4>2. s \in Sequence
        BY <1>1, <4>1 DEF Sequence, Unset
      <4>3. QED
        BY <2>9, <2>12, <3>1, <4>2
    <3>3. CASE s <= run.cursor
      BY <1>1, <2>6, <3>1, <3>2, <3>3 DEF StreamInv, JournalFits, NoSilentGap
    <3>4. CASE s > run.cursor
      <4>1. seq # Unset /\ s = seq
        BY <1>1, <2>9, <3>1, <3>2, <3>4 DEF Unset
      <4>2. QED
        BY <2>6, <3>2, <4>1
    <3>5. QED
      BY <1>1, <3>2, <3>3, <3>4 DEF Sequence
  <2>15. Ended(run'.status) => HasEnd'
    <3>1. CASE Ended(run.status)
      BY <2>3, <2>5, <3>1 DEF StreamInv, JournalFits, HasEnd
    <3>2. CASE ~Ended(run.status) /\ Ended(run'.status)
      <4>1. run'.status = status
        BY <2>9, <3>2 DEF NextStatus
      <4>2. QED
        BY <2>2, <2>3, <2>5, <3>2, <4>1 DEF HasEnd
    <3>3. QED
      BY <3>1, <3>2
  <2>16. JournalFits'
    BY <1>2, <2>9, <2>13, <2>14, <2>15 DEF StreamInv, JournalFits
  <2>17. MirroredBeforeClose'
    <3>1. \A i \in streamed' : journal'[i].key \in mirrored'
      BY <1>2, <2>3 DEF StreamInv, RecorderTypes, MirroredBeforeClose
    <3>2. ASSUME streamSession' = "ended"
          PROVE  \E last \in 1 .. Len(journal') :
                    /\ Ended(journal'[last].status)
                    /\ \A i \in 1 .. last : journal'[i].key \in mirrored'
      <4>1. PICK last \in 1 .. Len(journal) :
                /\ Ended(journal[last].status)
                /\ \A i \in 1 .. last : journal[i].key \in mirrored
        BY <1>2, <3>2 DEF StreamInv, MirroredBeforeClose
      <4>2. \A i \in 1 .. last : i \in 1 .. Len(journal)
        BY <1>1
      <4>3. QED
        BY <1>2, <2>3, <2>5, <4>1, <4>2
    <3>3. QED
      BY <3>1, <3>2 DEF MirroredBeforeClose
  <2>18. QED
    BY <1>4, <2>2, <2>3, <2>5, <2>9, <2>10, <2>11, <2>16, <2>17 DEF Journalled
<1>5. QED
  BY <1>3, <1>4

\* The provider goes on, or answers; the recorder's own rows stay.
LEMMA RemoteGrows ==
    ASSUME StreamInv, remote' \in Seq(StreamStatus), Len(remote) <= Len(remote'), run.made \/ remote' = remote,
           UNCHANGED <<run, journal, streamed, mirrored, streamSession, mishaps>>
    PROVE  Grows /\ RecorderTypes' /\ JournalFits' /\ MirroredBeforeClose'
<1>1. Grows
  BY StreamFacts DEF Grows
<1>2. RecorderTypes'
  BY DEF StreamInv, RecorderTypes
<1>3. run.response => remote' # <<>>
  <2>1. run.response => Len(remote) > 0
    BY StreamFacts DEF StreamInv, JournalFits
  <2>2. Len(remote') \in Nat /\ Len(remote) \in Nat
    BY StreamFacts
  <2>3. QED
    BY <2>1, <2>2
<1>4. JournalFits'
  BY <1>3 DEF StreamInv, JournalFits, Journalled, NoSilentGap, HasEnd
<1>5. MirroredBeforeClose'
  BY DEF StreamInv, MirroredBeforeClose
<1>6. QED
  BY <1>1, <1>2, <1>4, <1>5

\* Nobody moves: the worker's facts survive what the others do.
LEMMA NobodyMoves ==
    ASSUME StreamInv, UNCHANGED streamer, Grows, RecorderTypes', JournalFits', MirroredBeforeClose',
           \A v \in Streamer : ToCreate(streamer[v]) => remote' = remote
    PROVE  StreamInv'
<1>1. \A v \in Streamer : StreamerFits(v)'
  BY OthersKept DEF RecorderTypes
<1>2. OneCreator' /\ streamer' \in [Streamer -> StreamerState]
  BY DEF StreamInv, OneCreator
<1>3. QED
  BY <1>1, <1>2 DEF StreamInv

\* A worker goes to a place where it holds no rows.
LEMMA StepTo ==
    ASSUME StreamInv, NEW w \in Streamer, NEW r \in StreamerState, streamer' = [streamer EXCEPT ![w] = r],
           Grows, RecorderTypes', JournalFits', MirroredBeforeClose', UNCHANGED remote,
           r.at \notin {"rows", "ingest", "mark"}, r.at # "idle" => run'.made,
           ReadingFits(r)', ToCreate(r) => ToCreate(streamer[w])
    PROVE  StreamInv'
<1>1. streamer'[w] = r
  BY DEF StreamInv
<1>2. FlushFits(w)'
  BY <1>1 DEF FlushFits
<1>3. ToCreate(r) => remote' = <<>>
  BY DEF StreamInv, StreamerFits
<1>4. StreamerFits(w)'
  BY <1>1, <1>2, <1>3 DEF StreamerFits
<1>5. QED
  BY <1>4, OneMoves

LEMMA RecordMoves ==
    ASSUME StreamInv, NEW w \in Streamer, NEW key \in RowKey, NEW status \in StreamStatus,
           NEW seq \in Unset .. MaxSequence, NEW gap \in BOOLEAN,
           NEW then \in AfterFlush,
           RecordStream(w, key, status, seq, gap, then), streamer[w].at # "idle",
           \A s \in Sequence : /\ key = <<"seq", s>> => s = seq
                               /\ key = <<"gap", s>> => gap,
           seq # Unset => /\ key = <<"seq", seq>> /\ remote # <<>>
                          /\ run.gap \/ seq <= run.cursor + 1,
           then \in {"lease", "stream"} => streamer[w].last <= run'.cursor,
           then = "accept" => /\ streamer[w].seq \in Sequence /\ streamer[w].last = streamer[w].seq
                              /\ streamer[w].seq < Len(remote)
                              /\ run'.cursor = Unset => streamer[w].seq = 0
                              /\ run'.gap \/ streamer[w].seq <= run'.cursor + 1,
           then = "lease" => streamer[w].at = "request"
    PROVE  StreamInv'
<1>1. run.made /\ streamer[w] \in StreamerState
  BY StreamFacts DEF StreamInv, StreamerFits
<1>2. Grows /\ RecorderTypes' /\ JournalFits' /\ MirroredBeforeClose'
  BY <1>1, RecordData
<1>3. PICK r : r = [streamer[w] EXCEPT !.at = "flush", !.then = then]
  OBVIOUS
<1>4. r \in StreamerState /\ r.at = "flush" /\ r.then = then /\ r.last = streamer[w].last
      /\ r.seq = streamer[w].seq /\ r.method = streamer[w].method
  BY <1>1, <1>3 DEF StreamerState, StreamPlace
<1>5. streamer' = [streamer EXCEPT ![w] = r] /\ UNCHANGED remote
  BY <1>3 DEF RecordStream
<1>6. ReadingFits(r)'
  BY <1>4, <1>5 DEF ReadingFits, Onto, Flushing, AfterFlush
<1>7. ToCreate(r) => ToCreate(streamer[w])
  BY <1>4 DEF ToCreate, Onto, Flushing, AfterFlush
<1>8. run'.made
  BY <1>1, <1>2 DEF Grows
<1>9. QED
  BY <1>2, <1>4, <1>5, <1>6, <1>7, <1>8, StepTo

\* A row of no provider event leaves the cursor.
LEMMA NoteData ==
    ASSUME StreamInv, NEW w \in Streamer, NEW key \in RowKey, NEW status \in StreamStatus,
           NEW gap \in BOOLEAN, NEW then,
           RecordStream(w, key, status, Unset, gap, then), run.made,
           \A s \in Sequence : key # <<"seq", s>> /\ (key = <<"gap", s>> => gap)
    PROVE  /\ run'.cursor = run.cursor /\ (run.gap => run'.gap)
           /\ gap /\ ~Journalled(key) => run'.gap
<1>1. Unset \in Unset .. MaxSequence
  BY StreamFacts DEF Unset
<1>2. /\ Grows /\ (gap /\ ~Journalled(key) => run'.gap)
      /\ run'.cursor = (IF ~Journalled(key) /\ Unset > run.cursor THEN Unset ELSE run.cursor)
  BY <1>1, RecordData
<1>3. ~(Unset > run.cursor)
  BY StreamFacts DEF Unset
<1>4. QED
  BY <1>2, <1>3 DEF Grows

\* What is journalled of the run itself, on the way out.
LEMMA NoteMoves ==
    ASSUME StreamInv, NEW w \in Streamer, NEW key \in RowKey, NEW status \in StreamStatus,
           NEW gap \in BOOLEAN, NEW then \in {"snapshot", "release", "idle"},
           RecordStream(w, key, status, Unset, gap, then), streamer[w].at # "idle",
           \A s \in Sequence : key # <<"seq", s>> /\ key # <<"gap", s>>
    PROVE  StreamInv'
<1>1. then \notin {"lease", "stream", "accept"} /\ then \in AfterFlush
  BY DEF AfterFlush
<1>2. Unset \in Unset .. MaxSequence
  BY StreamFacts DEF Unset
<1>3. QED
  BY <1>1, <1>2, RecordMoves

-----------------------------------------------------------------------------
(* The steps that append to the journal *)

LEMMA OwnKeyTyped ==
    ASSUME StreamInv
    PROVE  /\ OwnKey \in RowKey
           /\ \A s \in Sequence : OwnKey # <<"seq", s>> /\ OwnKey # <<"gap", s>>
BY StreamFacts DEF OwnKey, RowKey

LEMMA Appends ==
    ASSUME StreamInv, NEW w \in Streamer,
           \/ AppendRequest(w) \/ Refused(w) \/ Interrupted(w) \/ TransportError(w) \/ Cancel(w)
    PROVE  StreamInv'
<1>1. /\ streamer[w] \in StreamerState /\ StreamerFits(w) /\ Unset \in Unset .. MaxSequence
      /\ {"none", "launching", "interrupted", "cancelled", "cancelling"} \subseteq StreamStatus
      /\ run.cursor \in Int /\ <<"request">> \in RowKey
      /\ \A s \in Sequence : <<"request">> # <<"seq", s>> /\ <<"request">> # <<"gap", s>>
  BY StreamFacts DEF StreamInv, StreamStatus, Terminal, Unset, RowKey
<1>2. CASE AppendRequest(w)
  <2>1. StreamAt(w, "request") /\ RecordStream(w, <<"request">>, "launching", Unset, FALSE, "lease")
    BY <1>2 DEF AppendRequest
  <2>2. streamer[w].last <= run.cursor
    BY <1>1, <2>1 DEF StreamerFits, ReadingFits, Onto, Flushing, StreamAt
  <2>3. run'.cursor = run.cursor
    BY <1>1, <2>1, NoteData DEF StreamInv, StreamerFits, StreamAt
  <2>4. QED
    BY <1>1, <2>1, <2>2, <2>3, RecordMoves DEF StreamAt, AfterFlush
<1>3. CASE Refused(w)
  <2>1. StreamAt(w, "refused") /\ RecordStream(w, OwnKey, "none", Unset, TRUE, "snapshot")
    BY <1>3 DEF Refused
  <2>2. QED
    BY <1>1, <2>1, NoteMoves, OwnKeyTyped DEF StreamAt
<1>4. CASE Interrupted(w)
  <2>1. StreamAt(w, "interrupt") /\ RecordStream(w, OwnKey, "interrupted", Unset, FALSE, "release")
    BY <1>4 DEF Interrupted
  <2>2. QED
    BY <1>1, <2>1, NoteMoves, OwnKeyTyped DEF StreamAt
<1>5. CASE TransportError(w)
  <2>1. PICK status \in StreamStatus :
            StreamAt(w, "fail") /\ RecordStream(w, OwnKey, status, Unset, FALSE, "release")
    BY <1>1, <1>5 DEF TransportError
  <2>2. QED
    BY <1>1, <2>1, NoteMoves, OwnKeyTyped DEF StreamAt
<1>6. CASE Cancel(w)
  <2>1. PICK status \in StreamStatus :
            StreamAt(w, "cancelled") /\ RecordStream(w, OwnKey, status, Unset, FALSE, "idle")
    BY <1>1, <1>6 DEF Cancel
  <2>2. QED
    BY <1>1, <2>1, NoteMoves, OwnKeyTyped DEF StreamAt
<1>7. QED
  BY <1>2, <1>3, <1>4, <1>5, <1>6

LEMMA SnapshotStep ==
    ASSUME StreamInv, NEW w \in Streamer, Snapshot(w)
    PROVE  StreamInv'
<1>1. streamer[w].seen \in StreamStatus /\ Unset \in Unset .. MaxSequence
  BY StreamFacts DEF StreamerState, Unset
<1>2. <<"snapshot", streamer[w].seen>> \in RowKey
      /\ \A s \in Sequence : <<"snapshot", streamer[w].seen>> # <<"seq", s>>
                             /\ <<"snapshot", streamer[w].seen>> # <<"gap", s>>
  BY <1>1 DEF RowKey
<1>3. PICK then \in {"release", "idle"} :
          RecordStream(w, <<"snapshot", streamer[w].seen>>, streamer[w].seen, Unset, FALSE, then)
  BY DEF Snapshot, Holding
<1>4. streamer[w].at # "idle"
  BY DEF Snapshot, StreamAt
<1>5. QED
  BY <1>1, <1>2, <1>3, <1>4, NoteMoves

LEMMA ProviderEventStep ==
    ASSUME StreamInv, NEW w \in Streamer, ProviderEvent(w)
    PROVE  StreamInv'
<1> DEFINE s == streamer[w].seq
<1>1. /\ streamer[w] \in StreamerState /\ run \in RunRow /\ run.cursor \in Int /\ run.cursor >= Unset
      /\ streamer[w].at = "event" /\ Unset \in Unset .. MaxSequence /\ "none" \in StreamStatus
  BY StreamFacts DEF ProviderEvent, StreamAt, Unset, StreamStatus
<1>2. /\ run.made /\ s \in Sequence /\ streamer[w].last = s /\ s < Len(remote)
      /\ run.cursor = Unset => s = 0
  BY <1>1 DEF StreamInv, StreamerFits, ReadingFits, Onto, Flushing
<1> HIDE DEF s
<1>3. s \in Nat
  BY <1>2, StreamFacts DEF Sequence
<1>4. CASE Skips(s) /\ ~Journalled(<<"seq", s>>)
  <2>1. RecordStream(w, <<"gap", s>>, "none", Unset, TRUE, "accept")
    BY <1>4 DEF ProviderEvent, s
  <2>2. <<"gap", s>> \in RowKey
        /\ \A t \in Sequence : <<"gap", s>> # <<"seq", t>>
    BY <1>2 DEF RowKey
  <2>3. run'.gap /\ run'.cursor = run.cursor
    <3>1. /\ ~Journalled(<<"gap", s>>) => run'.gap
          /\ run'.cursor = run.cursor /\ (run.gap => run'.gap)
      BY <1>1, <1>2, <2>1, <2>2, NoteData
    <3>2. Journalled(<<"gap", s>>) => run.gap
      BY <1>2 DEF StreamInv, JournalFits
    <3>3. QED
      BY <3>1, <3>2
  <2>4. QED
    BY <1>1, <1>2, <2>1, <2>2, <2>3, RecordMoves DEF s, AfterFlush
<1>5. CASE ~(Skips(s) /\ ~Journalled(<<"seq", s>>))
  <2>1. /\ streamer' = [streamer EXCEPT ![w] = [@ EXCEPT !.at = "accept"]]
        /\ UNCHANGED <<run, journal, streamed, mirrored, streamSession, remote, mishaps>>
    BY <1>5 DEF ProviderEvent, StreamGoto, s
  <2>2. Grows /\ RecorderTypes' /\ JournalFits' /\ MirroredBeforeClose'
    BY <1>1, <2>1, JournalQuiet DEF StreamInv, RecorderTypes
  <2>3. PICK r : r = [streamer[w] EXCEPT !.at = "accept"]
    OBVIOUS
  <2>4. r \in StreamerState /\ r.at = "accept" /\ r.last = s /\ r.seq = s
    BY <1>1, <1>2, <2>3 DEF StreamerState, StreamPlace, s
  <2>5. run.gap \/ s <= run.cursor + 1
    <3>1. Journalled(<<"seq", s>>) => s <= run.cursor
      BY <1>2 DEF StreamInv, JournalFits
    <3>2. QED
      BY <1>1, <1>2, <1>3, <1>5, <3>1 DEF Skips, Unset
  <2>6. ReadingFits(r)'
    BY <1>2, <2>1, <2>4, <2>5 DEF ReadingFits, Onto, Flushing
  <2>7. ~ToCreate(r) /\ streamer' = [streamer EXCEPT ![w] = r]
    BY <2>1, <2>3, <2>4 DEF ToCreate, Onto, Flushing
  <2>8. QED
    BY <1>2, <2>1, <2>2, <2>4, <2>6, <2>7, StepTo
<1>6. QED
  BY <1>4, <1>5

LEMMA AcceptEventStep ==
    ASSUME StreamInv, NEW w \in Streamer, AcceptEvent(w)
    PROVE  StreamInv'
<1> DEFINE s == streamer[w].seq
           status == remote[s + 1]
<1>1. /\ streamer[w] \in StreamerState /\ run.cursor \in Int /\ remote \in Seq(StreamStatus)
      /\ streamer[w].at = "accept" /\ MaxSequence \in Nat /\ Len(remote) \in Nat
  BY StreamFacts DEF AcceptEvent, StreamAt
<1>2. /\ run.made /\ s \in Sequence /\ streamer[w].last = s /\ s < Len(remote)
      /\ run.gap \/ s <= run.cursor + 1
  BY <1>1 DEF StreamInv, StreamerFits, ReadingFits, Onto, Flushing
<1>3. RecordStream(w, <<"seq", s>>, status, s, FALSE, "stream")
  BY DEF AcceptEvent
<1> HIDE DEF s
<1>4. s \in Nat /\ s \in Unset .. MaxSequence /\ s # Unset /\ <<"seq", s>> \in RowKey
      /\ \A t \in Sequence : <<"seq", s>> # <<"gap", t>> /\ (<<"seq", s>> = <<"seq", t>> => t = s)
  BY <1>1, <1>2 DEF Sequence, Unset, RowKey
<1>5. status \in StreamStatus /\ remote # <<>>
  BY <1>1, <1>2, <1>4
<1> HIDE DEF status
<1>6. s <= run'.cursor
  <2>1. run'.cursor = (IF ~Journalled(<<"seq", s>>) /\ s > run.cursor THEN s ELSE run.cursor)
    BY <1>2, <1>3, <1>4, <1>5, RecordData
  <2>2. Journalled(<<"seq", s>>) => s <= run.cursor
    BY <1>2 DEF StreamInv, JournalFits
  <2>3. QED
    BY <1>1, <1>4, <2>1, <2>2
<1>7. QED
  BY <1>1, <1>2, <1>3, <1>4, <1>5, <1>6, RecordMoves DEF s, AfterFlush

-----------------------------------------------------------------------------
(* The steps that leave journal and store alone *)

\* A worker goes on; of the run only its lease may change.
LEMMA QuietStep ==
    ASSUME StreamInv, NEW w \in Streamer, NEW r \in StreamerState, streamer' = [streamer EXCEPT ![w] = r],
           NEW lease \in Streamer \cup {NoOne}, NEW live \in BOOLEAN,
           run' = [run EXCEPT !.lease = lease, !.live = live],
           UNCHANGED <<journal, streamed, mirrored, streamSession, remote>>, mishaps' \in 0 .. MaxLeases,
           r.at \notin {"rows", "ingest", "mark"}, r.at # "idle" => run.made,
           ReadingFits(r), ToCreate(r) => ToCreate(streamer[w])
    PROVE  StreamInv'
<1>1. /\ run' \in RunRow /\ run'.made = run.made /\ run'.status = run.status
      /\ run'.response = run.response /\ run'.cursor = run.cursor /\ run'.gap = run.gap
  BY StreamFacts DEF RunRow
<1>2. Grows /\ RecorderTypes' /\ JournalFits' /\ MirroredBeforeClose'
  BY <1>1, JournalQuiet
<1>3. ReadingFits(r)'
  BY <1>1 DEF ReadingFits
<1>4. QED
  BY <1>1, <1>2, <1>3, StepTo

\* The same, the lease unchanged.
LEMMA StillStep ==
    ASSUME StreamInv, NEW w \in Streamer, NEW r \in StreamerState, streamer' = [streamer EXCEPT ![w] = r],
           UNCHANGED <<run, journal, streamed, mirrored, streamSession, remote>>, mishaps' \in 0 .. MaxLeases,
           r.at \notin {"rows", "ingest", "mark"}, r.at # "idle" => run.made,
           ReadingFits(r), ToCreate(r) => ToCreate(streamer[w])
    PROVE  StreamInv'
<1>1. run \in RunRow
  BY StreamFacts
<1>2. run' = [run EXCEPT !.lease = run.lease, !.live = run.live]
      /\ run.lease \in Streamer \cup {NoOne} /\ run.live \in BOOLEAN
  BY <1>1 DEF RunRow
<1>3. QED
  BY <1>2, QuietStep

LEMMA RestingTyped ==
    ASSUME StreamInv
    PROVE  StreamResting \in StreamerState /\ ReadingFits(StreamResting) /\ ~ToCreate(StreamResting)
           /\ StreamResting.at = "idle"
BY StreamFacts DEF StreamResting, StreamerState, StreamPlace, AfterFlush, StreamStatus, Unset, ReadingFits, Onto, Flushing,
   ToCreate

\* A label to go to that fits what the worker has read.
LEMMA GotoTyped ==
    ASSUME StreamInv, NEW w \in Streamer, NEW label \in StreamPlace, StreamGoto(w, label)
    PROVE  \E r \in StreamerState :
              /\ streamer' = [streamer EXCEPT ![w] = r]
              /\ r.at = label
              /\ IF label = "idle" THEN r = StreamResting
                 ELSE /\ r.then = streamer[w].then /\ r.seen = streamer[w].seen /\ r.last = streamer[w].last
                      /\ r.seq = streamer[w].seq /\ r.rows = streamer[w].rows
                      /\ r.method = streamer[w].method
<1>1. streamer[w] \in StreamerState
  BY StreamFacts
<1>2. CASE label = "idle"
  BY <1>2, RestingTyped DEF StreamGoto
<1>3. CASE label # "idle"
  <2>1. PICK r : r = [streamer[w] EXCEPT !.at = label]
    OBVIOUS
  <2>2. /\ r \in StreamerState /\ r.at = label
        /\ r.then = streamer[w].then /\ r.seen = streamer[w].seen /\ r.last = streamer[w].last
        /\ r.seq = streamer[w].seq /\ r.rows = streamer[w].rows /\ r.method = streamer[w].method
    BY <1>1, <2>1 DEF StreamerState
  <2>3. streamer' = [streamer EXCEPT ![w] = r]
    BY <1>3, <2>1 DEF StreamGoto
  <2>4. QED
    BY <1>3, <2>2, <2>3
<1>4. QED
  BY <1>2, <1>3

LEMMA StreamerLeaves ==
    ASSUME StreamInv, NEW w \in Streamer, StreamerDies(w) \/ Release(w)
    PROVE  StreamInv'
<1>1. mishaps \in 0 .. MaxLeases /\ MaxLeases \in Nat /\ run \in RunRow
  BY StreamFacts DEF StreamInv, RecorderTypes
<1>2. CASE StreamerDies(w)
  <2>1. /\ streamer' = [streamer EXCEPT ![w] = StreamResting] /\ mishaps < MaxLeases /\ mishaps' = mishaps + 1
        /\ UNCHANGED <<run, journal, streamed, mirrored, streamSession, remote>>
    BY <1>2 DEF StreamerDies
  <2>2. mishaps' \in 0 .. MaxLeases
    BY <1>1, <2>1
  <2>3. QED
    BY <2>1, <2>2, RestingTyped, StillStep
<1>3. CASE Release(w)
  <2>1. /\ streamer' = [streamer EXCEPT ![w] = StreamResting]
        /\ UNCHANGED <<journal, streamed, mirrored, streamSession, remote, mishaps>>
    BY <1>3 DEF Release, StreamGoto
  <2>2. CASE run.lease = w
    <3>1. run' = [run EXCEPT !.lease = NoOne, !.live = FALSE]
      BY <1>3, <2>2 DEF Release
    <3>2. QED
      BY <1>1, <2>1, <3>1, RestingTyped, QuietStep
  <2>3. CASE run.lease # w
    <3>1. UNCHANGED run
      BY <1>3, <2>3 DEF Release
    <3>2. QED
      BY <1>1, <2>1, <3>1, RestingTyped, StillStep
  <2>4. QED
    BY <2>2, <2>3
<1>4. QED
  BY <1>2, <1>3

LEMMA LeaseExpiresStep ==
    ASSUME StreamInv, LeaseExpires
    PROVE  StreamInv'
<1>1. mishaps \in 0 .. MaxLeases /\ MaxLeases \in Nat /\ run \in RunRow
  BY StreamFacts DEF StreamInv, RecorderTypes
<1>2. /\ run' = [run EXCEPT !.live = FALSE] /\ mishaps < MaxLeases /\ mishaps' = mishaps + 1
      /\ UNCHANGED <<journal, streamed, mirrored, streamSession, remote, streamer>>
  BY DEF LeaseExpires
<1>3. /\ run' \in RunRow /\ run'.made = run.made /\ run'.status = run.status
      /\ run'.response = run.response /\ run'.cursor = run.cursor /\ run'.gap = run.gap
  BY <1>1, <1>2 DEF RunRow
<1>4. mishaps' \in 0 .. MaxLeases
  BY <1>1, <1>2
<1>5. Grows /\ RecorderTypes' /\ JournalFits' /\ MirroredBeforeClose'
  BY <1>2, <1>3, <1>4, JournalQuiet
<1>6. QED
  BY <1>2, <1>5, NobodyMoves

LEMMA ResumeStep ==
    ASSUME StreamInv, NEW w \in Streamer, Resume(w)
    PROVE  StreamInv'
<1>1. run \in RunRow /\ mishaps \in 0 .. MaxLeases /\ run.made /\ run.cursor \in Int
  BY StreamFacts DEF StreamInv, RecorderTypes, Resume
<1>2. PICK then \in {"idle", "lease"} :
          streamer' = [streamer EXCEPT ![w] = [StreamResting EXCEPT !.at = "flush", !.last = run.cursor,
                                                  !.seen = run.status, !.method = "GET", !.then = then]]
  BY DEF Resume
<1>3. PICK r : r = [StreamResting EXCEPT !.at = "flush", !.last = run.cursor, !.seen = run.status,
                                         !.method = "GET", !.then = then]
  OBVIOUS
<1>4. r \in StreamerState /\ r.at = "flush" /\ r.then = then /\ r.last = run.cursor /\ r.method = "GET"
  BY <1>1, <1>3, RestingTyped DEF StreamerState, StreamPlace, AfterFlush, RunRow, StreamResting
<1>5. ReadingFits(r)
  BY <1>1, <1>4 DEF ReadingFits, Onto, Flushing
<1>6. ~ToCreate(r)
  BY <1>4 DEF ToCreate
<1>7. UNCHANGED <<run, journal, streamed, mirrored, streamSession, remote, mishaps>>
  BY DEF Resume
<1>8. QED
  BY <1>1, <1>2, <1>3, <1>4, <1>5, <1>6, <1>7, StillStep

LEMMA TakeLeaseStep ==
    ASSUME StreamInv, NEW w \in Streamer, TakeLease(w)
    PROVE  StreamInv'
<1>1. /\ run \in RunRow /\ mishaps \in 0 .. MaxLeases /\ streamer[w].at = "lease"
      /\ run.made /\ streamer[w].last <= run.cursor
      /\ UNCHANGED <<journal, streamed, mirrored, streamSession, remote, mishaps>>
  BY StreamFacts DEF StreamInv, RecorderTypes, TakeLease, StreamAt, StreamerFits, ReadingFits, Onto, Flushing
<1>2. CASE run.live
  <2>1. streamer' = [streamer EXCEPT ![w] = StreamResting] /\ UNCHANGED run
    BY <1>2 DEF TakeLease, StreamGoto
  <2>2. QED
    BY <1>1, <2>1, RestingTyped, StillStep
<1>3. CASE ~run.live
  <2>1. StreamGoto(w, "connect") /\ run' = [run EXCEPT !.lease = w, !.live = TRUE]
    BY <1>3 DEF TakeLease
  <2>2. PICK r \in StreamerState : /\ streamer' = [streamer EXCEPT ![w] = r] /\ r.at = "connect"
                                   /\ r.last = streamer[w].last /\ r.method = streamer[w].method
    BY <2>1, GotoTyped DEF StreamPlace
  <2>3. ReadingFits(r) /\ (ToCreate(r) => ToCreate(streamer[w]))
    BY <1>1, <2>2 DEF ReadingFits, ToCreate, Onto, Flushing
  <2>4. QED
    BY <1>1, <2>1, <2>2, <2>3, QuietStep
<1>4. QED
  BY <1>2, <1>3

LEMMA ReadLineStep ==
    ASSUME StreamInv, NEW w \in Streamer, NEW s \in Sequence, ReadLine(w, s)
    PROVE  StreamInv'
<1>1. /\ run \in RunRow /\ mishaps \in 0 .. MaxLeases /\ streamer[w].at = "stream"
      /\ streamer[w] \in StreamerState /\ streamer[w].last \in Int /\ run.cursor \in Int
      /\ streamer[w].last >= Unset /\ run.cursor >= Unset
      /\ run.made /\ streamer[w].last <= run.cursor /\ s \in Int /\ s \in Unset .. MaxSequence
      /\ UNCHANGED <<journal, streamed, mirrored, streamSession, remote, mishaps>>
  <2>1. /\ run \in RunRow /\ mishaps \in 0 .. MaxLeases /\ streamer[w] \in StreamerState
    BY DEF StreamInv, RecorderTypes
  <2>2. /\ streamer[w].at = "stream"
        /\ UNCHANGED <<journal, streamed, mirrored, streamSession, remote, mishaps>>
    BY DEF ReadLine, StreamAt
  <2>3. run.made /\ streamer[w].last <= run.cursor
    BY <2>2 DEF StreamInv, StreamerFits, ReadingFits, Onto, Flushing
  <2>4. streamer[w].last \in Unset .. MaxSequence /\ run.cursor \in Unset .. MaxSequence
    BY <2>1 DEF StreamerState, RunRow
  <2>5. s \in Int /\ s \in Unset .. MaxSequence
    BY DEF Sequence, Unset
  <2>6. QED
    BY <2>1, <2>2, <2>3, <2>4, <2>5 DEF Unset
<1>2. CASE run.lease # w
  <2>1. StreamGoto(w, "fail") /\ UNCHANGED run
    BY <1>2 DEF ReadLine
  <2>2. PICK r \in StreamerState : streamer' = [streamer EXCEPT ![w] = r] /\ r.at = "fail"
    BY <2>1, GotoTyped DEF StreamPlace
  <2>3. ReadingFits(r) /\ ~ToCreate(r)
    BY <2>2 DEF ReadingFits, ToCreate, Onto, Flushing
  <2>4. QED
    BY <1>1, <2>1, <2>2, <2>3, StillStep
<1>3. CASE run.lease = w
  <2>1. /\ s > streamer[w].last /\ s < Len(remote) /\ (streamer[w].last = Unset => s = 0)
        /\ run' = [run EXCEPT !.live = TRUE]
        /\ streamer' = [streamer EXCEPT ![w] = [@ EXCEPT !.at = "event", !.last = s, !.seq = s,
                                                             !.seen = run.status]]
    BY <1>3 DEF ReadLine
  <2>2. PICK r : r = [streamer[w] EXCEPT !.at = "event", !.last = s, !.seq = s, !.seen = run.status]
    OBVIOUS
  <2>3. r \in StreamerState /\ r.at = "event" /\ r.last = s /\ r.seq = s
    BY <1>1, <2>2 DEF StreamerState, StreamPlace, RunRow
  <2>4. run.cursor = Unset => s = 0
    BY <1>1, <2>1 DEF Unset
  <2>5. ReadingFits(r) /\ ~ToCreate(r)
    BY <2>1, <2>3, <2>4 DEF ReadingFits, ToCreate, Onto, Flushing
  <2>6. streamer' = [streamer EXCEPT ![w] = r]
    BY <2>1, <2>2
  <2>7. run' = [run EXCEPT !.lease = w, !.live = TRUE]
    <3>1. [run EXCEPT !.live = TRUE] = [run EXCEPT !.lease = w, !.live = TRUE]
      BY <1>1, <1>3 DEF RunRow
    <3>2. QED
      BY <2>1, <3>1
  <2>8. QED
    BY <1>1, <2>3, <2>5, <2>6, <2>7, QuietStep
<1>4. QED
  BY <1>2, <1>3

LEMMA StreamEndsStep ==
    ASSUME StreamInv, NEW w \in Streamer, StreamEnds(w)
    PROVE  StreamInv'
<1>1. /\ mishaps \in 0 .. MaxLeases /\ run.made
      /\ UNCHANGED <<run, journal, streamed, mirrored, streamSession, remote, mishaps>>
  BY DEF StreamInv, RecorderTypes, StreamEnds, StreamAt, StreamerFits
<1>2. PICK label \in {"release", "interrupt"} : StreamGoto(w, label)
  BY DEF StreamEnds
<1>3. PICK r \in StreamerState : streamer' = [streamer EXCEPT ![w] = r] /\ r.at = label
  BY <1>2, GotoTyped DEF StreamPlace
<1>4. ReadingFits(r) /\ ~ToCreate(r)
  BY <1>3 DEF ReadingFits, ToCreate, Onto, Flushing
<1>5. QED
  BY <1>1, <1>3, <1>4, StillStep

\* What the provider last said is a status.
LEMMA RemoteStatusTyped ==
    ASSUME StreamInv
    PROVE  RemoteStatus \in StreamStatus
<1>1. remote # <<>> => Len(remote) \in 1 .. Len(remote)
  BY StreamFacts
<1>2. QED
  BY <1>1, StreamFacts DEF RemoteStatus, StreamStatus

LEMMA AskSnapshotStep ==
    ASSUME StreamInv, NEW w \in Streamer, AskSnapshot(w)
    PROVE  StreamInv'
<1>1. /\ mishaps \in 0 .. MaxLeases /\ run.made /\ streamer[w] \in StreamerState
      /\ UNCHANGED <<run, journal, streamed, mirrored, streamSession, remote, mishaps>>
  BY StreamFacts DEF StreamInv, RecorderTypes, AskSnapshot, JournalFits
<1>2. PICK method \in {"none", "POST", "GET"} :
          method = IF StreamAt(w, "idle") THEN "none" ELSE streamer[w].method
  BY <1>1 DEF StreamerState
<1>3. PICK r : r = [streamer[w] EXCEPT !.at = "answer", !.seen = RemoteStatus, !.method = method]
  OBVIOUS
<1>4. r \in StreamerState /\ r.at = "answer"
  BY <1>1, <1>3, RemoteStatusTyped DEF StreamerState, StreamPlace
<1>5. ReadingFits(r) /\ ~ToCreate(r)
  BY <1>4 DEF ReadingFits, ToCreate, Onto, Flushing
<1>6. streamer' = [streamer EXCEPT ![w] = r]
  BY <1>2, <1>3 DEF AskSnapshot
<1>7. QED
  BY <1>1, <1>4, <1>5, <1>6, StillStep

-----------------------------------------------------------------------------
(* The steps that make the run, and those of the provider *)

LEMMA StartStreamStep ==
    ASSUME StreamInv, NEW w \in Streamer, StartStream(w)
    PROVE  StreamInv'
<1>1. /\ run \in RunRow /\ ~run.made /\ run' = [run EXCEPT !.made = TRUE, !.status = "launching"]
      /\ UNCHANGED <<journal, streamed, mirrored, streamSession, remote, mishaps>>
      /\ streamer' = [streamer EXCEPT ![w] = [StreamResting EXCEPT !.at = "request", !.seen = "launching",
                                                                    !.method = "POST"]]
      /\ run.cursor \in Int /\ run.cursor >= Unset
  BY StreamFacts DEF StartStream, Unset
<1>2. /\ run' \in RunRow /\ run'.made /\ run'.status = "launching" /\ run'.response = run.response
      /\ run'.cursor = run.cursor /\ run'.gap = run.gap
  BY <1>1 DEF RunRow, StreamStatus
<1>3. Grows
  BY <1>1, <1>2, StreamFacts DEF Grows
<1>4. RecorderTypes'
  BY <1>1, <1>2 DEF StreamInv, RecorderTypes
<1>5. JournalFits'
  BY <1>1, <1>2 DEF StreamInv, JournalFits, Journalled, NoSilentGap, Ended, Terminal
<1>6. MirroredBeforeClose'
  BY <1>1 DEF StreamInv, MirroredBeforeClose
<1>7. PICK r : r = [StreamResting EXCEPT !.at = "request", !.seen = "launching", !.method = "POST"]
  OBVIOUS
<1>8. r \in StreamerState /\ r.at = "request" /\ r.last = Unset
  BY <1>7, RestingTyped DEF StreamerState, StreamPlace, StreamResting, StreamStatus
<1>9. streamer' = [streamer EXCEPT ![w] = r] /\ streamer'[w] = r
  BY <1>1, <1>7 DEF StreamInv
<1>10. \A v \in Streamer : ~ToCreate(streamer[v])
  BY <1>1 DEF StreamInv, StreamerFits, ToCreate, Onto, Flushing
<1>11. remote' = <<>>
  BY <1>1 DEF StreamInv, JournalFits
<1>12. StreamerFits(w)'
  BY <1>1, <1>2, <1>8, <1>9, <1>11 DEF StreamerFits, ReadingFits, FlushFits, Onto, Flushing
<1>13. QED
  BY <1>3, <1>4, <1>5, <1>6, <1>8, <1>9, <1>10, <1>12, OneMoves

LEMMA ProviderEmitsStep ==
    ASSUME StreamInv, NEW status \in {"in_progress", "completed", "failed"}, ProviderEmits(status)
    PROVE  StreamInv'
<1>1. /\ remote' = Append(remote, status) /\ remote # <<>>
      /\ UNCHANGED <<run, journal, streamed, mirrored, streamSession, streamer, mishaps>>
  BY DEF ProviderEmits
<1>2. remote' \in Seq(StreamStatus) /\ Len(remote) <= Len(remote')
  BY <1>1, StreamFacts DEF StreamStatus, Terminal
<1>3. run.made /\ \A v \in Streamer : ~ToCreate(streamer[v])
  BY <1>1 DEF StreamInv, JournalFits, StreamerFits
<1>4. Grows /\ RecorderTypes' /\ JournalFits' /\ MirroredBeforeClose'
  BY <1>1, <1>2, <1>3, RemoteGrows
<1>5. QED
  BY <1>1, <1>3, <1>4, NobodyMoves

LEMMA AskCancelStep ==
    ASSUME StreamInv, NEW w \in Streamer, AskCancel(w)
    PROVE  StreamInv'
<1>1. /\ run.response /\ run \in RunRow /\ streamer[w] \in StreamerState
      /\ streamer' = [streamer EXCEPT ![w] = [@ EXCEPT !.at = "cancelled", !.method = "none",
                                                         !.seen = run.status]]
      /\ UNCHANGED <<run, journal, streamed, mirrored, streamSession, mishaps>>
  BY StreamFacts DEF AskCancel
<1>2. remote' \in Seq(StreamStatus) /\ Len(remote) <= Len(remote')
  <2>1. remote' = Append(remote, "cancelled") \/ remote' = remote
    BY DEF AskCancel
  <2>2. remote \in Seq(StreamStatus) /\ Len(remote) \in Nat /\ "cancelled" \in StreamStatus
    BY StreamFacts DEF StreamStatus, Terminal
  <2>3. Append(remote, "cancelled") \in Seq(StreamStatus)
        /\ Len(Append(remote, "cancelled")) = Len(remote) + 1
    BY <2>2
  <2>4. QED
    BY <2>1, <2>2, <2>3
<1>3. run.made /\ \A v \in Streamer : ~ToCreate(streamer[v])
  BY <1>1 DEF StreamInv, JournalFits, StreamerFits
<1>4. Grows /\ RecorderTypes' /\ JournalFits' /\ MirroredBeforeClose'
  BY <1>1, <1>2, <1>3, RemoteGrows
<1>5. PICK r : r = [streamer[w] EXCEPT !.at = "cancelled", !.method = "none", !.seen = run.status]
  OBVIOUS
<1>6. r \in StreamerState /\ r.at = "cancelled" /\ streamer' = [streamer EXCEPT ![w] = r] /\ streamer'[w] = r
  BY <1>1, <1>5 DEF StreamerState, StreamPlace, RunRow, StreamInv
<1>7. StreamerFits(w)' /\ ~ToCreate(r)
  BY <1>1, <1>3, <1>6 DEF StreamerFits, ReadingFits, FlushFits, ToCreate, Onto, Flushing
<1>8. QED
  BY <1>3, <1>4, <1>6, <1>7, OneMoves

LEMMA ConnectStreamStep ==
    ASSUME StreamInv, NEW w \in Streamer, ConnectStream(w)
    PROVE  StreamInv'
<1>1. /\ run.made /\ streamer[w] \in StreamerState /\ streamer[w].at = "connect"
      /\ streamer[w].last <= run.cursor
      /\ UNCHANGED <<run, journal, streamed, mirrored, streamSession, mishaps>>
  BY StreamFacts DEF ConnectStream, StreamAt, StreamInv, StreamerFits, ReadingFits, Onto, Flushing
<1>2. PICK label \in {"stream", "fail", "refused"} : StreamGoto(w, label)
  BY DEF ConnectStream
<1>3. PICK r \in StreamerState : /\ streamer' = [streamer EXCEPT ![w] = r] /\ r.at = label
                                 /\ r.last = streamer[w].last
  BY <1>2, GotoTyped DEF StreamPlace
<1>4. streamer'[w] = r /\ ~ToCreate(r)
  BY <1>3 DEF StreamInv, ToCreate, Onto, Flushing
<1>5. CASE remote' = remote
  <2>1. Grows /\ RecorderTypes' /\ JournalFits' /\ MirroredBeforeClose'
    BY <1>1, <1>5, StreamFacts, RemoteGrows
  <2>2. StreamerFits(w)'
    BY <1>1, <1>3, <1>4, <1>5 DEF StreamerFits, ReadingFits, FlushFits, Onto, Flushing
  <2>3. QED
    BY <1>3, <1>4, <1>5, <2>1, <2>2, OneMoves
<1>6. CASE remote' # remote
  <2>1. remote' = <<"in_progress">> /\ ToCreate(streamer[w])
    BY <1>1, <1>6 DEF ConnectStream, ToCreate, Onto, Flushing
  <2>2. remote = <<>> /\ \A v \in Streamer : v # w => ~ToCreate(streamer[v])
    BY <2>1 DEF StreamInv, StreamerFits, OneCreator
  <2>3. remote' \in Seq(StreamStatus) /\ Len(remote) <= Len(remote')
    BY <2>1, <2>2 DEF StreamStatus
  <2>4. Grows /\ RecorderTypes' /\ JournalFits' /\ MirroredBeforeClose'
    BY <1>1, <2>3, RemoteGrows
  <2>5. StreamerFits(w)'
    BY <1>1, <1>3, <1>4 DEF StreamerFits, ReadingFits, FlushFits, Onto, Flushing
  <2>6. QED
    BY <1>3, <1>4, <2>2, <2>4, <2>5, OneMoves
<1>7. QED
  BY <1>5, <1>6

-----------------------------------------------------------------------------
(* The steps of a flush *)

LEMMA FlushBeginStep ==
    ASSUME StreamInv, NEW w \in Streamer, FlushBegin(w)
    PROVE  StreamInv'
<1>1. /\ run.made /\ streamer[w] \in StreamerState /\ run \in RunRow /\ streamer[w].at = "flush"
      /\ streamer' = [streamer EXCEPT ![w] = [@ EXCEPT !.at = "rows", !.seen = run.status]]
      /\ UNCHANGED <<run, journal, streamed, mirrored, remote, mishaps>>
      /\ (streamSession' = streamSession \/ streamSession' = "open")
  BY StreamFacts DEF FlushBegin, StreamAt, StreamInv, StreamerFits, OpenStreamSession
<1>2. Grows
  BY <1>1, StreamFacts DEF Grows
<1>3. RecorderTypes'
  BY <1>1 DEF StreamInv, RecorderTypes
<1>4. JournalFits'
  BY <1>1 DEF StreamInv, JournalFits, Journalled, NoSilentGap, HasEnd
<1>5. MirroredBeforeClose'
  BY <1>1 DEF StreamInv, MirroredBeforeClose
<1>6. PICK r : r = [streamer[w] EXCEPT !.at = "rows", !.seen = run.status]
  OBVIOUS
<1>7. /\ r \in StreamerState /\ r.at = "rows" /\ r.seen = run.status /\ r.then = streamer[w].then
      /\ r.last = streamer[w].last /\ r.seq = streamer[w].seq /\ r.method = streamer[w].method
  BY <1>1, <1>6 DEF StreamerState, StreamPlace, RunRow
<1>8. streamer' = [streamer EXCEPT ![w] = r] /\ streamer'[w] = r
  BY <1>1, <1>6 DEF StreamInv
<1>9. ToCreate(r) => ToCreate(streamer[w])
  BY <1>1, <1>7 DEF ToCreate, Onto, Flushing
<1>10. Ended(run.status) => HasEnd'
  BY <1>1 DEF StreamInv, JournalFits, HasEnd
<1>11. FlushFits(w)'
  BY <1>7, <1>8, <1>10 DEF FlushFits
<1>12. ReadingFits(r)'
  BY <1>1, <1>7 DEF StreamInv, StreamerFits, ReadingFits, Onto, Flushing
<1>13. StreamerFits(w)'
  BY <1>1, <1>7, <1>8, <1>9, <1>11, <1>12 DEF StreamInv, StreamerFits
<1>14. QED
  BY <1>1, <1>2, <1>3, <1>4, <1>5, <1>7, <1>8, <1>9, <1>13, OneMoves

LEMMA FlushRowsStep ==
    ASSUME StreamInv, NEW w \in Streamer, FlushRows(w)
    PROVE  StreamInv'
<1>1. /\ run.made /\ streamer[w] \in StreamerState /\ run \in RunRow /\ streamer[w].at = "rows"
      /\ streamer' = [streamer EXCEPT ![w] = [@ EXCEPT !.at = "ingest", !.rows = Pending]]
      /\ UNCHANGED <<run, journal, streamed, mirrored, streamSession, remote, mishaps>>
      /\ mishaps \in 0 .. MaxLeases
  BY StreamFacts DEF FlushRows, StreamAt, StreamInv, StreamerFits, RecorderTypes
<1>2. Grows /\ RecorderTypes' /\ JournalFits' /\ MirroredBeforeClose'
  BY <1>1, JournalQuiet
<1>3. PICK r : r = [streamer[w] EXCEPT !.at = "ingest", !.rows = Pending]
  OBVIOUS
<1>4. Pending \subseteq 1 .. Len(journal) /\ Pending \subseteq Nat
  BY StreamFacts DEF Pending
<1>5. /\ r \in StreamerState /\ r.at = "ingest" /\ r.rows = Pending /\ r.then = streamer[w].then
      /\ r.seen = streamer[w].seen
      /\ r.last = streamer[w].last /\ r.seq = streamer[w].seq /\ r.method = streamer[w].method
  BY <1>1, <1>3, <1>4 DEF StreamerState, StreamPlace
<1>6. streamer' = [streamer EXCEPT ![w] = r] /\ streamer'[w] = r
  BY <1>1, <1>3 DEF StreamInv
<1>7. ToCreate(r) => ToCreate(streamer[w])
  BY <1>1, <1>5 DEF ToCreate, Onto, Flushing
<1>8. Ended(streamer[w].seen) => HasEnd
  BY <1>1 DEF StreamInv, StreamerFits, FlushFits
<1>9. HasEnd => WholeBut(Pending)
  <2>1. SUFFICES ASSUME NEW last \in 1 .. Len(journal), Ended(journal[last].status)
                 PROVE  WholeBut(Pending)
    BY DEF HasEnd
  <2>2. \A i \in 1 .. last : i \in 1 .. Len(journal)
    BY StreamFacts
  <2>3. \A i \in 1 .. last : i \in Pending \/ journal[i].key \in mirrored
    BY <2>2 DEF Pending, StreamInv, MirroredBeforeClose
  <2>4. QED
    BY <2>1, <2>3 DEF WholeBut
<1>10. WholeBut(Pending) => WholeBut(r.rows)'
  BY <1>1, <1>5 DEF WholeBut
<1>11. FlushFits(w)'
  BY <1>1, <1>4, <1>5, <1>6, <1>8, <1>9, <1>10 DEF FlushFits, HasEnd
<1>12. ReadingFits(r)'
  BY <1>1, <1>5 DEF StreamInv, StreamerFits, ReadingFits, Onto, Flushing
<1>13. StreamerFits(w)'
  BY <1>1, <1>5, <1>6, <1>7, <1>11, <1>12 DEF StreamInv, StreamerFits
<1>14. QED
  BY <1>1, <1>2, <1>5, <1>6, <1>7, <1>13, OneMoves

LEMMA IngestEventStep ==
    ASSUME StreamInv, NEW w \in Streamer, IngestEvent(w)
    PROVE  StreamInv'
<1>1. /\ run.made /\ streamer[w] \in StreamerState /\ run \in RunRow /\ streamer[w].at = "ingest"
      /\ streamer[w].rows # {} /\ StreamGoto(w, "mark")
      /\ mirrored' = mirrored \cup {journal[NextRow(w)].key}
      /\ UNCHANGED <<run, journal, streamed, streamSession, remote, mishaps>>
  BY StreamFacts DEF IngestEvent, StreamAt, StreamInv, StreamerFits
<1>2. streamer[w].rows \subseteq 1 .. Len(journal) /\ NextRow(w) \in streamer[w].rows
  BY <1>1, StreamFacts, FirstRow DEF StreamInv, StreamerFits, FlushFits
<1>3. PICK r \in StreamerState :
          /\ streamer' = [streamer EXCEPT ![w] = r] /\ r.at = "mark" /\ r.then = streamer[w].then
          /\ r.seen = streamer[w].seen /\ r.rows = streamer[w].rows
          /\ r.last = streamer[w].last /\ r.seq = streamer[w].seq /\ r.method = streamer[w].method
  BY <1>1, GotoTyped DEF StreamPlace
<1>4. streamer'[w] = r
  BY <1>3 DEF StreamInv
<1>5. Grows
  BY <1>1, StreamFacts DEF Grows
<1>6. RecorderTypes'
  BY <1>1, <1>2 DEF StreamInv, RecorderTypes
<1>7. JournalFits'
  BY <1>1 DEF StreamInv, JournalFits, Journalled, NoSilentGap, HasEnd
<1>8. MirroredBeforeClose'
  BY <1>1 DEF StreamInv, MirroredBeforeClose
<1>9. ToCreate(r) => ToCreate(streamer[w])
  BY <1>1, <1>3 DEF ToCreate, Onto, Flushing
<1>10. HasEnd => HasEnd'
  BY <1>1 DEF HasEnd
<1>11. WholeBut(streamer[w].rows) => WholeBut(r.rows)'
  BY <1>1, <1>3 DEF WholeBut
<1>12. NextRow(w)' = NextRow(w)
  BY <1>3, <1>4 DEF NextRow
<1>13. FlushFits(w)'
  BY <1>1, <1>2, <1>3, <1>4, <1>10, <1>11, <1>12 DEF StreamInv, StreamerFits, FlushFits
<1>14. ReadingFits(r)'
  BY <1>1, <1>3 DEF StreamInv, StreamerFits, ReadingFits, Onto, Flushing
<1>15. StreamerFits(w)'
  BY <1>1, <1>3, <1>4, <1>9, <1>13, <1>14 DEF StreamInv, StreamerFits
<1>16. QED
  BY <1>1, <1>3, <1>5, <1>6, <1>7, <1>8, <1>9, <1>15, OneMoves

LEMMA FlushMarkStep ==
    ASSUME StreamInv, NEW w \in Streamer, FlushMark(w)
    PROVE  StreamInv'
<1>1. /\ run.made /\ streamer[w] \in StreamerState /\ run \in RunRow /\ streamer[w].at = "mark"
      /\ streamed' = streamed \cup {NextRow(w)}
      /\ streamer' = [streamer EXCEPT ![w] = [@ EXCEPT !.at = "ingest",
                                                        !.rows = streamer[w].rows \ {NextRow(w)}]]
      /\ UNCHANGED <<run, journal, mirrored, streamSession, remote, mishaps>>
  BY StreamFacts DEF FlushMark, StreamAt, StreamInv, StreamerFits
<1>2. /\ streamer[w].rows \subseteq 1 .. Len(journal) /\ NextRow(w) \in streamer[w].rows
      /\ journal[NextRow(w)].key \in mirrored
  BY <1>1, StreamFacts, FirstRow DEF StreamInv, StreamerFits, FlushFits
<1>3. PICK k : k = NextRow(w)
  OBVIOUS
<1>4. PICK r : r = [streamer[w] EXCEPT !.at = "ingest", !.rows = streamer[w].rows \ {k}]
  OBVIOUS
<1>5. /\ r \in StreamerState /\ r.at = "ingest" /\ r.rows = streamer[w].rows \ {k}
      /\ r.then = streamer[w].then /\ r.seen = streamer[w].seen
      /\ r.last = streamer[w].last /\ r.seq = streamer[w].seq /\ r.method = streamer[w].method
  BY <1>1, <1>4 DEF StreamerState, StreamPlace
<1>6. streamer' = [streamer EXCEPT ![w] = r] /\ streamer'[w] = r
  BY <1>1, <1>3, <1>4 DEF StreamInv
<1>7. Grows
  BY <1>1, StreamFacts DEF Grows
<1>8. RecorderTypes'
  BY <1>1, <1>2 DEF StreamInv, RecorderTypes
<1>9. JournalFits'
  BY <1>1 DEF StreamInv, JournalFits, Journalled, NoSilentGap, HasEnd
<1>10. MirroredBeforeClose'
  BY <1>1, <1>2 DEF StreamInv, MirroredBeforeClose
<1>11. ToCreate(r) => ToCreate(streamer[w])
  BY <1>1, <1>5 DEF ToCreate, Onto, Flushing
<1>12. HasEnd => HasEnd'
  BY <1>1 DEF HasEnd
<1>13. WholeBut(streamer[w].rows) => WholeBut(r.rows)'
  BY <1>1, <1>2, <1>3, <1>5 DEF WholeBut
<1>14. FlushFits(w)'
  BY <1>1, <1>2, <1>5, <1>6, <1>12, <1>13 DEF StreamInv, StreamerFits, FlushFits
<1>15. ReadingFits(r)'
  BY <1>1, <1>5 DEF StreamInv, StreamerFits, ReadingFits, Onto, Flushing
<1>16. StreamerFits(w)'
  BY <1>1, <1>5, <1>6, <1>11, <1>14, <1>15 DEF StreamInv, StreamerFits
<1>17. QED
  BY <1>1, <1>5, <1>6, <1>7, <1>8, <1>9, <1>10, <1>11, <1>16, OneMoves

LEMMA FlushEndStep ==
    ASSUME StreamInv, NEW w \in Streamer, FlushEnd(w)
    PROVE  StreamInv'
<1>1. /\ run.made /\ streamer[w] \in StreamerState /\ streamer[w].at = "ingest" /\ streamer[w].rows = {}
      /\ StreamGoto(w, streamer[w].then)
      /\ streamSession' = IF Closes(w) THEN "ended" ELSE streamSession
      /\ UNCHANGED <<run, journal, streamed, mirrored, remote, mishaps>>
  BY StreamFacts DEF FlushEnd, StreamAt, StreamInv, StreamerFits
<1>2. streamer[w].then \in AfterFlush /\ streamer[w].then \in StreamPlace
  BY <1>1 DEF StreamerState, AfterFlush, StreamPlace
<1>3. Grows
  BY <1>1, StreamFacts DEF Grows
<1>4. RecorderTypes'
  BY <1>1 DEF StreamInv, RecorderTypes
<1>5. JournalFits'
  BY <1>1 DEF StreamInv, JournalFits, Journalled, NoSilentGap, HasEnd
<1>6. MirroredBeforeClose'
  <2>1. Closes(w) => WholeBut({})
    BY <1>1 DEF Closes, StreamInv, StreamerFits, FlushFits
  <2>2. QED
    BY <1>1, <2>1 DEF WholeBut, StreamInv, MirroredBeforeClose
<1>7. PICK r \in StreamerState :
          /\ streamer' = [streamer EXCEPT ![w] = r] /\ r.at = streamer[w].then
          /\ IF streamer[w].then = "idle" THEN r = StreamResting
             ELSE /\ r.then = streamer[w].then /\ r.seen = streamer[w].seen /\ r.last = streamer[w].last
                  /\ r.seq = streamer[w].seq /\ r.rows = streamer[w].rows
                  /\ r.method = streamer[w].method
  BY <1>1, <1>2, GotoTyped
<1>8. CASE streamer[w].then = "idle"
  BY <1>1, <1>3, <1>4, <1>5, <1>6, <1>7, <1>8, RestingTyped, StepTo DEF ReadingFits
<1>9. CASE streamer[w].then # "idle"
  <2>1. ToCreate(r) => ToCreate(streamer[w])
    BY <1>1, <1>2, <1>7, <1>9 DEF ToCreate, Onto, Flushing, AfterFlush
  <2>2. ReadingFits(r)'
    BY <1>1, <1>2, <1>7, <1>9 DEF StreamInv, StreamerFits, ReadingFits, Onto, Flushing, AfterFlush
  <2>3. r.at \notin {"rows", "ingest", "mark"}
    BY <1>2, <1>7 DEF AfterFlush
  <2>4. QED
    BY <1>1, <1>3, <1>4, <1>5, <1>6, <1>7, <2>1, <2>2, <2>3, StepTo
<1>10. QED
  BY <1>8, <1>9

-----------------------------------------------------------------------------
(* RuntimeStream: the theorems *)

LEMMA InitStreamInv == StreamInit => StreamInv
<1> SUFFICES ASSUME StreamInit PROVE StreamInv
  OBVIOUS
<1>1. MaxSequence \in Nat /\ MaxStreamRows \in Nat /\ MaxLeases \in Nat
  BY StreamAssumption
<1>2. run \in RunRow /\ ~run.made /\ run.status = "none" /\ ~run.response /\ run.cursor = Unset /\ ~run.gap
  BY <1>1 DEF StreamInit, RunRow, StreamStatus, Unset
<1>3. journal = <<>> /\ Len(journal) = 0 /\ remote = <<>> /\ journal \in Seq(EventRow)
      /\ remote \in Seq(StreamStatus)
  BY DEF StreamInit
<1>4. RecorderTypes
  BY <1>1, <1>2, <1>3 DEF StreamInit, RecorderTypes
<1>5. ASSUME NEW w \in Streamer
      PROVE  streamer[w] = StreamResting /\ streamer[w] \in StreamerState /\ StreamerFits(w)
             /\ ~ToCreate(streamer[w])
  <2>1. streamer[w] = StreamResting
    BY DEF StreamInit
  <2>2. streamer[w] \in StreamerState
    BY <1>1, <2>1 DEF StreamResting, StreamerState, StreamPlace, AfterFlush, StreamStatus, Unset
  <2>3. streamer[w].at = "idle"
    BY <2>1 DEF StreamResting
  <2>4. QED
    BY <2>1, <2>2, <2>3 DEF StreamerFits, ReadingFits, FlushFits, ToCreate, Onto, Flushing
<1>6. streamer \in [Streamer -> StreamerState]
  BY <1>5 DEF StreamInit
<1>7. ~ \E i \in 1 .. Len(journal) : TRUE
  BY <1>3
<1>8. JournalFits
  <2>1. \A s \in 0 .. run.cursor : FALSE
    BY <1>2 DEF Unset
  <2>2. QED
    BY <1>2, <1>3, <1>7, <2>1 DEF JournalFits, Journalled, NoSilentGap, Ended, Terminal
<1>9. MirroredBeforeClose
  BY DEF StreamInit, MirroredBeforeClose
<1>10. QED
  BY <1>4, <1>5, <1>6, <1>8, <1>9 DEF StreamInv, OneCreator

LEMMA NextStreamInv == StreamInv /\ [StreamNext]_streamVars => StreamInv'
<1> SUFFICES ASSUME StreamInv, [StreamNext]_streamVars PROVE StreamInv'
  OBVIOUS
<1>1. CASE UNCHANGED streamVars
  <2>1. UNCHANGED <<run, journal, streamed, mirrored, streamSession, remote, streamer, mishaps>>
    BY <1>1 DEF streamVars
  <2>2. mishaps' \in 0 .. MaxLeases /\ run' \in RunRow
    BY <2>1, StreamFacts DEF StreamInv, RecorderTypes
  <2>3. QED
    BY <2>1, <2>2, JournalQuiet, NobodyMoves
<1>2. CASE StreamNext
  <2>1. CASE \E status \in {"in_progress", "completed", "failed"} : ProviderEmits(status)
    BY <2>1, ProviderEmitsStep
  <2>2. CASE LeaseExpires
    BY <2>2, LeaseExpiresStep
  <2>3. CASE \E w \in Streamer : AppendRequest(w) \/ Refused(w) \/ Interrupted(w) \/ TransportError(w) \/ Cancel(w)
    BY <2>3, Appends
  <2>4. CASE \E w \in Streamer : StreamerDies(w) \/ Release(w)
    BY <2>4, StreamerLeaves
  <2>5. CASE \E w \in Streamer : \E s \in 0 .. MaxSequence : ReadLine(w, s)
    BY <2>5, ReadLineStep DEF Sequence
  <2>6. CASE \E w \in Streamer : \/ StartStream(w) \/ Resume(w) \/ TakeLease(w) \/ ConnectStream(w)
                                 \/ StreamEnds(w) \/ AskSnapshot(w) \/ AskCancel(w)
    BY <2>6, StartStreamStep, ResumeStep, TakeLeaseStep, ConnectStreamStep, StreamEndsStep,
       AskSnapshotStep, AskCancelStep
  <2>7. CASE \E w \in Streamer : ProviderEvent(w) \/ AcceptEvent(w) \/ Snapshot(w)
    BY <2>7, ProviderEventStep, AcceptEventStep, SnapshotStep
  <2>8. CASE \E w \in Streamer : \/ FlushBegin(w) \/ FlushRows(w) \/ IngestEvent(w) \/ FlushMark(w)
                                 \/ FlushEnd(w)
    BY <2>8, FlushBeginStep, FlushRowsStep, IngestEventStep, FlushMarkStep, FlushEndStep
  <2>9. QED
    BY <1>2, <2>1, <2>2, <2>3, <2>4, <2>5, <2>6, <2>7, <2>8 DEF StreamNext
<1>3. QED
  BY <1>1, <1>2

LEMMA AlwaysStreamInv == StreamSpec => []StreamInv
BY InitStreamInv, NextStreamInv, PTL DEF StreamSpec

\* In every state a recorder reaches, its rows, sets and program counters have
\* the shapes the code gives them (RunStore and PerplexityRuntimeRecorder).
THEOREM StreamTyped == StreamSpec => []StreamTypeOK
<1>1. StreamInv => StreamTypeOK
  BY DEF StreamInv, RecorderTypes, StreamTypeOK, RunRow, StreamStatus
<1>2. QED
  BY <1>1, AlwaysStreamInv, PTL

\* Only _append and the first row change the status of a run.
LEMMA StatusSteps ==
    ASSUME StreamInv, [StreamNext]_streamVars
    PROVE  /\ Ended(run.status) => run'.status = run.status
           /\ run.status = "cancelling" => run'.status \in Terminal \cup {"cancelling"}
<1> DEFINE Advances(status) ==
        /\ Ended(run.status) => status = run.status
        /\ run.status = "cancelling" => status \in Terminal \cup {"cancelling"}
<1>1. run \in RunRow
  BY StreamFacts
<1>2. Advances(run.status)
  OBVIOUS
<1>3. \A incoming : Advances(NextStatus(run.status, incoming))
  BY DEF NextStatus, Ended
<1>4. ASSUME NEW w \in Streamer, NEW key, NEW status, NEW seq, NEW gap, NEW then,
             RecordStream(w, key, status, seq, gap, then)
      PROVE  Advances(run'.status)
  <2>1. CASE Journalled(key)
    BY <1>2, <1>4, <2>1 DEF RecordStream
  <2>2. CASE ~Journalled(key)
    <3>1. run'.status = NextStatus(run.status, status)
      BY <1>1, <1>4, <2>2 DEF RecordStream, CurrentStatus, RunRow
    <3>2. QED
      BY <1>3, <3>1
  <2>3. QED
    BY <2>1, <2>2
<1>5. ASSUME run'.status = run.status PROVE Advances(run'.status)
  BY <1>2, <1>5
<1>6. ASSUME NEW w \in Streamer, StartStream(w) PROVE Advances(run'.status)
  BY <1>6 DEF StartStream, StreamInv, JournalFits, Ended, Terminal
<1> SUFFICES Advances(run'.status)
  OBVIOUS
<1> HIDE DEF Advances
<1>7. CASE UNCHANGED run
  BY <1>5, <1>7
<1>8. CASE StreamNext
  <2>1. CASE \E status \in {"in_progress", "completed", "failed"} : ProviderEmits(status)
    BY <1>7, <2>1 DEF ProviderEmits
  <2>2. CASE LeaseExpires
    BY <1>1, <1>5, <2>2 DEF LeaseExpires, RunRow
  <2>3. CASE \E w \in Streamer : \/ Resume(w) \/ ConnectStream(w) \/ StreamEnds(w) \/ AskSnapshot(w)
                                 \/ AskCancel(w) \/ FlushBegin(w) \/ FlushRows(w) \/ IngestEvent(w)
                                 \/ FlushMark(w) \/ FlushEnd(w) \/ StreamerDies(w)
    BY <1>7, <2>3 DEF Resume, ConnectStream, StreamEnds, AskSnapshot, AskCancel, FlushBegin, FlushRows,
       IngestEvent, FlushMark, FlushEnd, StreamerDies
  <2>4. CASE \E w \in Streamer : TakeLease(w) \/ Release(w) \/ \E s \in 0 .. MaxSequence : ReadLine(w, s)
    BY <1>1, <1>5, <2>4 DEF TakeLease, Release, ReadLine, RunRow
  <2>5. CASE \E w \in Streamer : \/ AppendRequest(w) \/ Refused(w) \/ Interrupted(w) \/ TransportError(w)
                                 \/ Cancel(w) \/ AcceptEvent(w) \/ Snapshot(w)
    BY <1>4, <2>5 DEF AppendRequest, Refused, Interrupted, TransportError, Cancel, AcceptEvent, Snapshot
  <2>6. CASE \E w \in Streamer : ProviderEvent(w)
    BY <1>4, <1>7, <2>6 DEF ProviderEvent
  <2>7. CASE \E w \in Streamer : StartStream(w)
    BY <1>6, <2>7
  <2>8. QED
    BY <1>8, <2>1, <2>2, <2>3, <2>4, <2>5, <2>6, <2>7 DEF StreamNext
<1>9. QED
  BY <1>7, <1>8 DEF streamVars

\* Whatever crashes, expired leases and concurrent flushes a run meets, it has
\* no unmarked gap up to its cursor, keeps the status it ended with, marks no
\* event delivered before the store has it and closes its session only when
\* the store has them all (_append, _provider_event and flush).
THEOREM StreamAlwaysHolds == StreamSpec => StreamHolds
<1>1. StreamInv => NoSilentGap /\ MirroredBeforeClose
  BY DEF StreamInv, JournalFits
<1>2. StreamInv /\ [StreamNext]_streamVars
      => [/\ Ended(run.status) => run'.status = run.status
          /\ run.status = "cancelling" => run'.status \in Terminal \cup {"cancelling"}]_streamVars
  BY StatusSteps
<1>3. QED
  BY <1>1, <1>2, AlwaysStreamInv, PTL DEF StreamSpec, StreamHolds, StatusOnlyAdvances

-----------------------------------------------------------------------------
(* RuntimeSessions: the inductive invariant *)

AgentOrNone == Agent \cup {NoAgent}
ToolHook == {"pre_tool_call", "post_tool_call"}
OpeningHook ==
    [at : {"opening", "inserting", "claiming", "scoping", "storing"}, kind : {"start", "turn"},
     session : Session, agent : AgentOrNone]
EventHook ==
    [at : {"opening", "inserting", "claiming", "recording"}, kind : {"event"}, session : Session,
     agent : AgentOrNone, invocation : ToolCall \cup {NoAgent},
     name : ToolHook \cup {"observer", "post_llm_call"}]
OtelRow == [invocation : ToolCall \cup {NoAgent}, hook : ToolHook \cup {"observer", "post_llm_call"}]
HookState == {Free} \cup OpeningHook \cup EventHook
EventOf(c, name) == [invocation |-> c, hook |-> name]

SessionsTypes ==
    /\ owner \in [Session -> AgentOrNone \cup {Absent}]
    /\ sources \in [Session -> SUBSET AgentOrNone]
    /\ events \in Seq(OtelRow)
    /\ binding \in [Process -> [Session -> AgentOrNone]]
    /\ hook \in [Process -> HookState]
    /\ asked \in [ToolCall -> {"new", "allowed", "blocked", "done"}]

\* Who is about to claim a session is the agent of its sources.
ClaimsFit ==
    /\ \A p \in Process : hook[p].at = "claiming" =>
          /\ hook[p].agent \in Agent /\ hook[p].agent \in sources[hook[p].session]
          /\ owner[hook[p].session] \in {NoAgent, hook[p].agent}
    /\ \A p, q \in Process :
          (/\ hook[p].at = "claiming" /\ hook[q].at = "claiming"
           /\ hook[p].session = hook[q].session) => hook[p].agent = hook[q].agent

\* The event a hook is about to leave, of a tool call.
Recording(h, c, name) == h \in EventHook /\ h.invocation = c /\ h.name = name
Recorded(c, name) == \E i \in DOMAIN events : events[i] = EventOf(c, name)

\* An invocation's intent is on disk before its outcome is on the way.
CallFits(c) ==
    /\ \A p \in Process : Recording(hook[p], c, "pre_tool_call") =>
          /\ asked[c] \in {"allowed", "blocked"} /\ ~Recorded(c, "post_tool_call")
          /\ \A q \in Process : ~Recording(hook[q], c, "post_tool_call")
    /\ \A p \in Process : Recording(hook[p], c, "post_tool_call") => asked[c] = "done"
    /\ Recorded(c, "post_tool_call") => asked[c] = "done"
    /\ \A i, j \in DOMAIN events :
          events[i] = EventOf(c, "pre_tool_call") /\ events[j] = EventOf(c, "post_tool_call") => i < j

SessionsInv == SessionsTypes /\ ClaimsFit /\ \A c \in ToolCall : CallFits(c)

\* What a process serves, by the place it has come to.
LEMMA HookFacts ==
    ASSUME SessionsInv, NEW p \in Process
    PROVE  /\ hook[p] \in HookState
           /\ hook[p] # Free => /\ hook[p] \in OpeningHook \cup EventHook
                                /\ hook[p].session \in Session /\ hook[p].agent \in AgentOrNone
                                /\ hook[p].kind \in {"start", "turn", "event"}
                                /\ (hook[p].kind = "event" <=> hook[p] \in EventHook)
           /\ hook[p].at = "claiming" => hook[p] # Free
           /\ \A c, name : Recording(hook[p], c, name) => hook[p] # Free /\ hook[p].kind = "event"
<1>1. hook[p] \in HookState
  BY DEF SessionsInv, SessionsTypes
<1>2. Free.at = "free"
  BY DEF Free
<1>3. Free \notin EventHook
  BY <1>2 DEF EventHook
<1>4. \A h \in EventHook : h.kind = "event" /\ h.session \in Session /\ h.agent \in AgentOrNone
  BY DEF EventHook
<1>5. \A h \in OpeningHook : h.kind \in {"start", "turn"} /\ h.session \in Session /\ h.agent \in AgentOrNone
  BY DEF OpeningHook
<1>6. QED
  BY <1>1, <1>2, <1>3, <1>4, <1>5 DEF HookState, Recording

LEMMA ClaimsKept ==
    ASSUME SessionsInv, NEW p \in Process, NEW h \in HookState, hook' = [hook EXCEPT ![p] = h],
           \A s \in Session : sources[s] \subseteq sources'[s],
           \A q \in Process : hook[q].at = "claiming" =>
               owner'[hook[q].session] \in {NoAgent, hook[q].agent},
           h.at = "claiming" =>
               h.agent \in Agent /\ sources[h.session] = {h.agent} /\ h.session \in Session
               /\ owner'[h.session] = NoAgent
    PROVE  ClaimsFit'
<1>1. hook'[p] = h /\ \A q \in Process : q # p => hook'[q] = hook[q]
  BY DEF SessionsInv, SessionsTypes
<1>2. ASSUME NEW q \in Process, hook[q].at = "claiming"
      PROVE  /\ hook[q].agent \in Agent /\ hook[q].agent \in sources[hook[q].session]
             /\ hook[q].session \in Session
  BY <1>2, HookFacts DEF SessionsInv, ClaimsFit
<1>3. ASSUME NEW q \in Process, hook'[q].at = "claiming"
      PROVE  /\ hook'[q].agent \in Agent /\ hook'[q].agent \in sources'[hook'[q].session]
             /\ owner'[hook'[q].session] \in {NoAgent, hook'[q].agent}
  <2>1. CASE q = p
    BY <1>1, <1>3, <2>1
  <2>2. CASE q # p
    BY <1>1, <1>2, <1>3, <2>2
  <2>3. QED
    BY <2>1, <2>2
<1>4. ASSUME NEW q \in Process, NEW r \in Process, hook'[q].at = "claiming", hook'[r].at = "claiming",
             hook'[q].session = hook'[r].session
      PROVE  hook'[q].agent = hook'[r].agent
  <2>1. CASE q # p /\ r # p
    BY <1>1, <1>4, <2>1 DEF SessionsInv, ClaimsFit
  <2>2. CASE q = p /\ r # p
    BY <1>1, <1>2, <1>4, <2>2
  <2>3. CASE q # p /\ r = p
    BY <1>1, <1>2, <1>4, <2>3
  <2>4. QED
    BY <2>1, <2>2, <2>3
<1>5. QED
  BY <1>3, <1>4 DEF ClaimsFit

LEMMA CallsKept ==
    ASSUME SessionsInv, NEW p \in Process, NEW h \in HookState, hook' = [hook EXCEPT ![p] = h],
           UNCHANGED <<events, asked>>,
           \A c \in ToolCall, name \in ToolHook : Recording(h, c, name) => Recording(hook[p], c, name)
    PROVE  \A c \in ToolCall : CallFits(c)'
<1>1. hook'[p] = h /\ \A q \in Process : q # p => hook'[q] = hook[q]
  BY DEF SessionsInv, SessionsTypes
<1>2. \A q \in Process, c \in ToolCall, name \in ToolHook :
          Recording(hook'[q], c, name) => Recording(hook[q], c, name)
  BY <1>1
<1>3. "pre_tool_call" \in ToolHook /\ "post_tool_call" \in ToolHook
  BY DEF ToolHook
<1>4. ASSUME NEW c \in ToolCall PROVE CallFits(c)'
  <2>1. \A name : Recorded(c, name)' <=> Recorded(c, name)
    BY DEF Recorded
  <2>2. QED
    BY <1>2, <1>3, <2>1 DEF SessionsInv, CallFits
<1>5. QED
  BY <1>4

\* A hook goes on; ownership, events and the harness are as they were.
LEMMA HookMoves ==
    ASSUME SessionsInv, NEW p \in Process, NEW h \in HookState, hook' = [hook EXCEPT ![p] = h],
           UNCHANGED <<owner, events, asked>>, binding' \in [Process -> [Session -> AgentOrNone]],
           sources' \in [Session -> SUBSET AgentOrNone], \A s \in Session : sources[s] \subseteq sources'[s],
           h.at = "claiming" =>
               h.agent \in Agent /\ sources[h.session] = {h.agent} /\ h.session \in Session
               /\ owner[h.session] = NoAgent,
           \A c \in ToolCall, name \in ToolHook : Recording(h, c, name) => Recording(hook[p], c, name)
    PROVE  SessionsInv'
<1>1. SessionsTypes'
  BY DEF SessionsInv, SessionsTypes
<1>2. \A q \in Process : hook[q].at = "claiming" => owner'[hook[q].session] \in {NoAgent, hook[q].agent}
  BY DEF SessionsInv, ClaimsFit
<1>3. ClaimsFit'
  BY <1>2, ClaimsKept
<1>4. \A c \in ToolCall : CallFits(c)'
  BY CallsKept
<1>5. QED
  BY <1>1, <1>3, <1>4 DEF SessionsInv

\* Free, and the hooks that record no tool call, are on no invocation.
LEMMA NotRecording ==
    /\ Free \in HookState /\ Free.at # "claiming"
    /\ \A h \in {Free} \cup OpeningHook : \A c, name : ~Recording(h, c, name)
    /\ \A h : h.name \in {"observer", "post_llm_call"} =>
          \A c : \A name \in ToolHook : ~Recording(h, c, name)
<1>1. Free.at = "free"
  BY DEF Free
<1>2. Free \notin EventHook
  BY <1>1 DEF EventHook
<1>3. \A h \in OpeningHook : h \notin EventHook
  BY DEF OpeningHook, EventHook
<1>4. QED
  BY <1>1, <1>2, <1>3 DEF HookState, Recording, ToolHook

LEMMA Delivered ==
    ASSUME SessionsInv, NEW p \in Process,
           \/ \E s \in Session, a \in Agent \cup {NoAgent} :
                 OnSessionStart(p, s, a) \/ PostLlmCall(p, s, a) \/ RememberIn(p, s, a)
           \/ \E s \in Session : ObserverEvent(p, s)
    PROVE  SessionsInv'
<1>1. binding \in [Process -> [Session -> AgentOrNone]] /\ sources \in [Session -> SUBSET AgentOrNone]
  BY DEF SessionsInv, SessionsTypes
<1>2. CASE \E s \in Session, a \in Agent \cup {NoAgent} :
              OnSessionStart(p, s, a) \/ PostLlmCall(p, s, a) \/ RememberIn(p, s, a)
  <2>1. PICK s \in Session, a \in AgentOrNone : OnSessionStart(p, s, a) \/ PostLlmCall(p, s, a) \/ RememberIn(p, s, a)
    BY <1>2 DEF AgentOrNone
  <2>2. PICK at \in {"opening", "scoping"}, kind \in {"start", "turn"} :
            hook' = [hook EXCEPT ![p] = [at |-> at, kind |-> kind, session |-> s, agent |-> a]]
    BY <2>1 DEF OnSessionStart, PostLlmCall, RememberIn, Deliver
  <2>3. PICK h : h = [at |-> at, kind |-> kind, session |-> s, agent |-> a]
    OBVIOUS
  <2>4. h \in OpeningHook /\ h.at # "claiming"
    BY <2>3 DEF OpeningHook
  <2>5. UNCHANGED <<owner, sources, events, binding, asked>>
    BY <2>1 DEF OnSessionStart, PostLlmCall, RememberIn
  <2>6. QED
    BY <1>1, <2>2, <2>3, <2>4, <2>5, NotRecording, HookMoves DEF HookState
<1>3. CASE \E s \in Session : ObserverEvent(p, s)
  <2>1. PICK s \in Session : ObserverEvent(p, s)
    BY <1>3
  <2>2. PICK h : h = Event(p, s, NoAgent, "observer")
    OBVIOUS
  <2>3. h \in EventHook /\ h.at # "claiming" /\ h.name = "observer"
    BY <1>1, <2>2 DEF Event, EventHook
  <2>4. hook' = [hook EXCEPT ![p] = h] /\ UNCHANGED <<owner, sources, events, binding, asked>>
    BY <2>1, <2>2 DEF ObserverEvent, Deliver
  <2>5. \A c \in ToolCall, name \in ToolHook : ~Recording(h, c, name)
    BY <2>3, NotRecording
  <2>6. QED
    BY <1>1, <2>3, <2>4, <2>5, HookMoves DEF HookState
<1>4. QED
  BY <1>2, <1>3

\* The events of tool calls, and where the harness is with them.
LEMMA PreToolCallStep ==
    ASSUME SessionsInv, NEW p \in Process, NEW c \in ToolCall, NEW intent \in BOOLEAN, PreToolCall(p, c, intent)
    PROVE  SessionsInv'
<1> DEFINE says == IF intent THEN "allowed" ELSE "blocked"
<1>1. /\ hook[p] = Free /\ asked[c] = "new" /\ asked' = [asked EXCEPT ![c] = says]
      /\ hook' = [hook EXCEPT ![p] = Event(p, InSession[c], c, "pre_tool_call")]
      /\ UNCHANGED <<owner, sources, events, binding>>
  BY DEF PreToolCall, Deliver
<1>2. says \in {"allowed", "blocked"}
  OBVIOUS
<1> HIDE DEF says
<1>3. PICK h : h = Event(p, InSession[c], c, "pre_tool_call")
  OBVIOUS
<1>4. h \in EventHook /\ h.at # "claiming" /\ h.invocation = c /\ h.name = "pre_tool_call"
  BY <1>3, RuntimeAssumption DEF SessionsInv, SessionsTypes, Event, EventHook, ToolHook
<1>5. hook'[p] = h /\ \A q \in Process : q # p => hook'[q] = hook[q]
  BY <1>1, <1>3 DEF SessionsInv, SessionsTypes
<1>6. SessionsTypes'
  BY <1>1, <1>2, <1>3, <1>4 DEF SessionsInv, SessionsTypes, HookState
<1>7. ClaimsFit'
  BY <1>1, <1>3, <1>4, ClaimsKept DEF SessionsInv, ClaimsFit, HookState
<1>8. ASSUME NEW d \in ToolCall PROVE CallFits(d)'
  <2>1. \A name : Recorded(d, name)' <=> Recorded(d, name)
    BY <1>1 DEF Recorded
  <2>2. asked'[d] = IF d = c THEN says ELSE asked[d]
    BY <1>1 DEF SessionsInv, SessionsTypes
  <2>3. \A q \in Process : /\ Recording(hook'[q], d, "post_tool_call") => Recording(hook[q], d, "post_tool_call")
                           /\ Recording(hook'[q], d, "pre_tool_call") =>
                                Recording(hook[q], d, "pre_tool_call") \/ (q = p /\ d = c)
    BY <1>4, <1>5 DEF Recording
  <2>4. CallFits(d)
    BY DEF SessionsInv
  <2>5. CASE d = c
    BY <1>1, <1>2, <2>1, <2>2, <2>3, <2>4, <2>5 DEF CallFits
  <2>6. CASE d # c
    BY <1>1, <2>1, <2>2, <2>3, <2>4, <2>6 DEF CallFits
  <2>7. QED
    BY <2>5, <2>6
<1>9. QED
  BY <1>6, <1>7, <1>8 DEF SessionsInv

LEMMA PostToolCallStep ==
    ASSUME SessionsInv, NEW p \in Process, NEW c \in ToolCall, PostToolCall(p, c)
    PROVE  SessionsInv'
<1>1. /\ hook[p] = Free /\ asked[c] = "allowed" /\ asked' = [asked EXCEPT ![c] = "done"]
      /\ \A q \in Process : hook[q] # Free /\ hook[q].kind = "event" => hook[q].invocation # c
      /\ hook' = [hook EXCEPT ![p] = Event(p, InSession[c], c, "post_tool_call")]
      /\ UNCHANGED <<owner, sources, events, binding>>
  BY DEF PostToolCall, Deliver
<1>2. \A q \in Process : \A name : ~Recording(hook[q], c, name)
  BY <1>1, HookFacts DEF Recording
<1>3. PICK h : h = Event(p, InSession[c], c, "post_tool_call")
  OBVIOUS
<1>4. h \in EventHook /\ h.at # "claiming" /\ h.invocation = c /\ h.name = "post_tool_call"
  BY <1>3, RuntimeAssumption DEF SessionsInv, SessionsTypes, Event, EventHook, ToolHook
<1>5. hook'[p] = h /\ \A q \in Process : q # p => hook'[q] = hook[q]
  BY <1>1, <1>3 DEF SessionsInv, SessionsTypes
<1>6. SessionsTypes'
  BY <1>1, <1>3, <1>4 DEF SessionsInv, SessionsTypes, HookState
<1>7. ClaimsFit'
  BY <1>1, <1>3, <1>4, ClaimsKept DEF SessionsInv, ClaimsFit, HookState
<1>8. ASSUME NEW d \in ToolCall PROVE CallFits(d)'
  <2>1. \A name : Recorded(d, name)' <=> Recorded(d, name)
    BY <1>1 DEF Recorded
  <2>2. asked'[d] = IF d = c THEN "done" ELSE asked[d]
    BY <1>1 DEF SessionsInv, SessionsTypes
  <2>3. \A q \in Process : /\ Recording(hook'[q], d, "pre_tool_call") => Recording(hook[q], d, "pre_tool_call")
                           /\ Recording(hook'[q], d, "post_tool_call") =>
                                Recording(hook[q], d, "post_tool_call") \/ (q = p /\ d = c)
    BY <1>4, <1>5 DEF Recording
  <2>4. CallFits(d)
    BY DEF SessionsInv
  <2>5. CASE d = c
    BY <1>1, <1>2, <2>1, <2>2, <2>3, <2>4, <2>5 DEF CallFits
  <2>6. CASE d # c
    BY <1>1, <2>1, <2>2, <2>3, <2>4, <2>6 DEF CallFits
  <2>7. QED
    BY <2>5, <2>6
<1>9. QED
  BY <1>6, <1>7, <1>8 DEF SessionsInv

\* Where open_session leaves a hook: a start returns, a turn stores, an event
\* is recorded; the binding is the hook's own.
LEMMA OpenedTo ==
    ASSUME SessionsInv, NEW p \in Process, hook[p] # Free, Opened(p)
    PROVE  /\ binding' \in [Process -> [Session -> AgentOrNone]]
           /\ \E h \in HookState :
                 /\ hook' = [hook EXCEPT ![p] = h] /\ h.at # "claiming"
                 /\ \A c \in ToolCall, name \in ToolHook : Recording(h, c, name) => Recording(hook[p], c, name)
<1>1. /\ hook[p] \in OpeningHook \cup EventHook /\ hook[p].session \in Session /\ hook[p].agent \in AgentOrNone
      /\ hook[p].kind \in {"start", "turn", "event"} /\ (hook[p].kind = "event" <=> hook[p] \in EventHook)
  BY HookFacts
<1>2. binding \in [Process -> [Session -> AgentOrNone]]
  BY DEF SessionsInv, SessionsTypes
<1>3. binding' \in [Process -> [Session -> AgentOrNone]]
  <2>1. CASE hook[p].kind = "event"
    BY <1>2, <2>1 DEF Opened
  <2>2. CASE hook[p].kind # "event"
    BY <1>1, <1>2, <2>2 DEF Opened
  <2>3. QED
    BY <2>1, <2>2
<1>4. CASE hook[p].kind = "start"
  <2>1. hook' = [hook EXCEPT ![p] = Free]
    BY <1>4 DEF Opened, Raise
  <2>2. QED
    BY <1>3, <2>1, NotRecording
<1>5. CASE hook[p].kind = "turn"
  <2>1. PICK h : h = [hook[p] EXCEPT !.at = "scoping"]
    OBVIOUS
  <2>2. hook' = [hook EXCEPT ![p] = h]
    BY <1>5, <2>1 DEF Opened, Goto
  <2>3. h \in OpeningHook /\ h.at # "claiming"
    BY <1>1, <1>5, <2>1 DEF OpeningHook
  <2>4. QED
    BY <1>3, <2>2, <2>3, NotRecording DEF HookState
<1>6. CASE hook[p].kind = "event"
  <2>1. PICK h : h = [hook[p] EXCEPT !.at = "recording"]
    OBVIOUS
  <2>2. hook' = [hook EXCEPT ![p] = h]
    BY <1>6, <2>1 DEF Opened, Goto
  <2>3. /\ h \in EventHook /\ h.at # "claiming" /\ h.name = hook[p].name
        /\ h.invocation = hook[p].invocation
    BY <1>1, <1>6, <2>1 DEF EventHook
  <2>4. QED
    BY <1>1, <1>3, <1>6, <2>2, <2>3 DEF HookState, Recording
<1>7. QED
  BY <1>1, <1>4, <1>5, <1>6

\* A place to wait at, the hook otherwise unchanged.
LEMMA GoesTo ==
    ASSUME SessionsInv, NEW p \in Process, hook[p] # Free, NEW place \in {"inserting", "claiming"}, Goto(p, place)
    PROVE  \E h \in HookState :
              /\ hook' = [hook EXCEPT ![p] = h] /\ h.at = place
              /\ h.session = hook[p].session /\ h.agent = hook[p].agent
              /\ \A c \in ToolCall, name \in ToolHook : Recording(h, c, name) => Recording(hook[p], c, name)
<1>1. hook[p] \in OpeningHook \cup EventHook
  BY HookFacts
<1>2. PICK h : h = [hook[p] EXCEPT !.at = place]
  OBVIOUS
<1>3. hook' = [hook EXCEPT ![p] = h]
  BY <1>2 DEF Goto
<1>4. CASE hook[p] \in OpeningHook
  <2>1. h \in OpeningHook /\ h.at = place /\ h.session = hook[p].session /\ h.agent = hook[p].agent
    BY <1>2, <1>4 DEF OpeningHook
  <2>2. QED
    BY <1>3, <2>1, NotRecording DEF HookState
<1>5. CASE hook[p] \in EventHook
  <2>1. /\ h \in EventHook /\ h.at = place /\ h.session = hook[p].session /\ h.agent = hook[p].agent
        /\ h.name = hook[p].name /\ h.invocation = hook[p].invocation
    BY <1>2, <1>5 DEF EventHook
  <2>2. QED
    BY <1>3, <1>5, <2>1 DEF HookState, Recording
<1>6. QED
  BY <1>1, <1>4, <1>5

\* An exception ends the hook.
LEMMA Raised ==
    ASSUME SessionsInv, NEW p \in Process, Raise(p), UNCHANGED <<owner, sources, events, asked>>,
           binding' \in [Process -> [Session -> AgentOrNone]]
    PROVE  SessionsInv'
<1>1. sources \in [Session -> SUBSET AgentOrNone] /\ hook' = [hook EXCEPT ![p] = Free]
  BY DEF SessionsInv, SessionsTypes, Raise
<1>2. QED
  BY <1>1, NotRecording, HookMoves

LEMMA OpenSessionStep ==
    ASSUME SessionsInv, NEW p \in Process, OpenSession(p)
    PROVE  SessionsInv'
<1>1. /\ hook[p] # Free /\ UNCHANGED <<owner, sources, events, asked>>
      /\ binding \in [Process -> [Session -> AgentOrNone]] /\ sources \in [Session -> SUBSET AgentOrNone]
      /\ owner \in [Session -> AgentOrNone \cup {Absent}]
  BY DEF OpenSession, SessionsInv, SessionsTypes
<1>2. hook[p].session \in Session /\ hook[p].agent \in AgentOrNone
  BY <1>1, HookFacts
<1>3. \/ Goto(p, "inserting") /\ UNCHANGED binding
      \/ Raise(p) /\ UNCHANGED binding
      \/ /\ hook[p].agent # NoAgent /\ owner[hook[p].session] = NoAgent
         /\ Evidenced(hook[p].session, hook[p].agent) /\ Goto(p, "claiming") /\ UNCHANGED binding
      \/ Opened(p)
  BY DEF OpenSession
<1>4. CASE Goto(p, "inserting") /\ UNCHANGED binding
  <2>1. PICK h \in HookState :
            /\ hook' = [hook EXCEPT ![p] = h] /\ h.at = "inserting"
            /\ \A c \in ToolCall, name \in ToolHook : Recording(h, c, name) => Recording(hook[p], c, name)
    BY <1>1, <1>4, GoesTo
  <2>2. QED
    BY <1>1, <1>4, <2>1, HookMoves
<1>5. CASE Raise(p) /\ UNCHANGED binding
  BY <1>1, <1>5, Raised
<1>6. CASE /\ hook[p].agent # NoAgent /\ owner[hook[p].session] = NoAgent
           /\ Evidenced(hook[p].session, hook[p].agent) /\ Goto(p, "claiming") /\ UNCHANGED binding
  <2>1. PICK h \in HookState :
            /\ hook' = [hook EXCEPT ![p] = h] /\ h.at = "claiming"
            /\ h.session = hook[p].session /\ h.agent = hook[p].agent
            /\ \A c \in ToolCall, name \in ToolHook : Recording(h, c, name) => Recording(hook[p], c, name)
    BY <1>1, <1>6, GoesTo
  <2>2. sources[hook[p].session] = {hook[p].agent}
    <3>1. {owner[hook[p].session]} \cap Agent = {}
      BY <1>6, RuntimeAssumption
    <3>2. QED
      BY <1>6, <3>1 DEF Evidenced, Identities
  <2>3. hook[p].agent \in Agent
    BY <1>2, <1>6 DEF AgentOrNone
  <2>4. QED
    BY <1>1, <1>2, <1>6, <2>1, <2>2, <2>3, HookMoves
<1>7. CASE Opened(p)
  <2>1. binding' \in [Process -> [Session -> AgentOrNone]]
    BY <1>1, <1>7, OpenedTo
  <2>2. PICK h \in HookState :
            /\ hook' = [hook EXCEPT ![p] = h] /\ h.at # "claiming"
            /\ \A c \in ToolCall, name \in ToolHook : Recording(h, c, name) => Recording(hook[p], c, name)
    BY <1>1, <1>7, OpenedTo
  <2>3. QED
    BY <1>1, <2>1, <2>2, HookMoves
<1>8. QED
  BY <1>3, <1>4, <1>5, <1>6, <1>7

\* The two writes of a session's owner.
LEMMA OwnerWritten ==
    ASSUME SessionsInv, NEW p \in Process, hook[p] # Free, Opened(p),
           owner' = [owner EXCEPT ![hook[p].session] = hook[p].agent],
           \A q \in Process : hook[q].at = "claiming" /\ hook[q].session = hook[p].session =>
               hook[p].agent = hook[q].agent,
           UNCHANGED <<sources, events, asked>>
    PROVE  SessionsInv'
<1>1. binding' \in [Process -> [Session -> AgentOrNone]]
  BY OpenedTo
<1>2. PICK h \in HookState :
          /\ hook' = [hook EXCEPT ![p] = h] /\ h.at # "claiming"
          /\ \A c \in ToolCall, name \in ToolHook : Recording(h, c, name) => Recording(hook[p], c, name)
  BY OpenedTo
<1>3. hook[p].session \in Session /\ hook[p].agent \in AgentOrNone
  BY HookFacts
<1>4. SessionsTypes'
  BY <1>1, <1>2, <1>3 DEF SessionsInv, SessionsTypes
<1>5. \A q \in Process : hook[q].at = "claiming" => owner'[hook[q].session] \in {NoAgent, hook[q].agent}
  <2>1. SUFFICES ASSUME NEW q \in Process, hook[q].at = "claiming"
                 PROVE  owner'[hook[q].session] \in {NoAgent, hook[q].agent}
    OBVIOUS
  <2>2. owner[hook[q].session] \in {NoAgent, hook[q].agent} /\ hook[q].session \in Session
    BY <2>1, HookFacts DEF SessionsInv, ClaimsFit
  <2>3. QED
    BY <1>3, <2>1, <2>2 DEF SessionsInv, SessionsTypes
<1>6. ClaimsFit'
  BY <1>2, <1>5, ClaimsKept
<1>7. \A c \in ToolCall : CallFits(c)'
  BY <1>2, CallsKept
<1>8. QED
  BY <1>4, <1>6, <1>7 DEF SessionsInv

LEMMA InsertSessionStep ==
    ASSUME SessionsInv, NEW p \in Process, InsertSession(p)
    PROVE  SessionsInv'
<1>1. hook[p] # Free /\ UNCHANGED <<sources, events, asked>>
  BY DEF InsertSession
<1>2. CASE owner[hook[p].session] = Absent
  <2>1. owner' = [owner EXCEPT ![hook[p].session] = hook[p].agent] /\ Opened(p)
    BY <1>2 DEF InsertSession
  <2>2. \A q \in Process : hook[q].at = "claiming" => owner[hook[q].session] # Absent
    <3>1. Absent # NoAgent /\ Absent \notin Agent
      BY RuntimeAssumption DEF Absent, NoAgent
    <3>2. QED
      BY <3>1 DEF SessionsInv, ClaimsFit
  <2>3. QED
    BY <1>1, <1>2, <2>1, <2>2, OwnerWritten
<1>3. CASE owner[hook[p].session] # Absent
  <2>1. Raise(p) /\ UNCHANGED <<owner, binding>>
    BY <1>3 DEF InsertSession
  <2>2. QED
    BY <1>1, <2>1, Raised DEF SessionsInv, SessionsTypes
<1>4. QED
  BY <1>2, <1>3

LEMMA ClaimSessionStep ==
    ASSUME SessionsInv, NEW p \in Process, ClaimSession(p)
    PROVE  SessionsInv'
<1>1. /\ hook[p] # Free /\ hook[p].at = "claiming" /\ Opened(p)
      /\ owner' = [owner EXCEPT ![hook[p].session] = hook[p].agent]
      /\ UNCHANGED <<sources, events, asked>>
  BY DEF ClaimSession
<1>2. \A q \in Process : hook[q].at = "claiming" /\ hook[q].session = hook[p].session =>
          hook[p].agent = hook[q].agent
  BY <1>1 DEF SessionsInv, ClaimsFit
<1>3. QED
  BY <1>1, <1>2, OwnerWritten

LEMMA ScopeMemoryStep ==
    ASSUME SessionsInv, NEW p \in Process, ScopeMemory(p)
    PROVE  SessionsInv'
<1> DEFINE scope == owner[hook[p].session]
<1>1. /\ hook[p] # Free /\ hook[p].at = "scoping" /\ UNCHANGED <<owner, sources, events, binding, asked>>
      /\ binding \in [Process -> [Session -> AgentOrNone]] /\ sources \in [Session -> SUBSET AgentOrNone]
  BY DEF ScopeMemory, SessionsInv, SessionsTypes
<1>2. hook[p] \in OpeningHook
  BY <1>1, HookFacts DEF EventHook
<1>3. CASE scope \in Agent /\ hook[p].agent \notin {NoAgent, scope}
  BY <1>1, <1>3, Raised DEF ScopeMemory
<1>4. CASE ~(scope \in Agent /\ hook[p].agent \notin {NoAgent, scope})
  <2>1. PICK a \in AgentOrNone : a = IF scope \in Agent THEN scope ELSE hook[p].agent
    BY <1>2 DEF OpeningHook, AgentOrNone
  <2>2. PICK h : h = [hook[p] EXCEPT !.at = "storing", !.agent = a]
    OBVIOUS
  <2>3. h \in OpeningHook /\ h.at # "claiming"
    BY <1>2, <2>2 DEF OpeningHook
  <2>4. hook' = [hook EXCEPT ![p] = h]
    BY <1>4, <2>1, <2>2 DEF ScopeMemory
  <2>5. QED
    BY <1>1, <2>3, <2>4, NotRecording, HookMoves DEF HookState
<1>5. QED
  BY <1>3, <1>4

LEMMA StoreMemoryStep ==
    ASSUME SessionsInv, NEW p \in Process, StoreMemory(p)
    PROVE  SessionsInv'
<1>1. /\ hook[p] # Free /\ UNCHANGED <<owner, events, binding, asked>>
      /\ sources' = [sources EXCEPT ![hook[p].session] = @ \cup {hook[p].agent}]
      /\ hook' = [hook EXCEPT ![p] = Event(p, hook[p].session, NoAgent, "post_llm_call")]
      /\ binding \in [Process -> [Session -> AgentOrNone]] /\ sources \in [Session -> SUBSET AgentOrNone]
  BY DEF StoreMemory, SessionsInv, SessionsTypes
<1>2. hook[p].session \in Session /\ hook[p].agent \in AgentOrNone
  BY <1>1, HookFacts
<1>3. PICK h : h = Event(p, hook[p].session, NoAgent, "post_llm_call")
  OBVIOUS
<1>4. h \in EventHook /\ h.at # "claiming" /\ h.name = "post_llm_call"
  BY <1>1, <1>2, <1>3 DEF Event, EventHook
<1>5. \A c \in ToolCall, name \in ToolHook : ~Recording(h, c, name)
  BY <1>4, NotRecording
<1>6. sources' \in [Session -> SUBSET AgentOrNone] /\ \A s \in Session : sources[s] \subseteq sources'[s]
  BY <1>1, <1>2
<1>7. QED
  BY <1>1, <1>3, <1>4, <1>5, <1>6, HookMoves DEF HookState

LEMMA RestartStep ==
    ASSUME SessionsInv, NEW p \in Process, Restart(p)
    PROVE  SessionsInv'
<1>1. /\ Raise(p) /\ UNCHANGED <<owner, sources, events, asked>>
      /\ binding' = [binding EXCEPT ![p] = [s \in Session |-> NoAgent]]
  BY DEF Restart
<1>2. binding' \in [Process -> [Session -> AgentOrNone]]
  BY <1>1 DEF SessionsInv, SessionsTypes, AgentOrNone
<1>3. QED
  BY <1>1, <1>2, Raised

\* A row of otel_events: an intent has its index before its outcome.
LEMMA RecordEventStep ==
    ASSUME SessionsInv, NEW p \in Process, RecordEvent(p)
    PROVE  SessionsInv'
<1> DEFINE entry == EventOf(hook[p].invocation, hook[p].name)
<1>1. /\ hook[p] # Free /\ hook[p].at = "recording" /\ UNCHANGED <<owner, sources, binding, asked>>
      /\ events' = Append(events, entry) /\ hook' = [hook EXCEPT ![p] = Free]
  BY DEF RecordEvent, Raise, EventOf
<1>2. hook[p] \in EventHook
  BY <1>1, HookFacts DEF OpeningHook
<1>3. \A c, name : entry = EventOf(c, name) => Recording(hook[p], c, name)
  BY <1>2 DEF EventOf, Recording
<1>4. entry \in OtelRow
  BY <1>2 DEF EventHook, EventOf, OtelRow
<1> HIDE DEF entry
<1>5. /\ Len(events) \in Nat /\ DOMAIN events = 1 .. Len(events)
      /\ events' \in Seq(OtelRow)
      /\ DOMAIN events' = 1 .. Len(events) + 1 /\ events'[Len(events) + 1] = entry
      /\ \A i \in DOMAIN events : events'[i] = events[i]
  BY <1>1, <1>4 DEF SessionsInv, SessionsTypes
<1>6. hook'[p] = Free /\ \A q \in Process : q # p => hook'[q] = hook[q]
  BY <1>1 DEF SessionsInv, SessionsTypes
<1>7. SessionsTypes'
  BY <1>1, <1>5, NotRecording DEF SessionsInv, SessionsTypes
<1>8. ClaimsFit'
  BY <1>1, NotRecording, ClaimsKept DEF SessionsInv, ClaimsFit
<1>9. ASSUME NEW c \in ToolCall PROVE CallFits(c)'
  <2>1. \A q \in Process : \A name : Recording(hook'[q], c, name) => q # p /\ Recording(hook[q], c, name)
    BY <1>6, NotRecording
  <2>2. CallFits(c)
    BY DEF SessionsInv
  <2>3. \A i \in DOMAIN events' : i \in DOMAIN events \/ i = Len(events) + 1
    BY <1>5
  <2>4. \A name : Recorded(c, name)' => Recorded(c, name) \/ Recording(hook[p], c, name)
    BY <1>3, <1>5, <2>3 DEF Recorded
  <2>5. ASSUME NEW i \in DOMAIN events', NEW j \in DOMAIN events',
               events'[i] = EventOf(c, "pre_tool_call"), events'[j] = EventOf(c, "post_tool_call")
        PROVE  i < j
    <3>1. EventOf(c, "pre_tool_call") # EventOf(c, "post_tool_call")
      BY DEF EventOf
    <3>2. CASE i \in DOMAIN events /\ j \in DOMAIN events
      BY <1>5, <2>2, <2>5, <3>2 DEF CallFits
    <3>3. CASE i \in DOMAIN events /\ j = Len(events) + 1
      BY <1>5, <3>3
    <3>4. CASE i = Len(events) + 1 /\ j \in DOMAIN events
      <4>1. Recording(hook[p], c, "pre_tool_call") /\ Recorded(c, "post_tool_call")
        BY <1>3, <1>5, <2>5, <3>4 DEF Recorded
      <4>2. QED
        BY <2>2, <4>1 DEF CallFits
    <3>5. CASE i = Len(events) + 1 /\ j = Len(events) + 1
      BY <2>5, <3>1, <3>5
    <3>6. QED
      BY <2>3, <3>2, <3>3, <3>4, <3>5
  <2>6. ASSUME NEW q \in Process, Recording(hook'[q], c, "pre_tool_call")
        PROVE  /\ asked'[c] \in {"allowed", "blocked"} /\ ~Recorded(c, "post_tool_call")'
               /\ \A r \in Process : ~Recording(hook'[r], c, "post_tool_call")
    BY <1>1, <2>1, <2>2, <2>4, <2>6 DEF CallFits
  <2>7. \A q \in Process : Recording(hook'[q], c, "post_tool_call") => asked'[c] = "done"
    BY <1>1, <2>1, <2>2 DEF CallFits
  <2>8. Recorded(c, "post_tool_call")' => asked'[c] = "done"
    BY <1>1, <2>2, <2>4 DEF CallFits
  <2>9. QED
    BY <2>5, <2>6, <2>7, <2>8 DEF CallFits
<1>10. QED
  BY <1>7, <1>8, <1>9 DEF SessionsInv

-----------------------------------------------------------------------------
(* RuntimeSessions: the theorems *)

LEMMA InitSessionsInv == RuntimeInit => SessionsInv
<1> SUFFICES ASSUME RuntimeInit PROVE SessionsInv
  OBVIOUS
<1>1. SessionsTypes
  BY DEF RuntimeInit, SessionsTypes, AgentOrNone, HookState
<1>2. \A p \in Process : hook[p] = Free
  BY DEF RuntimeInit
<1>3. ClaimsFit
  BY <1>2, NotRecording DEF ClaimsFit
<1>4. events = <<>> /\ DOMAIN events = {}
  BY DEF RuntimeInit
<1>5. \A c \in ToolCall : CallFits(c)
  BY <1>2, <1>4, NotRecording DEF CallFits, Recorded
<1>6. QED
  BY <1>1, <1>3, <1>5 DEF SessionsInv

LEMMA NextSessionsInv == SessionsInv /\ [RuntimeNext]_runtimeVars => SessionsInv'
<1> SUFFICES ASSUME SessionsInv, [RuntimeNext]_runtimeVars PROVE SessionsInv'
  OBVIOUS
<1>1. CASE UNCHANGED runtimeVars
  BY <1>1 DEF runtimeVars, SessionsInv, SessionsTypes, ClaimsFit, CallFits, Recorded
<1>2. CASE RuntimeNext
  <2>1. PICK p \in Process :
            \/ \/ \E s \in Session, a \in Agent \cup {NoAgent} :
                    OnSessionStart(p, s, a) \/ PostLlmCall(p, s, a) \/ RememberIn(p, s, a)
               \/ \E s \in Session : ObserverEvent(p, s)
            \/ \E c \in ToolCall, intent \in BOOLEAN : PreToolCall(p, c, intent)
            \/ \E c \in ToolCall : PostToolCall(p, c)
            \/ OpenSession(p) \/ InsertSession(p) \/ ClaimSession(p)
            \/ ScopeMemory(p) \/ StoreMemory(p) \/ RecordEvent(p)
            \/ Restart(p)
    BY <1>2 DEF RuntimeNext
  <2>2. QED
    BY <2>1, Delivered, PreToolCallStep, PostToolCallStep, OpenSessionStep, InsertSessionStep,
       ClaimSessionStep, ScopeMemoryStep, StoreMemoryStep, RecordEventStep, RestartStep
<1>3. QED
  BY <1>1, <1>2

LEMMA AlwaysSessionsInv == RuntimeSpec => []SessionsInv
BY InitSessionsInv, NextSessionsInv, PTL DEF RuntimeSpec

\* The owner of a session is written where it was absent, or by a claim that
\* agrees with it.
LEMMA OwnerSteps ==
    ASSUME SessionsInv, [RuntimeNext]_runtimeVars, NEW s \in Session, owner[s] \in Agent
    PROVE  owner'[s] = owner[s]
<1>1. owner[s] \notin {NoAgent, Absent} /\ owner \in [Session -> AgentOrNone \cup {Absent}]
  BY RuntimeAssumption DEF SessionsInv, SessionsTypes
<1>2. CASE UNCHANGED owner
  BY <1>2
<1>3. ASSUME NEW p \in Process, InsertSession(p) PROVE owner'[s] = owner[s]
  BY <1>1, <1>3 DEF InsertSession
<1>4. ASSUME NEW p \in Process, ClaimSession(p) PROVE owner'[s] = owner[s]
  BY <1>1, <1>4 DEF ClaimSession, SessionsInv, ClaimsFit
<1>5. CASE \E p \in Process :
            \/ \E t \in Session, a \in Agent \cup {NoAgent} :
                  OnSessionStart(p, t, a) \/ PostLlmCall(p, t, a) \/ RememberIn(p, t, a)
            \/ \E t \in Session : ObserverEvent(p, t)
            \/ \E c \in ToolCall, intent \in BOOLEAN : PreToolCall(p, c, intent)
            \/ \E c \in ToolCall : PostToolCall(p, c)
  BY <1>5 DEF OnSessionStart, PostLlmCall, RememberIn, ObserverEvent, PreToolCall, PostToolCall
<1>6. CASE \E p \in Process : \/ OpenSession(p) \/ ScopeMemory(p) \/ StoreMemory(p) \/ RecordEvent(p)
                              \/ Restart(p)
  BY <1>6 DEF OpenSession, ScopeMemory, StoreMemory, RecordEvent, Restart
<1>7. QED
  BY <1>2, <1>3, <1>4, <1>5, <1>6 DEF RuntimeNext, runtimeVars

\* An intent among the latest rows has its outcome there too, if there is one.
LEMMA AwaitingHolds == SessionsInv => AwaitingIsTrue
<1> SUFFICES ASSUME SessionsInv, NEW c \in ToolCall, RuntimeStatus(c) = "awaiting_outcome",
                    "post_tool_call" \in Stages(events, c)
             PROVE  FALSE
  BY DEF AwaitingIsTrue
<1> DEFINE first == Len(events) - Window + 1
           shown == IF Len(events) <= Window THEN events ELSE Recent
<1>1. /\ events \in Seq(OtelRow) /\ Len(events) \in Nat /\ DOMAIN events = 1 .. Len(events)
      /\ Window \in Nat \ {0} /\ \A i \in 1 .. Len(events) : events[i] \in OtelRow
  BY RuntimeAssumption DEF SessionsInv, SessionsTypes
<1>2. "pre_tool_call" \in Stages(shown, c) /\ "post_tool_call" \notin Stages(shown, c)
  BY DEF RuntimeStatus
<1>3. PICK j \in 1 .. Len(events) : events[j].invocation = c /\ events[j].hook = "post_tool_call"
  BY <1>1 DEF Stages
<1>4. events[j] = EventOf(c, "post_tool_call")
  BY <1>1, <1>3 DEF EventOf, OtelRow
<1>5. CASE Len(events) <= Window
  BY <1>2, <1>5
<1>6. CASE ~(Len(events) <= Window)
  <2>1. first \in 1 .. Len(events) /\ first \in Nat
    BY <1>1, <1>6
  <2>2. /\ Recent \in Seq(OtelRow) /\ DOMAIN Recent = 1 .. Window
        /\ \A i \in 1 .. Window : Recent[i] = events[first + i - 1]
    <3>1. Len(events) - first + 1 = Window
      BY <1>1
    <3>2. Recent = SubSeq(events, first, Len(events))
      BY DEF Recent
    <3>3. /\ Recent \in Seq(OtelRow) /\ Len(Recent) = Window
          /\ \A i \in 1 .. Window : Recent[i] = events[first + i - 1]
      BY <1>1, <2>1, <3>1, <3>2, SubSeqProperties
    <3>4. QED
      BY <3>3, LenProperties
  <2> HIDE DEF first
  <2>3. "pre_tool_call" \in Stages(Recent, c) /\ "post_tool_call" \notin Stages(Recent, c)
    BY <1>2, <1>6
  <2>4. PICK k \in 1 .. Window : Recent[k].invocation = c /\ Recent[k].hook = "pre_tool_call"
    BY <2>2, <2>3 DEF Stages
  <2>5. first + k - 1 \in 1 .. Len(events)
    BY <1>1, <1>6, <2>1, <2>4 DEF first
  <2>6. events[first + k - 1] = EventOf(c, "pre_tool_call")
    <3>1. events[first + k - 1] \in OtelRow /\ events[first + k - 1].invocation = c
          /\ events[first + k - 1].hook = "pre_tool_call"
      BY <1>1, <2>2, <2>4, <2>5
    <3>2. QED
      BY <3>1 DEF OtelRow, EventOf
  <2>7. first + k - 1 < j
    BY <1>1, <1>3, <1>4, <2>5, <2>6 DEF SessionsInv, CallFits
  <2>8. j - first + 1 \in 1 .. Window /\ first + (j - first + 1) - 1 = j
    BY <1>1, <1>3, <1>6, <2>1, <2>4, <2>7 DEF first
  <2>9. Recent[j - first + 1] = events[j]
    BY <2>2, <2>8
  <2>10. QED
    BY <1>3, <2>2, <2>3, <2>8, <2>9 DEF Stages
<1>7. QED
  BY <1>5, <1>6

\* Processes that claim a session from what they read earlier never take it
\* from its agent, and the operator is shown no invocation as awaiting an
\* outcome that is on disk (start_session, invocation_correlations).
THEOREM SessionsAlwaysHold == RuntimeSpec => SessionsHold
<1>1. SessionsInv /\ [RuntimeNext]_runtimeVars
      => [\A s \in Session : owner[s] \in Agent => owner'[s] = owner[s]]_runtimeVars
  BY OwnerSteps
<1>2. QED
  BY <1>1, AlwaysSessionsInv, AwaitingHolds, PTL DEF RuntimeSpec, SessionsHold, OwnerIsFinal

\* The owners, sources, bindings and calls of sessions keep their types, and
\* what a process is about to write belongs to a hook it serves.
THEOREM RuntimeTyped == RuntimeSpec => []RuntimeTypeOK
<1>1. ASSUME SessionsInv PROVE RuntimeTypeOK
  <2>1. SessionsTypes
    BY <1>1 DEF SessionsInv
  <2>2. \A p \in Process : hook[p] = Free \/ hook[p] \in OpeningHook \/ hook[p] \in EventHook
    BY <2>1 DEF SessionsTypes, HookState
  <2>3. \A p \in Process : hook[p].at \in {"free", "opening", "inserting", "claiming",
                                          "scoping", "storing", "recording"}
    BY <2>2 DEF Free, OpeningHook, EventHook
  <2>4. QED
    BY <2>1, <2>3 DEF SessionsTypes, RuntimeTypeOK, AgentOrNone
<1>2. QED
  BY <1>1, AlwaysSessionsInv, PTL

-----------------------------------------------------------------------------
(* CodexBackfill: one answer per turn *)

LEMMA NextOneAnswer == OneAnswerPerTurn /\ [CodexNext]_codexVars => OneAnswerPerTurn'
<1> SUFFICES ASSUME OneAnswerPerTurn, [CodexNext]_codexVars PROVE OneAnswerPerTurn'
  OBVIOUS
<1>1. CASE turnMemory' = turnMemory
  BY <1>1 DEF OneAnswerPerTurn
<1>2. ASSUME NEW o, SendTurn(o)
      PROVE  OneAnswerPerTurn'
  <2> DEFINE u == Head(collector.turns)
  <2>1. CASE turnMemory' = turnMemory \cup {<<Key(u), u.answer>>} /\ ~ Stored(u)
    BY <2>1 DEF OneAnswerPerTurn, Stored
  <2>2. turnMemory' = turnMemory \/ (turnMemory' = turnMemory \cup {<<Key(u), u.answer>>} /\ ~ Stored(u))
    BY <1>2 DEF SendTurn
  <2>3. QED
    BY <1>1, <2>1, <2>2
<1>3. QED
  BY <1>1, <1>2 DEF CodexNext, codexVars, CodexWrites, StartCycle, ParseFile, Connect, EndCycle

(***************************************************************************)
(* A turn of a Codex session is stored with one answer, whatever calls of  *)
(* the backfill are lost, refused or broken off and however the file grew  *)
(* in between (memory_ingest_agent_turn under the key of the turn).        *)
(***************************************************************************)
THEOREM TurnsAnsweredOnce == CodexSpec => []OneAnswerPerTurn
<1>1. CodexInit => OneAnswerPerTurn
  BY DEF CodexInit, OneAnswerPerTurn
<1>2. QED
  BY <1>1, NextOneAnswer, PTL DEF CodexSpec

-----------------------------------------------------------------------------
(* CodexBackfill: the inductive invariant *)

Part == [answer : Nat]
Rests(c)   == c = Resting
Parses(c)  == \E turns, files : c = [at |-> "parse", turns |-> turns, files |-> files]
Sends(c)   == \E turns, existing : c = [at |-> "send", turns |-> turns, existing |-> existing]

\* The files hold as many turns as Codex writes, an exchange is of a turn that
\* is stored, and the collector is at one of its places.
CodexInv ==
    /\ turn \in [CodexFile -> Seq(Part)] /\ \A f \in CodexFile : Len(turn[f]) <= MaxTurns
    /\ exchange \subseteq {k[1] : k \in turnMemory}
    /\ Rests(collector) \/ Parses(collector) \/ Sends(collector)

LEMMA CodexWritesInv ==
    ASSUME CodexInv, NEW f \in CodexFile, CodexWrites(f)
    PROVE  CodexInv'
<1>1. turn \in [CodexFile -> Seq(Part)] /\ turn[f] \in Seq(Part) /\ MaxTurns \in Nat
  BY CodexAssumption DEF CodexInv
<1>2. PICK turns \in Seq(Part) : turn' = [turn EXCEPT ![f] = turns] /\ Len(turns) <= MaxTurns
  <2>1. CASE Len(turn[f]) < MaxTurns /\ turn' = [turn EXCEPT ![f] = Append(@, [answer |-> 0])]
    <3> DEFINE opened == [answer |-> 0]
               longer == Append(turn[f], opened)
    <3>1. opened \in Part
      BY DEF Part
    <3> HIDE DEF opened
    <3>2. longer \in Seq(Part) /\ Len(longer) = Len(turn[f]) + 1 /\ Len(turn[f]) \in Nat
      BY <1>1, <3>1, AppendProperties, LenProperties
    <3>3. Len(longer) <= MaxTurns
      BY <1>1, <2>1, <3>2
    <3>4. turn' = [turn EXCEPT ![f] = longer]
      BY <2>1 DEF opened
    <3> HIDE DEF longer
    <3>5. QED
      BY <3>2, <3>3, <3>4
  <2>2. CASE /\ turn[f] # <<>> /\ Last(turn[f]).answer < Parts
             /\ turn' = [turn EXCEPT ![f][Len(turn[f])].answer = @ + 1]
    <3> DEFINE n == Len(turn[f])
               fuller == [turn[f][n] EXCEPT !.answer = @ + 1]
               longer == [turn[f] EXCEPT ![n] = fuller]
    <3>1. n \in 1 .. n /\ n \in Nat /\ turn[f][n] \in Part
      BY <1>1, <2>2, EmptySeq, LenProperties, ElementOfSeq
    <3>2. fuller \in Part
      BY <3>1 DEF Part
    <3>3. turn' = [turn EXCEPT ![f] = longer]
      BY <1>1, <2>2
    <3> HIDE DEF fuller
    <3>4. longer \in Seq(Part) /\ Len(longer) = n
      BY <1>1, <3>1, <3>2, ExceptSeq
    <3>5. n <= MaxTurns
      BY DEF CodexInv
    <3> HIDE DEF longer
    <3>6. QED
      BY <3>3, <3>4, <3>5
  <2>3. QED
    BY <2>1, <2>2 DEF CodexWrites
<1>3. turn' \in [CodexFile -> Seq(Part)] /\ \A g \in CodexFile : Len(turn'[g]) <= MaxTurns
  BY <1>1, <1>2 DEF CodexInv
<1>4. QED
  BY <1>3 DEF CodexInv, CodexWrites, Rests, Parses, Sends

LEMMA CollectorStepsInv ==
    ASSUME CodexInv, StartCycle \/ ParseFile \/ Connect \/ EndCycle
    PROVE  CodexInv'
<1>1. UNCHANGED <<turn, turnMemory, exchange>>
  BY DEF StartCycle, ParseFile, Connect, EndCycle
<1>2. (Rests(collector) \/ Parses(collector) \/ Sends(collector))'
  <2>1. CASE StartCycle
    BY <2>1 DEF StartCycle, Parses
  <2>2. CASE ParseFile
    <3>1. collector.at = "parse"
      BY <2>2 DEF ParseFile
    <3>2. PICK turns, files : collector = [at |-> "parse", turns |-> turns, files |-> files]
      BY <3>1 DEF CodexInv, Rests, Resting, Parses, Sends
    <3> DEFINE f == Head(collector.files)
               fewer == Tail(collector.files)
               rest == [collector EXCEPT !.files = fewer]
               more == rest.turns \o Parsed(f)
    <3>3. rest = [at |-> "parse", turns |-> turns, files |-> fewer]
      <4> HIDE DEF fewer
      <4> QED
        BY <3>2
    <3>4. collector' = rest \/ collector' = [rest EXCEPT !.turns = more]
      <4>1. CASE Items(f) > Oversize \/ seen[f] = <<turn[f]>>
        BY <2>2, <4>1, Zenon DEF ParseFile
      <4>2. CASE ~ (Items(f) > Oversize \/ seen[f] = <<turn[f]>>)
        BY <2>2, <4>2, Zenon DEF ParseFile
      <4>3. QED
        BY <4>1, <4>2
    <3> HIDE DEF fewer, rest, more
    <3>5. collector' = rest \/ collector' = [at |-> "parse", turns |-> more, files |-> fewer]
      BY <3>3, <3>4
    <3>6. QED
      BY <3>3, <3>5 DEF Parses
  <2>3. CASE Connect
    BY <2>3 DEF Connect, Rests, Sends
  <2>4. CASE EndCycle
    BY <2>4 DEF EndCycle, Rests
  <2>5. QED
    BY <2>1, <2>2, <2>3, <2>4
<1>3. QED
  BY <1>1, <1>2 DEF CodexInv

LEMMA SendTurnInv ==
    ASSUME CodexInv, NEW outcome, SendTurn(outcome)
    PROVE  CodexInv'
<1> DEFINE u == Head(collector.turns)
<1>1. PICK turns, existing : collector = [at |-> "send", turns |-> turns, existing |-> existing]
  BY DEF SendTurn, CodexInv, Rests, Resting, Parses, Sends
<1>2. UNCHANGED turn
  BY DEF SendTurn
<1>3. (Rests(collector) \/ Parses(collector) \/ Sends(collector))'
  <2>1. collector' = [collector EXCEPT !.turns = Tail(@)] \/ collector' = Resting
    BY DEF SendTurn
  <2>2. QED
    BY <1>1, <2>1 DEF Rests, Sends
<1>4. exchange' \subseteq {k[1] : k \in turnMemory'}
  <2>1. turnMemory \subseteq turnMemory'
    BY DEF SendTurn
  <2>2. CASE exchange' = exchange
    BY <2>1, <2>2 DEF CodexInv
  <2>3. CASE exchange' = exchange \cup {Key(u)} /\ outcome \in {"done", "lost"}
             /\ Key(u) \notin collector.existing
    <3>1. turnMemory' = IF Stored(u) \/ outcome = "refused" THEN turnMemory
                        ELSE turnMemory \cup {<<Key(u), u.answer>>}
      BY <2>3 DEF SendTurn
    <3>2. \E k \in turnMemory' : k[1] = Key(u)
      <4>1. CASE Stored(u)
        BY <2>1, <4>1 DEF Stored
      <4>2. CASE ~ Stored(u)
        <5>1. <<Key(u), u.answer>> \in turnMemory'
          BY <2>3, <3>1, <4>2
        <5>2. <<Key(u), u.answer>>[1] = Key(u)
          OBVIOUS
        <5>3. QED
          BY <5>1, <5>2
      <4>3. QED
        BY <4>1, <4>2
    <3>3. QED
      BY <2>1, <2>3, <3>2 DEF CodexInv
  <2>4. QED
    BY <2>2, <2>3 DEF SendTurn
<1>5. QED
  BY <1>2, <1>3, <1>4 DEF CodexInv

\* A file never has more turns than Codex writes to it, an exchange is of a turn
\* that is stored, and the collector is at one of its places, whatever calls are
\* lost or broken off (parse_codex_session, memory_ingest_agent_turn).
THEOREM CodexTyped == CodexSpec => []CodexTypeOK
<1>1. CodexInit => CodexInv
  BY CodexAssumption DEF CodexInit, CodexInv, Rests
<1>2. CodexInv /\ [CodexNext]_codexVars => CodexInv'
  <2> SUFFICES ASSUME CodexInv, [CodexNext]_codexVars PROVE CodexInv'
    OBVIOUS
  <2>1. CASE UNCHANGED codexVars
    BY <2>1 DEF codexVars, CodexInv, Rests, Parses, Sends
  <2>2. QED
    BY <2>1, CodexWritesInv, CollectorStepsInv, SendTurnInv DEF CodexNext
<1>3. CodexInv => CodexTypeOK
  BY DEF CodexInv, CodexTypeOK, Rests, Resting, Parses, Sends
<1>4. QED
  BY <1>1, <1>2, <1>3, PTL DEF CodexSpec

-----------------------------------------------------------------------------
(* HookWatermark: the inductive invariant *)

MarkRow == [at : Nat, last : BOOLEAN, total : Nat, failures : Nat, streak : Nat]
BridgeState ==
    [at : {"new", "done"}]
    \cup [at : {"handled"}, hook : Hook, success : BOOLEAN]
    \cup [at : {"read"}, row : SUBSET MarkRow, hook : Hook, success : BOOLEAN, time : Nat]

Failed(h) == {d \in delivered[h] : ~ d[2]}

\* A row counts nothing that was not recorded, whoever holds it.
Covered(r, h) == r.total <= Cardinality(delivered[h]) /\ r.failures <= Cardinality(Failed(h))

WatermarkTypes ==
    /\ mark \in [Hook -> SUBSET MarkRow] /\ now \in Nat
    /\ bridge \in [HookProcess -> BridgeState]
    /\ delivered \in [Hook -> SUBSET (HookProcess \X BOOLEAN \X Nat)]
    /\ \A h \in Hook : IsFiniteSet(delivered[h])

\* A process records once.
RecordedIsDone == \A h \in Hook : \A d \in delivered[h] : bridge[d[1]].at = "done"

ReadIsCovered ==
    \A p \in HookProcess : bridge[p].at = "read" =>
        \A r \in bridge[p].row : Covered(r, bridge[p].hook)

MarkHonest(h) ==
    /\ delivered[h] # {} => mark[h] # {}
    /\ \A r \in mark[h] :
         /\ Covered(r, h)
         /\ \E d \in delivered[h] : d[2] = r.last
         /\ (r.streak > 0) = ~ r.last

WatermarkInv ==
    /\ WatermarkTypes /\ RecordedIsDone /\ ReadIsCovered
    /\ \A h \in Hook : MarkHonest(h)

LEMMA InitWatermarkInv == WatermarkInit => WatermarkInv
  BY FS_EmptySet
     DEF WatermarkInit, WatermarkInv, WatermarkTypes, BridgeState, RecordedIsDone, ReadIsCovered, MarkHonest

LEMMA BridgeStates ==
    ASSUME NEW b \in BridgeState
    PROVE  /\ b.at = "read" => /\ b.row \subseteq MarkRow /\ b.hook \in Hook
                               /\ b.success \in BOOLEAN /\ b.time \in Nat
           /\ b.at = "handled" => b.hook \in Hook /\ b.success \in BOOLEAN
  BY DEF BridgeState

\* A process moves on without recording.
LEMMA BridgeMoves ==
    ASSUME WatermarkInv, NEW p \in HookProcess, NEW next \in BridgeState, bridge[p].at # "done",
           bridge' = [bridge EXCEPT ![p] = next], UNCHANGED <<mark, now, delivered>>,
           next.at = "read" => \A r \in next.row : Covered(r, next.hook)
    PROVE  WatermarkInv'
<1>1. WatermarkTypes'
  BY DEF WatermarkInv, WatermarkTypes
<1>2. RecordedIsDone'
  BY DEF WatermarkInv, WatermarkTypes, RecordedIsDone
<1>3. \A r, h : Covered(r, h)' = Covered(r, h)
  BY DEF Covered, Failed
<1>4. ReadIsCovered'
  <2> SUFFICES ASSUME NEW q \in HookProcess, bridge'[q].at = "read",
                      NEW h, h = bridge'[q].hook, NEW r \in bridge'[q].row
               PROVE  Covered(r, h)'
    BY DEF ReadIsCovered, Covered, Failed
  <2>1. Covered(r, h)
    BY DEF WatermarkInv, WatermarkTypes, ReadIsCovered
  <2>2. QED
    BY <1>3, <2>1
<1>5. \A h \in Hook : MarkHonest(h)'
  BY <1>3 DEF WatermarkInv, MarkHonest
<1>6. QED
  BY <1>1, <1>2, <1>4, <1>5 DEF WatermarkInv

\* The process that read the row writes it back as counted from what it read.
LEMMA WriteMarkStep ==
    ASSUME WatermarkInv, NEW p \in HookProcess, WriteMark(p)
    PROVE  WatermarkInv'
<1>1. PICK h \in Hook, s \in BOOLEAN, t \in Nat, old \in SUBSET MarkRow :
         bridge[p].at = "read" /\ bridge[p].hook = h /\ bridge[p].success = s
         /\ bridge[p].time = t /\ bridge[p].row = old
  BY BridgeStates DEF WriteMark, WatermarkInv, WatermarkTypes
<1>2. PICK r : r = Counted(bridge[p])
  OBVIOUS
<1>3. PICK d : d = <<p, s, now>>
  OBVIOUS
<1>4. /\ mark' = [mark EXCEPT ![h] = {r}]
      /\ delivered' = [delivered EXCEPT ![h] = @ \cup {d}]
      /\ bridge' = [bridge EXCEPT ![p] = [at |-> "done"]] /\ now' = now
  BY <1>1, <1>2, <1>3 DEF WriteMark
<1>5. d \in HookProcess \X BOOLEAN \X Nat /\ d[1] = p /\ d[2] = s /\ d \notin delivered[h]
  <2>1. d \in HookProcess \X BOOLEAN \X Nat /\ d[1] = p /\ d[2] = s
    BY <1>3 DEF WatermarkInv, WatermarkTypes
  <2>2. QED
    BY <1>1, <2>1 DEF WatermarkInv, RecordedIsDone
<1>6. /\ r \in MarkRow /\ r.last = s /\ (r.streak > 0) = ~ s
      /\ r.total <= Cardinality(delivered[h]) + 1
      /\ r.failures <= Cardinality(Failed(h)) + (IF s THEN 0 ELSE 1)
  <2>1. IsFiniteSet(delivered[h]) /\ IsFiniteSet(Failed(h))
    BY FS_Subset DEF WatermarkInv, WatermarkTypes, Failed
  <2>2. Cardinality(delivered[h]) \in Nat /\ Cardinality(Failed(h)) \in Nat
    BY <2>1, FS_CardinalityType
  <2>3. PICK was : was = IF old = {} THEN [total |-> 0, failures |-> 0, streak |-> 0]
                         ELSE CHOOSE x \in old : TRUE
    OBVIOUS
  <2>4. /\ was.total \in Nat /\ was.failures \in Nat /\ was.streak \in Nat
        /\ was.total <= Cardinality(delivered[h]) /\ was.failures <= Cardinality(Failed(h))
    <3>1. CASE old = {}
      BY <2>2, <2>3, <3>1
    <3>2. CASE old # {}
      <4>1. was \in old
        BY <2>3, <3>2
      <4>2. Covered(was, h)
        BY <1>1, <4>1 DEF WatermarkInv, ReadIsCovered
      <4>3. was \in MarkRow
        BY <4>1
      <4>4. QED
        BY <4>2, <4>3 DEF Covered, MarkRow
    <3>3. QED
      BY <3>1, <3>2
  <2>5. r = [at |-> t, last |-> s, total |-> was.total + 1,
             failures |-> was.failures + (IF s THEN 0 ELSE 1),
             streak |-> IF s THEN 0 ELSE was.streak + 1]
    BY <1>1, <1>2, <2>3 DEF Counted
  <2>6. QED
    BY <2>2, <2>4, <2>5 DEF MarkRow
<1>7. /\ IsFiniteSet(delivered'[h]) /\ delivered'[h] = delivered[h] \cup {d}
      /\ Cardinality(delivered'[h]) = Cardinality(delivered[h]) + 1
      /\ Cardinality(Failed(h)') = Cardinality(Failed(h)) + (IF s THEN 0 ELSE 1)
  <2>1. IsFiniteSet(delivered[h]) /\ IsFiniteSet(Failed(h))
    BY FS_Subset DEF WatermarkInv, WatermarkTypes, Failed
  <2>2. delivered'[h] = delivered[h] \cup {d}
    BY <1>4 DEF WatermarkInv, WatermarkTypes
  <2>3. Failed(h)' = IF s THEN Failed(h) ELSE Failed(h) \cup {d}
    BY <1>5, <2>2 DEF Failed
  <2>4. d \notin Failed(h)
    BY <1>5 DEF Failed
  <2>5. /\ IsFiniteSet(delivered[h] \cup {d})
        /\ Cardinality(delivered[h] \cup {d}) = Cardinality(delivered[h]) + 1
    BY <1>5, <2>1, FS_AddElement
  <2>6. Cardinality(Failed(h) \cup {d}) = Cardinality(Failed(h)) + 1
    BY <2>1, <2>4, FS_AddElement
  <2>7. Cardinality(Failed(h)) \in Nat
    BY <2>1, FS_CardinalityType
  <2>8. QED
    BY <2>2, <2>3, <2>5, <2>6, <2>7
<1>8. \A x \in MarkRow, k \in Hook : Covered(x, k) => Covered(x, k)'
  <2> SUFFICES ASSUME NEW x \in MarkRow, NEW k \in Hook, Covered(x, k) PROVE Covered(x, k)'
    OBVIOUS
  <2>1. CASE k # h
    <3>1. delivered'[k] = delivered[k] /\ Failed(k)' = Failed(k)
      BY <1>4, <2>1 DEF WatermarkInv, WatermarkTypes, Failed
    <3>2. QED
      BY <3>1 DEF Covered
  <2>2. CASE k = h
    <3>1. Cardinality(delivered[h]) \in Nat /\ Cardinality(Failed(h)) \in Nat
      <4>1. IsFiniteSet(delivered[h]) /\ Failed(h) \subseteq delivered[h]
        BY DEF WatermarkInv, WatermarkTypes, Failed
      <4>2. IsFiniteSet(Failed(h))
        BY <4>1, FS_Subset
      <4>3. QED
        BY <4>1, <4>2, FS_CardinalityType
    <3>2. x.total \in Nat /\ x.failures \in Nat
      BY DEF MarkRow
    <3>3. x.total <= Cardinality(delivered[h]) /\ x.failures <= Cardinality(Failed(h))
      BY <2>2 DEF Covered
    <3>4. x.total <= Cardinality(delivered'[h])
      BY <1>7, <3>1, <3>2, <3>3
    <3>5. x.failures <= Cardinality(Failed(h)')
      BY <1>7, <3>1, <3>2, <3>3
    <3>6. Covered(x, h)'
      BY <3>4, <3>5 DEF Covered
    <3>7. QED
      BY <2>2, <3>6 DEF Covered, Failed
  <2>3. QED
    BY <2>1, <2>2
<1>9. WatermarkTypes'
  <2>1. mark' \in [Hook -> SUBSET MarkRow]
    BY <1>4, <1>6 DEF WatermarkInv, WatermarkTypes
  <2>2. [at |-> "done"] \in BridgeState
    BY DEF BridgeState
  <2>3. delivered' \in [Hook -> SUBSET (HookProcess \X BOOLEAN \X Nat)]
    BY <1>4, <1>5 DEF WatermarkInv, WatermarkTypes
  <2>4. \A k \in Hook : IsFiniteSet(delivered'[k])
    BY <1>4, <1>7 DEF WatermarkInv, WatermarkTypes
  <2> HIDE DEF BridgeState
  <2>5. QED
    BY <1>4, <2>1, <2>2, <2>3, <2>4 DEF WatermarkInv, WatermarkTypes
<1>10. RecordedIsDone'
  BY <1>4, <1>5 DEF WatermarkInv, WatermarkTypes, RecordedIsDone
<1>11. ReadIsCovered'
  <2> SUFFICES ASSUME NEW q \in HookProcess, bridge'[q].at = "read",
                      NEW k, k = bridge'[q].hook, NEW x \in bridge'[q].row
               PROVE  Covered(x, k)'
    BY DEF ReadIsCovered, Covered, Failed
  <2>1. q # p /\ bridge'[q] = bridge[q]
    BY <1>4 DEF WatermarkInv, WatermarkTypes
  <2>2. k \in Hook /\ x \in MarkRow
    BY <2>1, BridgeStates DEF WatermarkInv, WatermarkTypes
  <2>3. Covered(x, k)
    BY <2>1 DEF WatermarkInv, ReadIsCovered
  <2>4. QED
    BY <1>8, <2>2, <2>3
<1>12. ASSUME NEW k \in Hook PROVE MarkHonest(k)'
  <2>1. CASE k # h
    <3>1. mark'[k] = mark[k] /\ delivered'[k] = delivered[k] /\ mark[k] \subseteq MarkRow
      BY <1>4, <2>1 DEF WatermarkInv, WatermarkTypes
    <3>2. QED
      BY <1>8, <3>1 DEF WatermarkInv, MarkHonest
  <2>2. CASE k = h
    <3>1. mark'[h] = {r}
      BY <1>4 DEF WatermarkInv, WatermarkTypes
    <3>2. Covered(r, h)'
      BY <1>6, <1>7 DEF Covered
    <3>3. d \in delivered'[h] /\ d[2] = r.last
      BY <1>5, <1>6, <1>7
    <3>4. QED
      BY <1>6, <2>2, <3>1, <3>2, <3>3 DEF MarkHonest
  <2>3. QED
    BY <2>1, <2>2
<1>13. QED
  BY <1>9, <1>10, <1>11, <1>12 DEF WatermarkInv

LEMMA NextWatermarkInv == WatermarkInv /\ [WatermarkNext]_watermarkVars => WatermarkInv'
<1> SUFFICES ASSUME WatermarkInv, [WatermarkNext]_watermarkVars PROVE WatermarkInv'
  OBVIOUS
<1>1. CASE UNCHANGED <<mark, bridge, delivered>> /\ now' \in Nat
  BY <1>1 DEF WatermarkInv, WatermarkTypes, RecordedIsDone, ReadIsCovered, MarkHonest, Covered, Failed
<1>2. CASE Tick \/ UNCHANGED watermarkVars
  BY <1>1, <1>2 DEF Tick, watermarkVars, WatermarkInv, WatermarkTypes
<1>3. ASSUME NEW p \in HookProcess, NEW h \in Hook, NEW s \in BOOLEAN, Dispatch(p, h, s)
      PROVE  WatermarkInv'
  <2>1. [at |-> "handled", hook |-> h, success |-> s] \in BridgeState
    BY DEF BridgeState
  <2>2. QED
    BY <1>3, <2>1, BridgeMoves DEF Dispatch
<1>4. ASSUME NEW p \in HookProcess, ReadMark(p)
      PROVE  WatermarkInv'
  <2>1. PICK h \in Hook, s \in BOOLEAN :
           bridge[p].at = "handled" /\ bridge[p].hook = h /\ bridge[p].success = s
    BY <1>4, BridgeStates DEF ReadMark, WatermarkInv, WatermarkTypes
  <2>2. PICK next : next = [at |-> "read", row |-> mark[h], hook |-> h, success |-> s, time |-> now]
    OBVIOUS
  <2>3. mark[h] \in SUBSET MarkRow /\ now \in Nat
    BY DEF WatermarkInv, WatermarkTypes
  <2>4. next \in BridgeState /\ next.row = mark[h] /\ next.hook = h
    BY <2>2, <2>3 DEF BridgeState
  <2>5. \A r \in next.row : Covered(r, next.hook)
    BY <2>4 DEF WatermarkInv, MarkHonest
  <2>6. bridge' = [bridge EXCEPT ![p] = next] /\ UNCHANGED <<mark, now, delivered>>
    BY <1>4, <2>1, <2>2 DEF ReadMark
  <2>7. QED
    BY <2>1, <2>4, <2>5, <2>6, BridgeMoves
<1>5. ASSUME NEW p \in HookProcess, GiveUp(p)
      PROVE  WatermarkInv'
  <2>1. [at |-> "done"] \in BridgeState
    BY DEF BridgeState
  <2>2. QED
    BY <1>5, <2>1, BridgeMoves DEF GiveUp
<1>6. QED
  BY <1>2, <1>3, <1>4, <1>5, WriteMarkStep DEF WatermarkNext

(***************************************************************************)
(* However the short-lived processes of the bridge overlap, with each      *)
(* other and with a locked database, the report makes nothing up: it       *)
(* counts no delivery nor failure that was not recorded, its outcome is    *)
(* that of some delivery and its streak agrees with it                     *)
(* (record_invocation of hermes_watermark.py).                             *)
(***************************************************************************)
THEOREM ReportsAreHonest == WatermarkSpec => []ReportIsHonest
<1>1. WatermarkInv => ReportIsHonest
  BY DEF WatermarkInv, MarkHonest, Covered, Failed, ReportIsHonest
<1>2. QED
  BY <1>1, InitWatermarkInv, NextWatermarkInv, PTL DEF WatermarkSpec

-----------------------------------------------------------------------------
(* StoreFiles: the inductive invariant *)

FileTable  == [shape : {"none", "now", "v3", "v8", "old"}, rows : SUBSET Datum,
               aside : {<<>>} \cup {<<put>> : put \in SUBSET Datum}]
FileRow    == [version : {0, 3, 8, 16}, owner : {Nothing, OurProfile, "theirs"},
               canon : {Nothing, "v1", "v2"}, table : [Rebuilt -> FileTable],
               refers : {"task", "aside", "dropped"}, vectors : {Nothing, "l2", "cosine"},
               vector : SUBSET Datum, scoped : {"none", "unscoped", "shared", "evidence"}]
Salting    == {"salt", "truncate salt", "write salt"}
HandleStep == Upgrading \cup Salting \cup {"failed", "open", "copy back"}
HandleRow  == [step : HandleStep, on : Rebuild \cup {Nothing}, version : {0, 3, 8, 16},
               vectors : BOOLEAN, canon : {Nothing, "v1", "v2"},
               salt : {Nothing, "empty"} \cup Opener, restoring : BOOLEAN,
               inode : Nat, generation : Nat]

FilesTyped ==
    /\ file \in FileRow /\ inode \in Nat /\ inode >= 1
    /\ copy = {} \/ \E f \in FileRow : copy = {f}
    /\ salt \in {Nothing, "empty"} \cup Opener
    /\ handle \in [Opener -> HandleRow \cup {Away}]
    /\ reading \in [Opener -> SUBSET [inode : Nat, generation : Nat]]

\* The tables whose rows an upgrade keeps, and all the rows of one of them.
KeptTables   == {"task", "checkpoint"}
AllRows(entry) == entry.rows \cup (IF entry.aside = <<>> THEN {} ELSE entry.aside[1])

\* A process on its way from putting a table aside to dropping it.
Rebuilds(h, t) == h.step \in {"create", "copy", "drop"} /\ h.inode = inode /\ TableAt(h.on) = t
\* There is one at most, the table is aside, and before it is dropped its rows
\* are in the new one.
RebuildFits(t) ==
    \A o \in Opener : Rebuilds(handle[o], t) =>
        /\ file.table[t].aside # <<>>
        /\ \A p \in Opener : Rebuilds(handle[p], t) => p = o
        /\ handle[o].step = "drop" => file.table[t].aside[1] \subseteq file.table[t].rows
TableFits(t) ==
    /\ held[t] \subseteq AllRows(file.table[t])
    /\ held[t] = {} \/ RebuildFits(t)

\* What a process h knows of a file at the path i, with read connections rs.
ReadsFit(h, rs, i) ==
    /\ h = Away => rs = {}
    /\ h # Away =>
         /\ h.inode \in 1 .. i
         /\ \A c \in rs : c.generation <= h.generation
         /\ (h.step \in Upgrading \cup Salting) => (h.restoring \/ rs = {})
         /\ (h.step \in Salting \cup {"open", "copy back"}) => ~h.restoring
         /\ h.step \in {"rename", "create", "copy", "drop"} => h.on \in Rebuild
         /\ \A c \in rs : h.step = "open" /\ h.inode = i /\ c.generation = h.generation => c.inode = i

FilesInv ==
    /\ FilesTyped
    /\ \A t \in KeptTables : TableFits(t)
    /\ \A o \in Opener : ReadsFit(handle[o], reading[o], inode)

-----------------------------------------------------------------------------
(* StoreFiles: what is known of files, tables and handles *)

LEMMA HandleFacts ==
    ASSUME NEW h \in HandleRow
    PROVE  h # Away /\ h.step # "away"
<1>1. h.step \in HandleStep /\ h.step # "away"
  BY DEF HandleRow, HandleStep, Upgrading, Salting
<1>2. Away.step = "away"
  BY DEF Away
<1>3. QED
  BY <1>1, <1>2

LEMMA FileFacts ==
    ASSUME NEW f \in FileRow
    PROVE  /\ f.version \in {0, 3, 8, 16} /\ f.owner \in {Nothing, OurProfile, "theirs"}
           /\ f.canon \in {Nothing, "v1", "v2"} /\ f.table \in [Rebuilt -> FileTable]
           /\ f.refers \in {"task", "aside", "dropped"} /\ f.vectors \in {Nothing, "l2", "cosine"}
           /\ f.vector \in SUBSET Datum /\ f.scoped \in {"none", "unscoped", "shared", "evidence"}
           /\ \A t \in Rebuilt : /\ f.table[t].shape \in {"none", "now", "v3", "v8", "old"}
                                 /\ f.table[t].rows \in SUBSET Datum
                                 /\ f.table[t].aside \in {<<>>} \cup {<<put>> : put \in SUBSET Datum}
                                 /\ f.table[t] \in FileTable
BY DEF FileRow, FileTable

LEMMA TableFacts ==
    /\ KeptTables \subseteq Rebuilt /\ Rebuilt = {"task", "checkpoint", "proposal"}
    /\ \A name \in Rebuild : TableAt(name) \in Rebuilt
    /\ \A name \in Rebuild : TableAt(name) \notin KeptTables => TableAt(name) = "proposal" /\ name = "proposal"
    /\ \A name \in Rebuild : ShapeOf(name) \in {"now", "v8"}
    /\ \A t \in KeptTables : t # "proposal"
BY DEF KeptTables, Rebuilt, Rebuild, TableAt, ShapeOf

LEMMA PutAside ==
    ASSUME NEW put \in SUBSET Datum
    PROVE  <<put>> # <<>> /\ <<put>>[1] = put /\ <<put>> \in {<<>>} \cup {<<a>> : a \in SUBSET Datum}
OBVIOUS

LEMMA AsideFacts ==
    ASSUME NEW entry \in FileTable
    PROVE  /\ entry.aside # <<>> => entry.aside[1] \in SUBSET Datum /\ Range(entry.aside) = {entry.aside[1]}
           /\ entry.aside = <<>> => Range(entry.aside) = {}
           /\ AllRows(entry) = UNION ({entry.rows} \cup Range(entry.aside))
<1>1. entry.aside \in {<<>>} \cup {<<put>> : put \in SUBSET Datum}
  BY DEF FileTable
<1>2. CASE entry.aside = <<>>
  <2>1. Range(entry.aside) = {}
    BY <1>2 DEF Range
  <2>2. QED
    BY <1>2, <2>1 DEF AllRows
<1>3. CASE entry.aside # <<>>
  <2>1. PICK put \in SUBSET Datum : entry.aside = <<put>>
    BY <1>1, <1>3
  <2>2. entry.aside[1] = put /\ DOMAIN entry.aside = {1}
    BY <2>1
  <2>3. Range(entry.aside) = {put}
    BY <2>2 DEF Range
  <2>4. QED
    BY <1>3, <2>1, <2>2, <2>3 DEF AllRows
<1>4. QED
  BY <1>2, <1>3

\* A file at a version, whoever made it.
LEMMA FileOfTyped ==
    ASSUME NEW v \in {0, 3, 8, 16}, NEW whose \in {OurProfile, "theirs"}
    PROVE  /\ FileOf(v, whose) \in FileRow
           /\ v = 0 => \A t \in Rebuilt : FileOf(v, whose).table[t].rows = {}
           /\ \A t \in Rebuilt : FileOf(v, whose).table[t].aside = <<>>
<1> DEFINE cell(t) == IF v = 0 THEN Table("none", {})
                   ELSE IF v = LatestVersion THEN Table("now", Datum)
                   ELSE IF t = "task" THEN Table(IF v = 3 THEN "v3" ELSE "v8", Datum)
                   ELSE IF v = 3 THEN Table("none", {})
                   ELSE Table(IF t = "checkpoint" THEN "old" ELSE "now", Datum)
<1>1. \A shape \in {"none", "now", "v3", "v8", "old"}, rows \in SUBSET Datum :
         Table(shape, rows) \in FileTable /\ Table(shape, rows).aside = <<>>
  BY DEF Table, FileTable
<1>2. \A t \in Rebuilt : cell(t) \in FileTable /\ cell(t).aside = <<>>
  <2> TAKE t \in Rebuilt
  <2>1. CASE v = 0
    BY <1>1, <2>1
  <2>2. CASE v = 16
    BY <1>1, <2>2 DEF LatestVersion
  <2>3. CASE v = 3
    <3>1. CASE t = "task"
      BY <1>1, <2>3, <3>1 DEF LatestVersion
    <3>2. CASE t # "task"
      BY <1>1, <2>3, <3>2 DEF LatestVersion
    <3>3. QED
      BY <3>1, <3>2
  <2>4. CASE v = 8
    <3>1. CASE t = "task"
      BY <1>1, <2>4, <3>1 DEF LatestVersion
    <3>2. CASE t # "task"
      BY <1>1, <2>4, <3>2 DEF LatestVersion
    <3>3. QED
      BY <3>1, <3>2
  <2>5. QED
    BY <2>1, <2>2, <2>3, <2>4
<1>3. v = 0 => \A t \in Rebuilt : cell(t).rows = {}
  BY DEF Table
<1> HIDE DEF cell
<1>4. [t \in Rebuilt |-> cell(t)] \in [Rebuilt -> FileTable]
  BY <1>2
<1>5. PICK table : table = [t \in Rebuilt |-> cell(t)]
  OBVIOUS
<1>6. PICK own, canon, vectors, embedded, scoped :
         /\ own = IF v = 0 THEN Nothing ELSE whose
         /\ canon = IF v = 0 THEN Nothing ELSE IF v = LatestVersion THEN "v2" ELSE "v1"
         /\ vectors = CASE v = 0 -> Nothing [] v = 3 -> "l2" [] OTHER -> "cosine"
         /\ embedded = IF v = 0 THEN {} ELSE Datum
         /\ scoped = CASE v = 0 -> "none" [] v = LatestVersion -> "evidence" [] OTHER -> "unscoped"
  OBVIOUS
<1>7. FileOf(v, whose) = [version |-> v, owner |-> own, canon |-> canon, table |-> table,
                          refers |-> "task", vectors |-> vectors, vector |-> embedded,
                          scoped |-> scoped]
  BY <1>5, <1>6 DEF FileOf, cell
<1>8. /\ own \in {Nothing, OurProfile, "theirs"} /\ canon \in {Nothing, "v1", "v2"}
      /\ vectors \in {Nothing, "l2", "cosine"} /\ embedded \in SUBSET Datum
      /\ scoped \in {"none", "unscoped", "shared", "evidence"}
  BY <1>6 DEF LatestVersion
<1>9. /\ table \in [Rebuilt -> FileTable] /\ \A t \in Rebuilt : table[t].aside = <<>>
      /\ v = 0 => \A t \in Rebuilt : table[t].rows = {}
  BY <1>2, <1>3, <1>4, <1>5
<1>10. QED
  BY <1>7, <1>8, <1>9 DEF FileRow

LEMMA CreatedKeeps ==
    ASSUME NEW f \in FileRow
    PROVE  /\ Created(f.table) \in [Rebuilt -> FileTable]
           /\ \A t \in Rebuilt : /\ Created(f.table)[t].rows = f.table[t].rows
                                 /\ Created(f.table)[t].aside = f.table[t].aside
<1>1. \A entry \in FileTable : /\ [entry EXCEPT !.shape = "now"] \in FileTable
                             /\ [entry EXCEPT !.shape = "now"].rows = entry.rows
                             /\ [entry EXCEPT !.shape = "now"].aside = entry.aside
  BY DEF FileTable
<1>2. \A t \in Rebuilt : f.table[t] \in FileTable
  BY FileFacts
<1>3. QED
  BY <1>1, <1>2 DEF Created

\* The table put aside is all there was, and the others stay.
LEMMA RenamedKeeps ==
    ASSUME NEW f \in FileRow, NEW t \in Rebuilt, f.table[t].aside = <<>>
    PROVE  /\ Renamed(f, t) \in FileRow
           /\ Renamed(f, t).table[t].aside = <<f.table[t].rows>>
           /\ Renamed(f, t).table[t].rows = {}
           /\ AllRows(Renamed(f, t).table[t]) = AllRows(f.table[t])
           /\ \A u \in Rebuilt \ {t} : Renamed(f, t).table[u] = f.table[u]
<1>1. PICK entry : entry = [shape |-> "none", rows |-> {}, aside |-> <<f.table[t].rows>>]
  OBVIOUS
<1>2. entry \in FileTable /\ entry.rows = {} /\ entry.aside = <<f.table[t].rows>>
  BY <1>1, FileFacts DEF FileTable
<1>3. PICK refers : refers = IF t = "task" /\ f.refers = "task" THEN "aside" ELSE f.refers
  OBVIOUS
<1>4. refers \in {"task", "aside", "dropped"}
  BY <1>3, FileFacts
<1>5. PICK table, g : table = [f.table EXCEPT ![t] = entry] /\ g = Renamed(f, t)
  OBVIOUS
<1>6. Renamed(f, t) \in FileRow /\ Renamed(f, t).table = [f.table EXCEPT ![t] = entry]
  <2>1. g = [f EXCEPT !.table = table, !.refers = refers]
    BY <1>1, <1>3, <1>5 DEF Renamed, FileRow
  <2>2. table \in [Rebuilt -> FileTable]
    BY <1>2, <1>5, FileFacts
  <2>3. g \in FileRow /\ g.table = table
    BY <1>4, <2>1, <2>2 DEF FileRow
  <2>4. QED
    BY <1>5, <2>3
<1>7. /\ Renamed(f, t).table[t] = entry
      /\ \A u \in Rebuilt \ {t} : Renamed(f, t).table[u] = f.table[u]
  BY <1>6, FileFacts
<1>8. entry.aside # <<>> /\ entry.aside[1] = f.table[t].rows
  BY <1>2, FileFacts, PutAside
<1>9. AllRows(entry) = f.table[t].rows /\ AllRows(f.table[t]) = f.table[t].rows
  BY <1>2, <1>8 DEF AllRows
<1>10. QED
  BY <1>2, <1>6, <1>7, <1>9

LEMMA CreatedAsKeeps ==
    ASSUME NEW f \in FileRow, NEW t \in Rebuilt, NEW shape \in {"now", "v8"}
    PROVE  /\ CreatedAs(f, t, shape) \in FileRow
           /\ \A u \in Rebuilt : /\ CreatedAs(f, t, shape).table[u].rows = f.table[u].rows
                                 /\ CreatedAs(f, t, shape).table[u].aside = f.table[u].aside
<1>1. PICK entry : entry = [f.table[t] EXCEPT !.shape = shape]
  OBVIOUS
<1>2. entry \in FileTable /\ entry.rows = f.table[t].rows /\ entry.aside = f.table[t].aside
  <2>1. f.table[t] \in FileTable
    BY FileFacts
  <2>2. QED
    BY <1>1, <2>1 DEF FileTable
<1>3. PICK refers : refers = IF t = "proposal" THEN "task" ELSE f.refers
  OBVIOUS
<1>4. refers \in {"task", "aside", "dropped"}
  BY <1>3, FileFacts
<1>5. PICK table, g : table = [f.table EXCEPT ![t] = entry] /\ g = CreatedAs(f, t, shape)
  OBVIOUS
<1>6. CreatedAs(f, t, shape) \in FileRow /\ CreatedAs(f, t, shape).table = [f.table EXCEPT ![t] = entry]
  <2>1. g = [f EXCEPT !.table = table, !.refers = refers]
    BY <1>1, <1>3, <1>5 DEF CreatedAs, FileRow
  <2>2. table \in [Rebuilt -> FileTable]
    BY <1>2, <1>5, FileFacts
  <2>3. g \in FileRow /\ g.table = table
    BY <1>4, <2>1, <2>2 DEF FileRow
  <2>4. QED
    BY <1>5, <2>3
<1>7. QED
  BY <1>2, <1>6, FileFacts

LEMMA CopiedKeeps ==
    ASSUME NEW f \in FileRow, NEW t \in Rebuilt, f.table[t].aside # <<>>
    PROVE  /\ Copied(f, t) \in FileRow
           /\ Copied(f, t).table[t].rows = f.table[t].rows \cup f.table[t].aside[1]
           /\ Copied(f, t).table[t].aside = f.table[t].aside
           /\ \A u \in Rebuilt \ {t} : Copied(f, t).table[u] = f.table[u]
<1>1. PICK entry : entry = [f.table[t] EXCEPT !.rows = f.table[t].rows \cup f.table[t].aside[1]]
  OBVIOUS
<1>2. f.table[t] \in FileTable /\ f.table[t].aside[1] \in SUBSET Datum /\ f.table[t].rows \in SUBSET Datum
  BY FileFacts, AsideFacts
<1>3. /\ entry \in FileTable /\ entry.rows = f.table[t].rows \cup f.table[t].aside[1]
      /\ entry.aside = f.table[t].aside
  BY <1>1, <1>2 DEF FileTable
<1>4. Copied(f, t) = [f EXCEPT !.table[t] = entry]
  BY <1>1 DEF Copied, FileRow
<1>5. Copied(f, t) \in FileRow /\ Copied(f, t).table = [f.table EXCEPT ![t] = entry]
  BY <1>3, <1>4 DEF FileRow
<1>6. QED
  BY <1>3, <1>5, FileFacts

\* A table that is dropped takes the proposals with it at most.
LEMMA DroppedKeeps ==
    ASSUME NEW f \in FileRow, NEW t \in Rebuilt
    PROVE  /\ Dropped(f, t) \in FileRow
           /\ \A u \in Rebuilt \ {"proposal"} : Dropped(f, t).table[u].rows = f.table[u].rows
           /\ \A u \in Rebuilt \ {t} : Dropped(f, t).table[u].aside = f.table[u].aside
           /\ Dropped(f, t).table[t].aside = <<>>
<1>1. PICK g : g = [f EXCEPT !.table[t].aside = <<>>]
  OBVIOUS
<1>2. /\ g \in FileRow /\ g.table[t].aside = <<>>
      /\ \A u \in Rebuilt : g.table[u].rows = f.table[u].rows
      /\ \A u \in Rebuilt \ {t} : g.table[u].aside = f.table[u].aside
  <2>1. PICK entry : entry = [f.table[t] EXCEPT !.aside = <<>>]
    OBVIOUS
  <2>2. f.table[t] \in FileTable
    BY FileFacts
  <2>3. entry \in FileTable /\ entry.rows = f.table[t].rows /\ entry.aside = <<>>
    BY <2>1, <2>2 DEF FileTable
  <2>4. g = [f EXCEPT !.table[t] = entry]
    BY <1>1, <2>1 DEF FileRow
  <2>5. g \in FileRow /\ g.table = [f.table EXCEPT ![t] = entry]
    BY <2>3, <2>4 DEF FileRow
  <2>6. QED
    BY <2>3, <2>5, FileFacts
<1>3. PICK k : k = [g EXCEPT !.table["proposal"].rows = {}, !.refers = "dropped"]
  OBVIOUS
<1>4. /\ k \in FileRow
      /\ \A u \in Rebuilt : k.table[u].aside = g.table[u].aside
      /\ \A u \in Rebuilt \ {"proposal"} : k.table[u] = g.table[u]
  <2>1. "proposal" \in Rebuilt
    BY DEF Rebuilt
  <2>2. PICK entry : entry = [g.table["proposal"] EXCEPT !.rows = {}]
    OBVIOUS
  <2>3. g.table["proposal"] \in FileTable
    BY <1>2, <2>1, FileFacts
  <2>4. entry \in FileTable /\ entry.aside = g.table["proposal"].aside
    BY <2>2, <2>3 DEF FileTable
  <2>5. k = [g EXCEPT !.table["proposal"] = entry, !.refers = "dropped"]
    BY <1>2, <1>3, <2>2 DEF FileRow
  <2>6. k \in FileRow /\ k.table = [g.table EXCEPT !["proposal"] = entry]
    BY <1>2, <2>4, <2>5 DEF FileRow
  <2>7. QED
    BY <1>2, <2>1, <2>4, <2>6, FileFacts
<1>5. Dropped(f, t) \in {g, k}
  BY <1>1, <1>3 DEF Dropped
<1>6. QED
  BY <1>2, <1>4, <1>5

-----------------------------------------------------------------------------
(* StoreFiles: what a step of one process leaves as it was *)

LEMMA OpenerFacts ==
    ASSUME FilesInv, NEW o \in Opener
    PROVE  /\ handle[o] \in HandleRow \cup {Away} /\ handle \in [Opener -> HandleRow \cup {Away}]
           /\ reading[o] \in SUBSET [inode : Nat, generation : Nat]
           /\ ReadsFit(handle[o], reading[o], inode) /\ inode \in Nat /\ inode >= 1
           /\ file \in FileRow
           /\ handle[o].step # "away" => handle[o] \in HandleRow
BY DEF FilesInv, FilesTyped, Away

\* The rows of a table are where they were, and nobody starts to rebuild it.
LEMMA TableStays ==
    ASSUME FilesInv, NEW t \in KeptTables, NEW o \in Opener,
           held' = held, inode' = inode,
           file'.table[t].rows = file.table[t].rows, file'.table[t].aside = file.table[t].aside,
           \A p \in Opener \ {o} : handle'[p] = handle[p],
           Rebuilds(handle[o], t)' => /\ Rebuilds(handle[o], t)
                                      /\ handle'[o].step = "drop" => handle[o].step = "drop"
    PROVE  TableFits(t)'
<1>1. TableFits(t)
  BY DEF FilesInv
<1>2. \A p \in Opener : Rebuilds(handle[p], t)' =>
         Rebuilds(handle[p], t) /\ (handle'[p].step = "drop" => handle[p].step = "drop")
  BY DEF Rebuilds
<1>3. AllRows(file'.table[t]) = AllRows(file.table[t])
  BY DEF AllRows
<1>4. RebuildFits(t) => RebuildFits(t)'
  BY <1>2 DEF RebuildFits
<1>5. QED
  BY <1>1, <1>3, <1>4 DEF TableFits

\* What the others know of the file stays true, also when there is a new one.
LEMMA OthersRead ==
    ASSUME FilesInv, NEW o \in Opener, inode' \in {inode, inode + 1},
           \A p \in Opener \ {o} : handle'[p] = handle[p] /\ reading'[p] = reading[p],
           ReadsFit(handle'[o], reading'[o], inode')
    PROVE  \A p \in Opener : ReadsFit(handle[p], reading[p], inode)'
<1> SUFFICES ASSUME NEW p \in Opener \ {o}
             PROVE  ReadsFit(handle'[p], reading'[p], inode')
  OBVIOUS
<1>1. ReadsFit(handle[p], reading[p], inode) /\ inode \in Nat
  BY OpenerFacts
<1>2. CASE handle[p] = Away
  BY <1>1, <1>2 DEF ReadsFit
<1>3. CASE handle[p] # Away
  <2>1. handle[p].inode \in 1 .. inode
    BY <1>1, <1>3 DEF ReadsFit
  <2>2. PICK n, i : n = handle[p].inode /\ i = inode
    OBVIOUS
  <2>3. n \in 1 .. i /\ i \in Nat /\ inode' \in {i, i + 1}
    BY <1>1, <2>1, <2>2
  <2>4. n \in 1 .. inode' /\ (inode' # i => n # inode')
    BY <2>3
  <2>5. handle[p].inode \in 1 .. inode' /\ (inode' # inode => handle[p].inode # inode')
    BY <2>2, <2>4
  <2>6. QED
    BY <1>1, <1>3, <2>5 DEF ReadsFit
<1>4. QED
  BY <1>2, <1>3

\* The next statement of an upgrade.
LEMMA ReadsOn ==
    ASSUME NEW h \in HandleRow, NEW g \in HandleRow, NEW rs, NEW i, ReadsFit(h, rs, i),
           h.step \in Upgrading, g.step \in Upgrading \cup {"failed"},
           g.inode = h.inode, g.restoring = h.restoring, g.generation = h.generation,
           g.step \in {"rename", "create", "copy", "drop"} => g.on \in Rebuild
    PROVE  ReadsFit(g, rs, i)
<1>1. h # Away /\ g # Away
  BY HandleFacts
<1>2. g.step # "open" /\ g.step \notin Salting \cup {"open", "copy back"}
  BY DEF Upgrading, Salting
<1>3. QED
  BY <1>1, <1>2 DEF ReadsFit

LEMMA UpgradesOn ==
    ASSUME FilesInv, NEW o \in Opener, NEW g \in HandleRow, handle' = [handle EXCEPT ![o] = g],
           Quiet, file' \in FileRow, handle[o].step \in Upgrading,
           g.step \in Upgrading \cup {"failed"},
           g.inode = handle[o].inode, g.restoring = handle[o].restoring,
           g.generation = handle[o].generation,
           g.step \in {"rename", "create", "copy", "drop"} => g.on \in Rebuild
    PROVE  FilesTyped' /\ \A p \in Opener : ReadsFit(handle[p], reading[p], inode)'
<1>1. handle[o] \in HandleRow
  BY OpenerFacts DEF Upgrading
<1>2. /\ inode' = inode /\ reading' = reading /\ copy' = copy /\ salt' = salt
      /\ handle'[o] = g /\ \A p \in Opener \ {o} : handle'[p] = handle[p]
      /\ handle' \in [Opener -> HandleRow \cup {Away}]
  BY OpenerFacts DEF Quiet
<1>3. ReadsFit(g, reading[o], inode)
  BY <1>1, OpenerFacts, ReadsOn
<1>4. \A p \in Opener : ReadsFit(handle[p], reading[p], inode)'
  BY <1>2, <1>3, OthersRead
<1>5. FilesTyped'
  BY <1>2 DEF FilesInv, FilesTyped
<1>6. QED
  BY <1>4, <1>5

\* ... of one that does not touch a table put aside, and puts none aside.
LEMMA UpgradesQuietly ==
    ASSUME FilesInv, NEW o \in Opener, NEW g \in HandleRow, handle' = [handle EXCEPT ![o] = g],
           Quiet, file' \in FileRow, handle[o].step \in Upgrading,
           g.step \in Upgrading \cup {"failed"},
           g.inode = handle[o].inode, g.restoring = handle[o].restoring,
           g.generation = handle[o].generation,
           g.step \in {"rename", "create", "copy", "drop"} => g.on \in Rebuild,
           \A t \in KeptTables : /\ file'.table[t].rows = file.table[t].rows
                                 /\ file'.table[t].aside = file.table[t].aside,
           \A t \in KeptTables : Rebuilds(g, t) =>
               Rebuilds(handle[o], t) /\ (g.step = "drop" => handle[o].step = "drop")
    PROVE  FilesInv'
<1>1. FilesTyped' /\ \A p \in Opener : ReadsFit(handle[p], reading[p], inode)'
  BY UpgradesOn
<1>2. /\ held' = held /\ inode' = inode /\ handle'[o] = g
      /\ \A p \in Opener \ {o} : handle'[p] = handle[p]
  BY OpenerFacts DEF Quiet
<1>3. ASSUME NEW t \in KeptTables PROVE TableFits(t)'
  <2>1. Rebuilds(handle[o], t)' => Rebuilds(g, t)
    BY <1>2 DEF Rebuilds, TableAt
  <2>2. Rebuilds(handle[o], t)' => /\ Rebuilds(handle[o], t)
                                   /\ handle'[o].step = "drop" => handle[o].step = "drop"
    BY <1>2, <2>1
  <2>3. QED
    BY <1>2, <2>2, TableStays
<1>4. QED
  BY <1>1, <1>3 DEF FilesInv

\* ... of one that goes on elsewhere.
LEMMA GoesOn ==
    ASSUME FilesInv, NEW o \in Opener, NEW g \in HandleRow, handle' = [handle EXCEPT ![o] = g],
           Quiet, file' \in FileRow, handle[o].step \in Upgrading,
           g.step \in Upgrading \cup {"failed"}, g.step \notin {"create", "copy", "drop"},
           g.step = "rename" => g.on \in Rebuild,
           g.inode = handle[o].inode, g.restoring = handle[o].restoring,
           g.generation = handle[o].generation,
           \A t \in KeptTables : /\ file'.table[t].rows = file.table[t].rows
                                 /\ file'.table[t].aside = file.table[t].aside
    PROVE  FilesInv'
<1>1. \A t \in KeptTables : ~Rebuilds(g, t)
  BY DEF Rebuilds
<1>2. g.step \in {"rename", "create", "copy", "drop"} => g.on \in Rebuild
  OBVIOUS
<1>3. QED
  BY <1>1, <1>2, UpgradesQuietly

-----------------------------------------------------------------------------
(* StoreFiles: one step of an upgrade *)

LEMMA StepGoesOn ==
    ASSUME FilesInv, NEW o \in Opener, handle[o].step \in Upgrading,
           NEW step \in Upgrading \cup {"failed"}, step \notin {"rename", "create", "copy", "drop"},
           FilesStep(o, step), file' \in FileRow, Quiet,
           \A t \in KeptTables : /\ file'.table[t].rows = file.table[t].rows
                                 /\ file'.table[t].aside = file.table[t].aside
    PROVE  FilesInv'
<1>1. PICK g : g = [handle[o] EXCEPT !.step = step]
  OBVIOUS
<1>2. handle[o] \in HandleRow
  BY OpenerFacts DEF Upgrading
<1>3. /\ g \in HandleRow /\ g.step = step /\ g.inode = handle[o].inode
      /\ g.restoring = handle[o].restoring /\ g.generation = handle[o].generation
  BY <1>1, <1>2 DEF HandleRow, HandleStep
<1>4. handle' = [handle EXCEPT ![o] = g]
  BY <1>1 DEF FilesStep
<1>5. QED
  BY <1>3, <1>4, GoesOn

LEMMA FailsStep ==
    ASSUME FilesInv, NEW o \in Opener, handle[o].step \in Upgrading, Fails(o)
    PROVE  FilesInv'
<1>1. FilesStep(o, "failed") /\ file' = file /\ Quiet
  BY DEF Fails
<1>2. QED
  BY <1>1, OpenerFacts, StepGoesOn

LEMMA GoOnStep ==
    ASSUME FilesInv, NEW o \in Opener, handle[o].step \in Upgrading, NEW to,
           to[1] \in {"l2", "rename", "version"}, to[2] \in Rebuild \cup {Nothing},
           to[1] = "rename" => to[2] \in Rebuild,
           GoOn(o, to), file' \in FileRow, Quiet,
           \A t \in KeptTables : /\ file'.table[t].rows = file.table[t].rows
                                 /\ file'.table[t].aside = file.table[t].aside
    PROVE  FilesInv'
<1>1. PICK g : g = [handle[o] EXCEPT !.step = to[1], !.on = to[2]]
  OBVIOUS
<1>2. handle[o] \in HandleRow
  BY OpenerFacts DEF Upgrading
<1>3. to[1] \in Upgrading /\ to[1] \notin {"create", "copy", "drop"}
  BY DEF Upgrading
<1>4. /\ g \in HandleRow /\ g.step = to[1] /\ g.on = to[2] /\ g.inode = handle[o].inode
      /\ g.restoring = handle[o].restoring /\ g.generation = handle[o].generation
  BY <1>1, <1>2, <1>3 DEF HandleRow, HandleStep
<1>5. handle' = [handle EXCEPT ![o] = g]
  BY <1>1, <1>2, OpenerFacts DEF GoOn
<1>6. QED
  BY <1>3, <1>4, <1>5, GoesOn

LEMMA AfterFacts ==
    ASSUME NEW name \in Rebuild
    PROVE  /\ After(name)[1] \in {"l2", "rename", "version"}
           /\ After(name)[2] \in Rebuild \cup {Nothing}
           /\ After(name)[1] = "rename" => After(name)[2] \in Rebuild
BY DEF After, Rebuild

LEMMA RunSchemaStep ==
    ASSUME FilesInv, NEW o \in Opener, RunSchema(o) PROVE FilesInv'
<1>1. file \in FileRow /\ handle[o] \in HandleRow /\ handle[o].step \in Upgrading
  BY OpenerFacts DEF RunSchema, FilesAt, Upgrading
<1>2. PICK table, scoped, refers :
        /\ table = Created(file.table)
        /\ scoped = IF file.scoped = "none" THEN "evidence" ELSE file.scoped
        /\ refers = IF file.table["proposal"].shape = "none" THEN "task" ELSE file.refers
  OBVIOUS
<1>3. /\ table \in [Rebuilt -> FileTable] /\ scoped \in {"none", "unscoped", "shared", "evidence"}
      /\ refers \in {"task", "aside", "dropped"}
      /\ \A t \in Rebuilt : /\ table[t].rows = file.table[t].rows
                            /\ table[t].aside = file.table[t].aside
  BY <1>1, <1>2, CreatedKeeps, FileFacts
<1>4. file' = [file EXCEPT !.table = table, !.scoped = scoped, !.refers = refers]
  BY <1>1, <1>2 DEF RunSchema, FileRow
<1>5. file' \in FileRow /\ file'.table = table
  BY <1>1, <1>3, <1>4 DEF FileRow
<1>6. PICK g : g = [handle[o] EXCEPT !.step = "profile", !.version = file.version]
  OBVIOUS
<1>7. /\ g \in HandleRow /\ g.step = "profile" /\ g.inode = handle[o].inode
      /\ g.restoring = handle[o].restoring /\ g.generation = handle[o].generation
  <2>1. file.version \in {0, 3, 8, 16} /\ "profile" \in HandleStep
    BY <1>1, FileFacts DEF HandleStep, Upgrading
  <2>2. QED
    BY <1>1, <1>6, <2>1 DEF HandleRow
<1>8. handle' = [handle EXCEPT ![o] = g] /\ Quiet
  BY <1>1, <1>6, OpenerFacts DEF RunSchema
<1>9. g.step \in Upgrading \cup {"failed"}
  BY <1>7 DEF Upgrading
<1>10. \A t \in KeptTables : /\ file'.table[t].rows = file.table[t].rows
                            /\ file'.table[t].aside = file.table[t].aside
  BY <1>3, <1>5, TableFacts
<1>11. QED
  BY <1>1, <1>5, <1>7, <1>8, <1>9, <1>10, GoesOn

LEMMA CheckProfileStep ==
    ASSUME FilesInv, NEW o \in Opener, CheckProfile(o) PROVE FilesInv'
<1>1. file \in FileRow /\ handle[o] \in HandleRow /\ handle[o].step \in Upgrading
  BY OpenerFacts DEF CheckProfile, FilesAt, Upgrading
<1>2. ASSUME NEW canon \in {Nothing, "v1", "v2"}, NEW g,
             g = [handle[o] EXCEPT !.step = "relations", !.canon = canon]
      PROVE  /\ g \in HandleRow /\ g.step = "relations" /\ g.inode = handle[o].inode
             /\ g.restoring = handle[o].restoring /\ g.generation = handle[o].generation
             /\ g.step \in Upgrading \cup {"failed"}
  BY <1>1, <1>2 DEF HandleRow, HandleStep, Upgrading
<1>3. CASE file.owner = Nothing
  <2>1. PICK canon : canon = IF handle[o].version = 0 THEN "v2" ELSE "v1"
    OBVIOUS
  <2>2. file' = [file EXCEPT !.owner = OurProfile, !.canon = canon]
    BY <1>3, <2>1 DEF CheckProfile
  <2>3. file' \in FileRow /\ file'.table = file.table
    BY <1>1, <2>1, <2>2 DEF FileRow
  <2>4. PICK g : g = [handle[o] EXCEPT !.step = "relations", !.canon = canon]
    OBVIOUS
  <2>5. handle' = [handle EXCEPT ![o] = g] /\ Quiet
    BY <1>1, <1>3, <2>1, <2>4, OpenerFacts DEF CheckProfile
  <2>6. /\ g \in HandleRow /\ g.step = "relations" /\ g.inode = handle[o].inode
        /\ g.restoring = handle[o].restoring /\ g.generation = handle[o].generation
        /\ g.step \in Upgrading \cup {"failed"}
    BY <1>2, <2>1, <2>4
  <2>7. QED
    BY <1>1, <2>3, <2>5, <2>6, GoesOn
<1>4. CASE file.owner # Nothing /\ file.owner # OurProfile
  BY <1>1, <1>4, FailsStep DEF CheckProfile
<1>5. CASE file.owner # Nothing /\ file.owner = OurProfile
  <2>1. PICK canon : canon = file.canon
    OBVIOUS
  <2>2. PICK g : g = [handle[o] EXCEPT !.step = "relations", !.canon = canon]
    OBVIOUS
  <2>3. handle' = [handle EXCEPT ![o] = g] /\ Quiet /\ file' = file
    BY <1>1, <1>5, <2>1, <2>2, OpenerFacts DEF CheckProfile
  <2>4. /\ g \in HandleRow /\ g.step = "relations" /\ g.inode = handle[o].inode
        /\ g.restoring = handle[o].restoring /\ g.generation = handle[o].generation
        /\ g.step \in Upgrading \cup {"failed"}
    BY <1>1, <1>2, <2>1, <2>2, FileFacts
  <2>5. QED
    BY <1>1, <2>3, <2>4, GoesOn
<1>6. QED
  BY <1>3, <1>4, <1>5

LEMMA ScopeRelationsStep ==
    ASSUME FilesInv, NEW o \in Opener, ScopeRelations(o) \/ Backfill(o) PROVE FilesInv'
<1>1. file \in FileRow /\ handle[o].step \in Upgrading
  BY OpenerFacts DEF ScopeRelations, Backfill, FilesAt, Upgrading
<1>2. \A scoped \in {"shared", "evidence"} : /\ [file EXCEPT !.scoped = scoped] \in FileRow
                                            /\ [file EXCEPT !.scoped = scoped].table = file.table
  BY <1>1 DEF FileRow
<1>3. file' \in FileRow /\ file'.table = file.table /\ Quiet
  BY <1>1, <1>2 DEF ScopeRelations, Backfill
<1>4. PICK step \in {"backfill", "vectors"} : FilesStep(o, step)
  BY DEF ScopeRelations, Backfill
<1>5. step \in Upgrading \cup {"failed"} /\ step \notin {"rename", "create", "copy", "drop"}
  BY DEF Upgrading
<1>6. QED
  BY <1>1, <1>3, <1>4, <1>5, StepGoesOn

LEMMA LookForVectorsStep ==
    ASSUME FilesInv, NEW o \in Opener, LookForVectors(o) PROVE FilesInv'
<1>1. file \in FileRow /\ handle[o] \in HandleRow /\ handle[o].step \in Upgrading
  BY OpenerFacts DEF LookForVectors, FilesAt, Upgrading
<1>2. PICK vectors \in BOOLEAN : vectors = (file.vectors # Nothing)
  OBVIOUS
<1>3. PICK g : g = [handle[o] EXCEPT !.step = "rename", !.on = "v3", !.vectors = vectors]
  OBVIOUS
<1>4. handle' = [handle EXCEPT ![o] = g] /\ Quiet /\ file' = file
  BY <1>1, <1>2, <1>3, OpenerFacts DEF LookForVectors
<1>5. /\ g \in HandleRow /\ g.step = "rename" /\ g.on \in Rebuild /\ g.inode = handle[o].inode
      /\ g.restoring = handle[o].restoring /\ g.generation = handle[o].generation
      /\ g.step \in Upgrading \cup {"failed"}
  BY <1>1, <1>3 DEF HandleRow, HandleStep, Upgrading, Rebuild
<1>6. QED
  BY <1>1, <1>4, <1>5, GoesOn

LEMMA RebuildVectorsStep ==
    ASSUME FilesInv, NEW o \in Opener, RebuildVectors(o) PROVE FilesInv'
<1>1. file \in FileRow /\ handle[o].step \in Upgrading
  BY OpenerFacts DEF RebuildVectors, FilesAt, Upgrading
<1>2. /\ [file EXCEPT !.vectors = Nothing, !.vector = {}] \in FileRow
      /\ [file EXCEPT !.vectors = Nothing, !.vector = {}].table = file.table
  BY <1>1 DEF FileRow
<1>3. file' \in FileRow /\ file'.table = file.table /\ Quiet
  BY <1>1, <1>2 DEF RebuildVectors
<1>4. PICK step \in {"failed", "create vectors"} : FilesStep(o, step)
  BY DEF RebuildVectors
<1>5. step \in Upgrading \cup {"failed"} /\ step \notin {"rename", "create", "copy", "drop"}
  BY DEF Upgrading
<1>6. QED
  BY <1>1, <1>3, <1>4, <1>5, StepGoesOn

LEMMA CreateVectorsStep ==
    ASSUME FilesInv, NEW o \in Opener, CreateVectors(o) PROVE FilesInv'
<1>1. file \in FileRow /\ handle[o].step \in Upgrading
  BY OpenerFacts DEF CreateVectors, FilesAt, Upgrading
<1>2. CASE Fails(o)
  BY <1>1, <1>2, FailsStep
<1>3. CASE ~Fails(o)
  <2>1. /\ [file EXCEPT !.vectors = "cosine"] \in FileRow
        /\ [file EXCEPT !.vectors = "cosine"].table = file.table
    BY <1>1 DEF FileRow
  <2>2. PICK to : to = <<"rename", "checkpoint">>
    OBVIOUS
  <2>3. to[1] = "rename" /\ to[2] \in Rebuild
    BY <2>2 DEF Rebuild
  <2>4. GoOn(o, to) /\ Quiet /\ file' \in FileRow /\ file'.table = file.table
    BY <1>1, <1>3, <2>1, <2>2 DEF CreateVectors
  <2>5. QED
    BY <1>1, <2>3, <2>4, GoOnStep
<1>4. QED
  BY <1>2, <1>3

\* What holds of a process at a statement of a rebuild, and where it goes next.
LEMMA RebuildAt ==
    ASSUME FilesInv, NEW o \in Opener, NEW name \in Rebuild,
           NEW step \in {"rename", "create", "copy", "drop"}, At(o, name, step),
           NEW next \in {"create", "copy", "drop"}, FilesStep(o, next)
    PROVE  /\ handle[o] \in HandleRow /\ handle[o].on = name /\ handle[o].step = step
           /\ handle[o].step \in Upgrading
           /\ \E g \in HandleRow : /\ handle' = [handle EXCEPT ![o] = g] /\ handle'[o] = g
                                   /\ g.step = next /\ g.on = name /\ g.inode = handle[o].inode
                                   /\ g.restoring = handle[o].restoring
                                   /\ g.generation = handle[o].generation
                                   /\ g.step \in Upgrading \cup {"failed"}
<1>1. handle[o] \in HandleRow /\ handle[o].on = name /\ handle[o].step = step /\ step \in Upgrading
  BY OpenerFacts DEF At, FilesAt, Upgrading
<1>2. PICK g : g = [handle[o] EXCEPT !.step = next]
  OBVIOUS
<1>3. /\ g \in HandleRow /\ g.step = next /\ g.on = name /\ g.inode = handle[o].inode
      /\ g.restoring = handle[o].restoring /\ g.generation = handle[o].generation
  BY <1>1, <1>2 DEF HandleRow, HandleStep, Upgrading
<1>4. handle' = [handle EXCEPT ![o] = g] /\ handle'[o] = g
  BY <1>2, OpenerFacts DEF FilesStep
<1>5. g.step \in Upgrading \cup {"failed"}
  BY <1>3 DEF Upgrading
<1>6. QED
  BY <1>1, <1>3, <1>4, <1>5

\* The table is put aside, and this process is the only one to rebuild it.
LEMMA PutAsideStep ==
    ASSUME FilesInv, NEW o \in Opener, NEW name \in Rebuild, At(o, name, "rename"),
           file.table[TableAt(name)].aside = <<>>,
           file' = Renamed(file, TableAt(name)), FilesStep(o, "create"), Quiet
    PROVE  FilesInv'
<1>1. PICK t : t = TableAt(name)
  OBVIOUS
<1>2. /\ t \in Rebuilt /\ file.table[t].aside = <<>> /\ file' = Renamed(file, t)
      /\ held' = held /\ inode' = inode
  BY <1>1, TableFacts DEF Quiet
<1>3. /\ handle[o] \in HandleRow /\ handle[o].on = name /\ handle[o].step = "rename"
      /\ handle[o].step \in Upgrading
  BY RebuildAt
<1>4. PICK g \in HandleRow : /\ handle' = [handle EXCEPT ![o] = g] /\ handle'[o] = g
                             /\ g.step = "create" /\ g.on = name /\ g.inode = handle[o].inode
                             /\ g.restoring = handle[o].restoring
                             /\ g.generation = handle[o].generation
                             /\ g.step \in Upgrading \cup {"failed"}
  BY RebuildAt
<1>5. /\ file' \in FileRow /\ file'.table[t].aside = <<file.table[t].rows>>
      /\ AllRows(file'.table[t]) = AllRows(file.table[t])
      /\ \A u \in Rebuilt \ {t} : file'.table[u] = file.table[u]
  BY <1>2, OpenerFacts, RenamedKeeps
<1>6. FilesTyped' /\ \A p \in Opener : ReadsFit(handle[p], reading[p], inode)'
  BY <1>3, <1>4, <1>5, UpgradesOn
<1>7. \A p \in Opener \ {o} : handle'[p] = handle[p]
  BY <1>4, OpenerFacts
<1>8. ASSUME NEW u \in KeptTables, u # t PROVE TableFits(u)'
  <2>1. ~Rebuilds(handle[o], u)'
    BY <1>1, <1>4, <1>8 DEF Rebuilds, TableAt
  <2>2. file'.table[u].rows = file.table[u].rows /\ file'.table[u].aside = file.table[u].aside
    BY <1>5, <1>8, TableFacts
  <2>3. QED
    BY <1>2, <1>7, <2>1, <2>2, TableStays
<1>9. ASSUME t \in KeptTables PROVE TableFits(t)'
  <2>1. TableFits(t)
    BY <1>9 DEF FilesInv
  <2>2. held'[t] \subseteq AllRows(file'.table[t])
    BY <1>2, <1>5, <2>1 DEF TableFits
  <2>3. ASSUME RebuildFits(t) PROVE RebuildFits(t)'
    <3>1. ASSUME NEW p \in Opener \ {o} PROVE ~Rebuilds(handle[p], t)'
      <4>1. ~Rebuilds(handle[p], t)
        BY <1>2, <2>3 DEF RebuildFits
      <4>2. QED
        BY <1>2, <1>7, <4>1 DEF Rebuilds, TableAt
    <3>2. file'.table[t].aside # <<>>
      BY <1>5
    <3>3. handle'[o].step # "drop"
      BY <1>4
    <3>4. QED
      BY <3>1, <3>2, <3>3 DEF RebuildFits
  <2>4. QED
    BY <1>2, <2>1, <2>2, <2>3 DEF TableFits
<1>10. QED
  BY <1>6, <1>8, <1>9 DEF FilesInv

LEMMA RenameStep ==
    ASSUME FilesInv, NEW o \in Opener, NEW name \in Rebuild, Rename(o, name) PROVE FilesInv'
<1>1. At(o, name, "rename") /\ handle[o].step \in Upgrading
  BY DEF Rename, At, FilesAt, Upgrading
<1>2. CASE ~Due(o, name)
  <2>1. GoOn(o, After(name)) /\ file' = file /\ Quiet
    BY <1>2 DEF Rename
  <2>2. QED
    BY <1>1, <2>1, AfterFacts, OpenerFacts, GoOnStep
<1>3. CASE Due(o, name) /\ file.table[TableAt(name)].aside # <<>>
  BY <1>1, <1>3, FailsStep DEF Rename
<1>4. CASE Due(o, name) /\ file.table[TableAt(name)].aside = <<>>
  <2>1. file' = Renamed(file, TableAt(name)) /\ FilesStep(o, "create") /\ Quiet
    BY <1>4 DEF Rename
  <2>2. QED
    BY <1>1, <1>4, <2>1, PutAsideStep
<1>5. QED
  BY <1>2, <1>3, <1>4

LEMMA CreateStep ==
    ASSUME FilesInv, NEW o \in Opener, NEW name \in Rebuild, Create(o, name) PROVE FilesInv'
<1>1. At(o, name, "create") /\ handle[o].step \in Upgrading
  BY DEF Create, At, FilesAt, Upgrading
<1>2. CASE Fails(o)
  BY <1>1, <1>2, FailsStep
<1>3. CASE ~Fails(o)
  <2>1. /\ file' = CreatedAs(file, TableAt(name), ShapeOf(name)) /\ FilesStep(o, "copy") /\ Quiet
    BY <1>3 DEF Create
  <2>2. /\ handle[o] \in HandleRow /\ handle[o].on = name /\ handle[o].step = "create"
        /\ handle[o].step \in Upgrading
    BY <1>1, <2>1, RebuildAt
  <2>3. PICK g \in HandleRow : /\ handle' = [handle EXCEPT ![o] = g] /\ handle'[o] = g
                               /\ g.step = "copy" /\ g.on = name /\ g.inode = handle[o].inode
                               /\ g.restoring = handle[o].restoring
                               /\ g.generation = handle[o].generation
                               /\ g.step \in Upgrading \cup {"failed"}
    BY <1>1, <2>1, RebuildAt
  <2>4. /\ file' \in FileRow
        /\ \A u \in Rebuilt : /\ file'.table[u].rows = file.table[u].rows
                              /\ file'.table[u].aside = file.table[u].aside
    BY <2>1, OpenerFacts, TableFacts, CreatedAsKeeps
  <2>5. \A t \in KeptTables : Rebuilds(g, t) =>
           Rebuilds(handle[o], t) /\ (g.step = "drop" => handle[o].step = "drop")
    BY <2>2, <2>3 DEF Rebuilds
  <2>6. \A t \in KeptTables : /\ file'.table[t].rows = file.table[t].rows
                              /\ file'.table[t].aside = file.table[t].aside
    BY <2>4, TableFacts
  <2>7. Quiet /\ file' \in FileRow /\ (g.step \in {"rename", "create", "copy", "drop"} => g.on \in Rebuild)
    BY <2>1, <2>3, <2>4
  <2>8. QED
    BY <2>2, <2>3, <2>5, <2>6, <2>7, UpgradesQuietly
<1>4. QED
  BY <1>2, <1>3

\* After the rows are copied they are in the table and in the one put aside.
LEMMA CopyStep ==
    ASSUME FilesInv, NEW o \in Opener, AtPath(o), NEW name \in Rebuild, Copy(o, name)
    PROVE  FilesInv'
<1>1. At(o, name, "copy") /\ handle[o].step \in Upgrading
  BY DEF Copy, At, FilesAt, Upgrading
<1>2. CASE Fails(o)
  BY <1>1, <1>2, FailsStep
<1>3. CASE ~Fails(o)
  <2>1. PICK t : t = TableAt(name)
    OBVIOUS
  <2>2. /\ file' = Copied(file, t) /\ FilesStep(o, "drop") /\ Quiet
        /\ file.table[t].aside # <<>> /\ t \in Rebuilt
        /\ held' = held /\ inode' = inode
    BY <1>3, <2>1, TableFacts DEF Copy, Quiet
  <2>3. /\ handle[o] \in HandleRow /\ handle[o].on = name /\ handle[o].step = "copy"
        /\ handle[o].step \in Upgrading
    BY <1>1, <2>2, RebuildAt
  <2>4. PICK g \in HandleRow : /\ handle' = [handle EXCEPT ![o] = g] /\ handle'[o] = g
                               /\ g.step = "drop" /\ g.on = name /\ g.inode = handle[o].inode
                               /\ g.restoring = handle[o].restoring
                               /\ g.generation = handle[o].generation
                               /\ g.step \in Upgrading \cup {"failed"}
    BY <1>1, <2>2, RebuildAt
  <2>5. /\ file' \in FileRow /\ file'.table[t].aside = file.table[t].aside
        /\ file'.table[t].rows = file.table[t].rows \cup file.table[t].aside[1]
        /\ \A u \in Rebuilt \ {t} : file'.table[u] = file.table[u]
    BY <2>2, OpenerFacts, CopiedKeeps
  <2>6. FilesTyped' /\ \A p \in Opener : ReadsFit(handle[p], reading[p], inode)'
    BY <2>2, <2>3, <2>4, <2>5, UpgradesOn
  <2>7. \A p \in Opener \ {o} : handle'[p] = handle[p]
    BY <2>4, OpenerFacts
  <2>8. ASSUME NEW u \in KeptTables, u # t PROVE TableFits(u)'
    <3>1. ~Rebuilds(handle[o], u)'
      BY <2>1, <2>4, <2>8 DEF Rebuilds, TableAt
    <3>2. file'.table[u].rows = file.table[u].rows /\ file'.table[u].aside = file.table[u].aside
      BY <2>5, <2>8, TableFacts
    <3>3. QED
      BY <2>2, <2>7, <3>1, <3>2, TableStays
  <2>9. ASSUME t \in KeptTables PROVE TableFits(t)'
    <3>1. TableFits(t)
      BY <2>9 DEF FilesInv
    <3>2. held'[t] \subseteq AllRows(file'.table[t])
      BY <2>2, <2>5, <3>1 DEF TableFits, AllRows
    <3>3. ASSUME RebuildFits(t) PROVE RebuildFits(t)'
      <4>1. Rebuilds(handle[o], t)
        BY <2>1, <2>3 DEF Rebuilds, AtPath
      <4>2. ASSUME NEW p \in Opener \ {o} PROVE ~Rebuilds(handle[p], t)'
        <5>1. ~Rebuilds(handle[p], t)
          BY <3>3, <4>1 DEF RebuildFits
        <5>2. QED
          BY <2>2, <2>7, <5>1 DEF Rebuilds, TableAt
      <4>3. file'.table[t].aside # <<>> /\ file'.table[t].aside[1] \subseteq file'.table[t].rows
        BY <2>2, <2>5
      <4>4. QED
        BY <4>2, <4>3 DEF RebuildFits
    <3>4. QED
      BY <2>2, <3>1, <3>2, <3>3 DEF TableFits
  <2>10. QED
    BY <2>6, <2>8, <2>9 DEF FilesInv
<1>4. QED
  BY <1>2, <1>3

\* The rows put aside are in the table when they are dropped, and nobody else
\* rebuilds it.
LEMMA DropStep ==
    ASSUME FilesInv, NEW o \in Opener, AtPath(o), NEW name \in Rebuild, Drop(o, name)
    PROVE  FilesInv'
<1>1. At(o, name, "drop") /\ handle[o].step \in Upgrading
  BY DEF Drop, At, FilesAt, Upgrading
<1>2. CASE Fails(o)
  BY <1>1, <1>2, FailsStep
<1>3. CASE ~Fails(o)
  <2>1. PICK t : t = TableAt(name)
    OBVIOUS
  <2>2. /\ file' = Dropped(file, t) /\ GoOn(o, After(name)) /\ Quiet
        /\ file.table[t].aside # <<>> /\ t \in Rebuilt
        /\ held' = held /\ inode' = inode
    BY <1>3, <2>1, TableFacts DEF Drop, Quiet
  <2>3. handle[o] \in HandleRow /\ handle[o].on = name /\ handle[o].step = "drop"
    BY <1>1, OpenerFacts DEF At, FilesAt
  <2>4. PICK to : to = After(name)
    OBVIOUS
  <2>5. PICK g : g = [handle[o] EXCEPT !.step = to[1], !.on = to[2]]
    OBVIOUS
  <2>6. /\ to[1] \in {"l2", "rename", "version"} /\ to[2] \in Rebuild \cup {Nothing}
        /\ to[1] = "rename" => to[2] \in Rebuild
    BY <2>4, AfterFacts
  <2>7. to[1] \in Upgrading
    BY <2>6 DEF Upgrading
  <2>8. /\ g \in HandleRow /\ g.step = to[1] /\ g.on = to[2] /\ g.inode = handle[o].inode
        /\ g.restoring = handle[o].restoring /\ g.generation = handle[o].generation
    BY <2>3, <2>5, <2>6, <2>7 DEF HandleRow, HandleStep
  <2>9. handle' = [handle EXCEPT ![o] = g]
    BY <2>2, <2>3, <2>4, <2>5, OpenerFacts DEF GoOn
  <2>10. /\ file' \in FileRow /\ file'.table[t].aside = <<>>
         /\ \A u \in Rebuilt \ {"proposal"} : file'.table[u].rows = file.table[u].rows
         /\ \A u \in Rebuilt \ {t} : file'.table[u].aside = file.table[u].aside
    BY <2>2, OpenerFacts, DroppedKeeps
  <2>11. /\ g.step \in Upgrading \cup {"failed"} /\ g.step \notin {"create", "copy", "drop"}
         /\ (g.step \in {"rename", "create", "copy", "drop"} => g.on \in Rebuild)
    BY <2>6, <2>7, <2>8
  <2>12. FilesTyped' /\ \A p \in Opener : ReadsFit(handle[p], reading[p], inode)'
    BY <1>1, <2>2, <2>8, <2>9, <2>10, <2>11, UpgradesOn
  <2>13. handle'[o] = g /\ \A p \in Opener \ {o} : handle'[p] = handle[p]
    BY <2>9, OpenerFacts
  <2>14. ASSUME NEW u \in KeptTables, u # t PROVE TableFits(u)'
    <3>1. ~Rebuilds(handle[o], u)'
      BY <2>11, <2>13 DEF Rebuilds
    <3>2. file'.table[u].rows = file.table[u].rows /\ file'.table[u].aside = file.table[u].aside
      BY <2>10, <2>14, TableFacts
    <3>3. QED
      BY <2>2, <2>13, <3>1, <3>2, TableStays
  <2>15. ASSUME t \in KeptTables PROVE TableFits(t)'
    <3>1. TableFits(t) /\ file'.table[t].rows = file.table[t].rows
      BY <2>10, <2>15, TableFacts DEF FilesInv
    <3>2. CASE held[t] = {}
      BY <2>2, <3>2 DEF TableFits
    <3>3. CASE RebuildFits(t)
      <4>1. Rebuilds(handle[o], t)
        BY <2>1, <2>3 DEF Rebuilds, AtPath
      <4>2. /\ file.table[t].aside[1] \subseteq file.table[t].rows
            /\ \A p \in Opener : Rebuilds(handle[p], t) => p = o
        BY <2>3, <3>3, <4>1 DEF RebuildFits
      <4>3. held'[t] \subseteq AllRows(file'.table[t])
        BY <2>2, <2>10, <3>1, <4>2 DEF TableFits, AllRows
      <4>4. \A p \in Opener : ~Rebuilds(handle[p], t)'
        BY <2>2, <2>11, <2>13, <4>2 DEF Rebuilds, TableAt
      <4>5. RebuildFits(t)'
        BY <4>4 DEF RebuildFits
      <4>6. QED
        BY <4>3, <4>5 DEF TableFits
    <3>4. QED
      BY <3>1, <3>2, <3>3 DEF TableFits
  <2>16. QED
    BY <2>12, <2>14, <2>15 DEF FilesInv
<1>4. QED
  BY <1>2, <1>3

-----------------------------------------------------------------------------
(* StoreFiles: the other steps of a process *)

\* A process moves and the file stays.
LEMMA ProcessMoves ==
    ASSUME FilesInv, NEW o \in Opener, NEW g \in HandleRow \cup {Away},
           handle' = [handle EXCEPT ![o] = g], NEW rs \in SUBSET [inode : Nat, generation : Nat],
           reading' = [reading EXCEPT ![o] = rs],
           \A t \in KeptTables : /\ file'.table[t].rows = file.table[t].rows
                                 /\ file'.table[t].aside = file.table[t].aside,
           file' \in FileRow, inode' = inode, held' = held,
           copy' = {} \/ \E f \in FileRow : copy' = {f},
           salt' \in {Nothing, "empty"} \cup Opener,
           g.step \notin {"create", "copy", "drop"}, ReadsFit(g, rs, inode)
    PROVE  FilesInv'
<1>1. /\ handle'[o] = g /\ reading'[o] = rs
      /\ \A p \in Opener \ {o} : handle'[p] = handle[p] /\ reading'[p] = reading[p]
      /\ handle' \in [Opener -> HandleRow \cup {Away}]
      /\ reading' \in [Opener -> SUBSET [inode : Nat, generation : Nat]]
  BY DEF FilesInv, FilesTyped
<1>2. FilesTyped'
  BY <1>1 DEF FilesInv, FilesTyped
<1>3. \A p \in Opener : ReadsFit(handle[p], reading[p], inode)'
  BY <1>1, OthersRead
<1>4. ASSUME NEW t \in KeptTables PROVE TableFits(t)'
  <2>1. ~Rebuilds(handle[o], t)'
    BY <1>1 DEF Rebuilds
  <2>2. QED
    BY <1>1, <2>1, TableStays
<1>5. QED
  BY <1>2, <1>3, <1>4 DEF FilesInv

\* The same of a process whose connections to read stay.
LEMMA ProcessStays ==
    ASSUME FilesInv, NEW o \in Opener, NEW g \in HandleRow \cup {Away},
           handle' = [handle EXCEPT ![o] = g], reading' = reading, copy' = copy,
           \A t \in KeptTables : /\ file'.table[t].rows = file.table[t].rows
                                 /\ file'.table[t].aside = file.table[t].aside,
           file' \in FileRow, inode' = inode, held' = held,
           salt' \in {Nothing, "empty"} \cup Opener,
           g.step \notin {"create", "copy", "drop"}, ReadsFit(g, reading[o], inode)
    PROVE  FilesInv'
<1>1. reading' = [reading EXCEPT ![o] = reading[o]]
  BY DEF FilesInv, FilesTyped
<1>2. copy' = {} \/ \E f \in FileRow : copy' = {f}
  BY DEF FilesInv, FilesTyped
<1>3. QED
  BY <1>1, <1>2, OpenerFacts, ProcessMoves

\* An upgrade that has ended, in a file that is the same.
LEMMA UpgradedStep ==
    ASSUME FilesInv, NEW o \in Opener, handle[o].step \in Upgrading, Upgraded(o), Quiet,
           file' \in FileRow,
           \A t \in KeptTables : /\ file'.table[t].rows = file.table[t].rows
                                 /\ file'.table[t].aside = file.table[t].aside
    PROVE  FilesInv'
<1>1. /\ handle[o] \in HandleRow /\ ReadsFit(handle[o], reading[o], inode)
      /\ reading[o] \in SUBSET [inode : Nat, generation : Nat] /\ handle[o] # Away
  BY OpenerFacts, HandleFacts DEF Upgrading
<1>2. PICK g : g = IF handle[o].restoring
                   THEN [handle[o] EXCEPT !.step = "open", !.restoring = FALSE,
                                          !.generation = handle[o].generation + 1]
                   ELSE [handle[o] EXCEPT !.step = "salt"]
  OBVIOUS
<1>3. handle' = [handle EXCEPT ![o] = g]
  <2>1. CASE handle[o].restoring
    BY <1>1, <1>2, <2>1, OpenerFacts DEF Upgraded
  <2>2. CASE ~handle[o].restoring
    BY <1>1, <1>2, <2>2, OpenerFacts DEF Upgraded, FilesStep
  <2>3. QED
    BY <2>1, <2>2
<1>4. /\ g \in HandleRow /\ g.inode = handle[o].inode /\ g.step \in {"open", "salt"}
      /\ g.step = "open" => g.generation = handle[o].generation + 1 /\ ~g.restoring
      /\ g.step = "salt" => g.generation = handle[o].generation /\ ~g.restoring
                            /\ ~handle[o].restoring
  <2>1. CASE handle[o].restoring
    <3>1. g = [handle[o] EXCEPT !.step = "open", !.restoring = FALSE,
                                !.generation = handle[o].generation + 1]
      BY <1>2, <2>1
    <3>2. handle[o].generation + 1 \in Nat
      BY <1>1 DEF HandleRow
    <3>3. PICK n \in Nat : n = handle[o].generation + 1
      BY <3>2
    <3>4. g = [handle[o] EXCEPT !.step = "open", !.restoring = FALSE, !.generation = n]
      BY <3>1, <3>3
    <3>5. g \in HandleRow /\ g.inode = handle[o].inode /\ g.step = "open" /\ g.generation = n /\ ~g.restoring
      BY <1>1, <3>4 DEF HandleRow, HandleStep
    <3>6. QED
      BY <3>3, <3>5
  <2>2. CASE ~handle[o].restoring
    <3>1. g = [handle[o] EXCEPT !.step = "salt"]
      BY <1>2, <2>2
    <3>2. QED
      BY <1>1, <2>2, <3>1 DEF HandleRow, HandleStep, Salting
  <2>3. QED
    BY <2>1, <2>2
<1>5. ReadsFit(g, reading[o], inode)
  <2>1. g # Away
    BY <1>4, HandleFacts
  <2>2. /\ handle[o].inode \in 1 .. inode
        /\ \A c \in reading[o] : c.generation <= handle[o].generation
        /\ handle[o].restoring \/ reading[o] = {}
    BY <1>1 DEF ReadsFit
  <2>3. handle[o].generation \in Nat /\ \A c \in reading[o] : c.generation \in Nat
    BY <1>1 DEF HandleRow
  <2>4. CASE g.step = "open"
    <3>1. \A c \in reading[o] : c.generation <= g.generation /\ c.generation # g.generation
      BY <1>4, <2>2, <2>3, <2>4
    <3>2. "open" \notin Upgrading \cup Salting
      BY DEF Upgrading, Salting
    <3>3. QED
      BY <1>4, <2>1, <2>2, <2>4, <3>1, <3>2 DEF ReadsFit
  <2>5. CASE g.step = "salt"
    BY <1>4, <2>1, <2>2, <2>5 DEF ReadsFit
  <2>6. QED
    BY <1>4, <2>4, <2>5
<1>6. g.step \notin {"create", "copy", "drop"}
  BY <1>4
<1>7. /\ inode' = inode /\ held' = held /\ copy' = copy /\ reading' = reading
      /\ salt' \in {Nothing, "empty"} \cup Opener
  BY DEF Quiet, FilesInv, FilesTyped
<1>8. QED
  BY <1>3, <1>4, <1>5, <1>6, <1>7, ProcessStays

LEMMA RecordVersionStep ==
    ASSUME FilesInv, NEW o \in Opener, RecordVersion(o) PROVE FilesInv'
<1>1. file \in FileRow /\ handle[o].step \in Upgrading
  BY OpenerFacts DEF RecordVersion, FilesAt, Upgrading
<1>2. file' = [file EXCEPT !.version = 16] /\ Upgraded(o) /\ Quiet
  BY DEF RecordVersion, LatestVersion
<1>3. file' \in FileRow /\ file'.table = file.table
  BY <1>1, <1>2 DEF FileRow
<1>4. QED
  BY <1>1, <1>2, <1>3, UpgradedStep

LEMMA UnlinkedStep ==
    ASSUME FilesInv, NEW o \in Opener, UpgradeUnlinked(o) PROVE FilesInv'
<1>1. handle[o].step \in Upgrading /\ file' = file /\ file \in FileRow /\ Quiet
  BY OpenerFacts DEF UpgradeUnlinked
<1>2. CASE Upgraded(o)
  BY <1>1, <1>2, UpgradedStep
<1>3. CASE FilesStep(o, "failed")
  BY <1>1, <1>3, StepGoesOn
<1>4. QED
  BY <1>2, <1>3 DEF UpgradeUnlinked

LEMMA OpenStoreStep ==
    ASSUME FilesInv, NEW o \in Opener, OpenStore(o) PROVE FilesInv'
<1>1. PICK g : g = [step |-> "schema", on |-> Nothing, version |-> 0, vectors |-> FALSE,
                    canon |-> Nothing, salt |-> Nothing, restoring |-> FALSE, inode |-> inode,
                    generation |-> 0]
  OBVIOUS
<1>2. g \in HandleRow /\ g.step = "schema" /\ g.inode = inode /\ inode \in Nat /\ inode >= 1
  BY <1>1, OpenerFacts DEF HandleRow, HandleStep, Upgrading
<1>3. /\ handle' = [handle EXCEPT ![o] = g] /\ reading' = [reading EXCEPT ![o] = {}]
      /\ file' = file /\ inode' = inode /\ copy' = copy /\ salt' = salt /\ held' = held
  BY <1>1 DEF OpenStore
<1>4. ReadsFit(g, {}, inode)
  <2>1. g # Away
    BY <1>2, HandleFacts
  <2>2. "schema" \notin Salting \cup {"open", "copy back", "rename", "create", "copy", "drop"}
    BY DEF Salting
  <2>3. QED
    BY <1>2, <2>1, <2>2 DEF ReadsFit
<1>5. /\ salt' \in {Nothing, "empty"} \cup Opener
      /\ copy' = {} \/ \E f \in FileRow : copy' = {f}
  BY <1>3 DEF FilesInv, FilesTyped
<1>6. QED
  BY <1>2, <1>3, <1>4, <1>5, OpenerFacts, ProcessMoves

LEMMA SaltStep ==
    ASSUME FilesInv, NEW o \in Opener, LoadSalt(o) \/ TruncateSalt(o) \/ WriteSalt(o)
    PROVE  FilesInv'
<1>1. handle[o].step \in Salting
  BY DEF LoadSalt, TruncateSalt, WriteSalt, FilesAt, Salting
<1>2. /\ handle[o] \in HandleRow /\ ReadsFit(handle[o], reading[o], inode) /\ handle[o] # Away
  BY <1>1, OpenerFacts, HandleFacts DEF Salting
<1>3. PICK g \in HandleRow :
        /\ handle' = [handle EXCEPT ![o] = g]
        /\ g.step \in Salting \cup {"open"} /\ g.inode = handle[o].inode
        /\ g.restoring = handle[o].restoring /\ g.generation = handle[o].generation
  <2>1. CASE LoadSalt(o)
    <3>1. PICK step \in {"truncate salt", "open"} :
            step = IF salt = Nothing THEN "truncate salt" ELSE "open"
      OBVIOUS
    <3>2. PICK g : g = [handle[o] EXCEPT !.step = step, !.salt = salt]
      OBVIOUS
    <3>3. salt \in {Nothing, "empty"} \cup Opener
      BY DEF FilesInv, FilesTyped
    <3>4. /\ g \in HandleRow /\ g.step = step /\ g.inode = handle[o].inode
          /\ g.restoring = handle[o].restoring /\ g.generation = handle[o].generation
      BY <1>2, <3>2, <3>3 DEF HandleRow, HandleStep, Salting
    <3>5. handle' = [handle EXCEPT ![o] = g]
      BY <1>2, <2>1, <3>1, <3>2, OpenerFacts DEF LoadSalt
    <3>6. QED
      BY <3>4, <3>5 DEF Salting
  <2>2. CASE TruncateSalt(o)
    <3>1. PICK g : g = [handle[o] EXCEPT !.step = "write salt"]
      OBVIOUS
    <3>2. /\ g \in HandleRow /\ g.step = "write salt" /\ g.inode = handle[o].inode
          /\ g.restoring = handle[o].restoring /\ g.generation = handle[o].generation
      BY <1>2, <3>1 DEF HandleRow, HandleStep, Salting
    <3>3. handle' = [handle EXCEPT ![o] = g]
      BY <2>2, <3>1 DEF TruncateSalt, FilesStep
    <3>4. QED
      BY <3>2, <3>3 DEF Salting
  <2>3. CASE WriteSalt(o)
    <3>1. PICK g : g = [handle[o] EXCEPT !.step = "open", !.salt = o]
      OBVIOUS
    <3>2. /\ g \in HandleRow /\ g.step = "open" /\ g.inode = handle[o].inode
          /\ g.restoring = handle[o].restoring /\ g.generation = handle[o].generation
      BY <1>2, <3>1 DEF HandleRow, HandleStep
    <3>3. handle' = [handle EXCEPT ![o] = g]
      BY <1>2, <2>3, <3>1, OpenerFacts DEF WriteSalt
    <3>4. QED
      BY <3>2, <3>3
  <2>4. QED
    BY <2>1, <2>2, <2>3
<1>4. /\ g # Away /\ ~handle[o].restoring /\ reading[o] = {} /\ handle[o].inode \in 1 .. inode
  BY <1>1, <1>2, <1>3, HandleFacts DEF ReadsFit
<1>5. g.step \notin {"rename", "create", "copy", "drop"}
  BY <1>3 DEF Salting
<1>6. ReadsFit(g, reading[o], inode)
  BY <1>3, <1>4, <1>5 DEF ReadsFit
<1>7. /\ file' = file /\ inode' = inode /\ copy' = copy /\ reading' = reading /\ held' = held
      /\ salt' \in {Nothing, "empty"} \cup Opener
  BY DEF LoadSalt, TruncateSalt, WriteSalt, FilesInv, FilesTyped
<1>8. QED
  BY <1>3, <1>5, <1>6, <1>7, OpenerFacts, ProcessStays

LEMMA CrashStep ==
    ASSUME FilesInv, NEW o \in Opener, Crash(o) PROVE FilesInv'
<1>1. /\ handle' = [handle EXCEPT ![o] = Away] /\ reading' = [reading EXCEPT ![o] = {}]
      /\ file' = file /\ inode' = inode /\ copy' = copy /\ salt' = salt /\ held' = held
  BY DEF Crash
<1>2. Away.step \notin {"create", "copy", "drop"} /\ ReadsFit(Away, {}, inode)
  BY DEF Away, ReadsFit
<1>3. /\ salt' \in {Nothing, "empty"} \cup Opener
      /\ copy' = {} \/ \E f \in FileRow : copy' = {f}
  BY <1>1 DEF FilesInv, FilesTyped
<1>4. QED
  BY <1>1, <1>2, <1>3, OpenerFacts, ProcessMoves

LEMMA ReadStep ==
    ASSUME FilesInv, NEW o \in Opener, Read(o) PROVE FilesInv'
<1>1. /\ handle[o] \in HandleRow /\ ReadsFit(handle[o], reading[o], inode) /\ handle[o] # Away
      /\ inode \in Nat
  BY OpenerFacts, HandleFacts DEF Read, FilesAt
<1>2. PICK rs : rs = {[inode |-> inode, generation |-> handle[o].generation]}
  OBVIOUS
<1>3. rs \in SUBSET [inode : Nat, generation : Nat]
  BY <1>1, <1>2 DEF HandleRow
<1>4. handle[o].step = "open" \/ handle[o].restoring
  BY DEF Read, FilesAt
<1>5. ReadsFit(handle[o], rs, inode)
  <2>1. handle[o].generation \in Nat
    BY <1>1 DEF HandleRow
  <2>2. \A c \in rs : c.inode = inode /\ c.generation = handle[o].generation
    BY <1>2
  <2>3. "open" \notin Upgrading \cup Salting
    BY DEF Upgrading, Salting
  <2>4. (handle[o].step \in Upgrading \cup Salting) => handle[o].restoring
    BY <1>4, <2>3
  <2>5. /\ handle[o].inode \in 1 .. inode
        /\ (handle[o].step \in Salting \cup {"open", "copy back"}) => ~handle[o].restoring
        /\ handle[o].step \in {"rename", "create", "copy", "drop"} => handle[o].on \in Rebuild
    BY <1>1 DEF ReadsFit
  <2>6. \A c \in rs : c.generation <= handle[o].generation
    BY <2>1, <2>2
  <2>7. QED
    BY <1>1, <2>2, <2>4, <2>5, <2>6 DEF ReadsFit
<1>6. /\ reading' = [reading EXCEPT ![o] = rs] /\ handle' = handle
      /\ file' = file /\ inode' = inode /\ copy' = copy /\ salt' = salt /\ held' = held
  BY <1>2 DEF Read
<1>7. FilesTyped' /\ \A t \in KeptTables : TableFits(t)'
  BY <1>3, <1>6 DEF FilesInv, FilesTyped, TableFits, RebuildFits, Rebuilds
<1>8. /\ reading'[o] = rs
      /\ \A p \in Opener \ {o} : handle'[p] = handle[p] /\ reading'[p] = reading[p]
  BY <1>6 DEF FilesInv, FilesTyped
<1>9. \A p \in Opener : ReadsFit(handle[p], reading[p], inode)'
  BY <1>5, <1>6, <1>8, OthersRead
<1>10. QED
  BY <1>7, <1>9 DEF FilesInv

LEMMA BackupStep ==
    ASSUME FilesInv, NEW o \in Opener, Backup(o) PROVE FilesInv'
<1>1. /\ copy' = {file} /\ file' = file /\ inode' = inode /\ handle' = handle
      /\ reading' = reading /\ salt' = salt /\ held' = held
  BY DEF Backup
<1>2. QED
  BY <1>1 DEF FilesInv, FilesTyped, TableFits, RebuildFits, Rebuilds

-----------------------------------------------------------------------------
(* StoreFiles: a restore *)

LEMMA UnlinkStep ==
    ASSUME FilesInv, NEW o \in Opener, Unlink(o) PROVE FilesInv'
<1>1. /\ handle[o] \in HandleRow /\ handle[o].step = "open" /\ handle[o] # Away
      /\ ReadsFit(handle[o], reading[o], inode) /\ inode \in Nat /\ inode >= 1
      /\ \A c \in reading[o] : c.generation \in Nat
  BY OpenerFacts, HandleFacts DEF Unlink, FilesAt
<1>2. PICK g : g = [handle[o] EXCEPT !.step = "copy back"]
  OBVIOUS
<1>3. /\ g \in HandleRow /\ g.step = "copy back" /\ g.inode = handle[o].inode
      /\ g.restoring = handle[o].restoring /\ g.generation = handle[o].generation
  BY <1>1, <1>2 DEF HandleRow, HandleStep
<1>4. PICK empty : empty = FileOf(0, OurProfile)
  OBVIOUS
<1>5. /\ empty \in FileRow
      /\ \A t \in Rebuilt : empty.table[t].rows = {} /\ empty.table[t].aside = <<>>
  BY <1>4, FileOfTyped
<1>6. /\ handle' = [handle EXCEPT ![o] = g] /\ reading' = reading /\ copy' = copy /\ salt' = salt
      /\ file' = empty /\ held' = Rows(empty) /\ inode' = inode + 1
  BY <1>2, <1>4 DEF Unlink, FilesStep
<1>7. /\ handle'[o] = g /\ handle' \in [Opener -> HandleRow \cup {Away}]
      /\ \A p \in Opener \ {o} : handle'[p] = handle[p] /\ reading'[p] = reading[p]
  BY <1>3, <1>6, OpenerFacts
<1>8. FilesTyped'
  BY <1>1, <1>5, <1>6, <1>7 DEF FilesInv, FilesTyped
<1>9. ASSUME NEW t \in KeptTables PROVE TableFits(t)'
  <2>1. held'[t] = {}
    BY <1>5, <1>6, TableFacts DEF Rows
  <2>2. QED
    BY <2>1 DEF TableFits
<1>10. ReadsFit(g, reading[o], inode + 1)
  <2>1. g # Away /\ g.step \notin Upgrading \cup Salting
    BY <1>3, HandleFacts DEF Upgrading, Salting
  <2>2. ~g.restoring /\ \A c \in reading[o] : c.generation <= g.generation
    BY <1>1, <1>3 DEF ReadsFit
  <2>3. g.inode \in 1 .. (inode + 1)
    <3>1. PICK n, i : n = g.inode /\ i = inode
      OBVIOUS
    <3>2. n \in 1 .. i /\ i \in Nat
      BY <1>1, <1>3, <3>1 DEF ReadsFit
    <3>3. n \in 1 .. (i + 1)
      BY <3>2
    <3>4. QED
      BY <3>1, <3>3
  <2>4. QED
    BY <1>3, <2>1, <2>2, <2>3 DEF ReadsFit
<1>11. \A p \in Opener : ReadsFit(handle[p], reading[p], inode)'
  BY <1>1, <1>6, <1>7, <1>10, OthersRead
<1>12. QED
  BY <1>8, <1>9, <1>11 DEF FilesInv

\* The copy comes to a path no other process has opened, or nothing is held of it.
LEMMA CopyBackStep ==
    ASSUME FilesInv, NEW o \in Opener, CopyBack(o) PROVE FilesInv'
<1>1. /\ handle[o] \in HandleRow /\ handle[o].step = "copy back" /\ handle[o] # Away
      /\ ReadsFit(handle[o], reading[o], inode) /\ inode \in Nat /\ inode >= 1
  BY OpenerFacts, HandleFacts DEF CopyBack, FilesAt
<1>2. PICK f \in copy : /\ file' = f
                        /\ held' = IF SharedFile(o) THEN [t \in Rebuilt |-> {}] ELSE Rows(f)
  BY DEF CopyBack
<1>3. f \in FileRow
  BY <1>2 DEF FilesInv, FilesTyped
<1>4. PICK g : g = [handle[o] EXCEPT !.step = "schema", !.restoring = TRUE, !.inode = inode]
  OBVIOUS
<1>5. /\ g \in HandleRow /\ g.step = "schema" /\ g.inode = inode
      /\ g.restoring /\ g.generation = handle[o].generation
  BY <1>1, <1>4 DEF HandleRow, HandleStep, Upgrading
<1>6. /\ handle' = [handle EXCEPT ![o] = g] /\ reading' = reading /\ copy' = copy /\ salt' = salt
      /\ inode' = inode
  BY <1>1, <1>4, OpenerFacts DEF CopyBack
<1>7. /\ handle'[o] = g /\ handle' \in [Opener -> HandleRow \cup {Away}]
      /\ \A p \in Opener \ {o} : handle'[p] = handle[p] /\ reading'[p] = reading[p]
  BY <1>5, <1>6, OpenerFacts
<1>8. FilesTyped'
  BY <1>1, <1>2, <1>3, <1>6, <1>7 DEF FilesInv, FilesTyped
<1>9. ASSUME NEW t \in KeptTables PROVE TableFits(t)'
  <2>1. CASE SharedFile(o)
    <3>1. held'[t] = {}
      BY <1>2, <2>1, TableFacts
    <3>2. QED
      BY <3>1 DEF TableFits
  <2>2. CASE ~SharedFile(o)
    <3>1. held'[t] = f.table[t].rows
      BY <1>2, <2>2, TableFacts DEF Rows
    <3>2. ASSUME NEW p \in Opener PROVE ~Rebuilds(handle[p], t)'
      <4>1. CASE p = o
        BY <1>5, <1>7, <4>1 DEF Rebuilds
      <4>2. CASE p # o
        <5>1. handle[p].step = "away" \/ handle[p].inode # inode
          BY <2>2, <4>2 DEF SharedFile, FilesAt, AtPath
        <5>2. QED
          BY <1>6, <1>7, <4>2, <5>1 DEF Rebuilds
      <4>3. QED
        BY <4>1, <4>2
    <3>3. RebuildFits(t)'
      BY <3>2 DEF RebuildFits
    <3>4. QED
      BY <1>2, <3>1, <3>3 DEF TableFits, AllRows
  <2>3. QED
    BY <2>1, <2>2
<1>10. ReadsFit(g, reading[o], inode)
  <2>1. g # Away /\ "schema" \notin Salting \cup {"open", "copy back", "rename", "create", "copy", "drop"}
    BY <1>5, HandleFacts DEF Salting
  <2>2. \A c \in reading[o] : c.generation <= g.generation
    BY <1>1, <1>5 DEF ReadsFit
  <2>3. inode \in 1 .. inode
    <3>1. PICK i : i = inode
      OBVIOUS
    <3>2. i \in Nat /\ i >= 1
      BY <1>1, <3>1
    <3>3. i \in 1 .. i
      BY <3>2
    <3>4. QED
      BY <3>1, <3>3
  <2>4. /\ g.inode \in 1 .. inode /\ g.step \notin Salting \cup {"open", "copy back"}
        /\ g.step \notin {"rename", "create", "copy", "drop"} /\ g.step # "open"
    BY <1>5, <2>1, <2>3
  <2>5. g.restoring
    BY <1>5
  <2>6. QED
    BY <2>1, <2>2, <2>4, <2>5 DEF ReadsFit
<1>11. \A p \in Opener : ReadsFit(handle[p], reading[p], inode)'
  BY <1>6, <1>7, <1>10, OthersRead
<1>12. QED
  BY <1>8, <1>9, <1>11 DEF FilesInv

-----------------------------------------------------------------------------
(* StoreFiles: the theorems *)

LEMMA InitFilesInv == FilesInit => FilesInv
<1> SUFFICES ASSUME FilesInit PROVE FilesInv
  OBVIOUS
<1>1. PICK v \in Vintage : file = FileOf(v, OurProfile)
  BY DEF FilesInit
<1>2. v \in {0, 3, 8, 16}
  BY FilesAssumption
<1>3. file \in FileRow /\ \A t \in Rebuilt : file.table[t].aside = <<>>
  BY <1>1, <1>2, FileOfTyped
<1>4. copy = {} \/ \E f \in FileRow : copy = {f}
  <2>1. FileOf(16, "theirs") \in FileRow
    BY FileOfTyped
  <2>2. QED
    BY <2>1 DEF FilesInit, LatestVersion
<1>5. /\ inode = 1 /\ salt = Nothing /\ handle = [o \in Opener |-> Away]
      /\ reading = [o \in Opener |-> {}] /\ held = Rows(file)
  BY DEF FilesInit
<1>6. FilesTyped
  BY <1>3, <1>4, <1>5 DEF FilesTyped
<1>7. ASSUME NEW t \in KeptTables PROVE TableFits(t)
  <2>1. held[t] = file.table[t].rows
    BY <1>5, TableFacts DEF Rows
  <2>2. RebuildFits(t)
    BY <1>5 DEF RebuildFits, Rebuilds, Away
  <2>3. QED
    BY <2>1, <2>2 DEF TableFits, AllRows
<1>8. \A o \in Opener : ReadsFit(handle[o], reading[o], inode)
  BY <1>5 DEF ReadsFit
<1>9. QED
  BY <1>6, <1>7, <1>8 DEF FilesInv

LEMMA MigrateStep ==
    ASSUME FilesInv, NEW o \in Opener, Migrate(o) PROVE FilesInv'
<1>1. AtPath(o)
  BY DEF Migrate
<1>2. ASSUME NEW name \in Rebuild, Rename(o, name) \/ Create(o, name) \/ Copy(o, name) \/ Drop(o, name)
      PROVE  FilesInv'
  BY <1>1, <1>2, RenameStep, CreateStep, CopyStep, DropStep
<1>3. QED
  BY <1>2, RunSchemaStep, CheckProfileStep, ScopeRelationsStep, LookForVectorsStep,
     RebuildVectorsStep, CreateVectorsStep, RecordVersionStep DEF Migrate

LEMMA NextFilesInv == FilesInv /\ [FilesNext]_filesVars => FilesInv'
<1> SUFFICES ASSUME FilesInv, [FilesNext]_filesVars PROVE FilesInv'
  OBVIOUS
<1>1. ASSUME NEW o \in Opener,
             \/ OpenStore(o) \/ Migrate(o) \/ UpgradeUnlinked(o)
             \/ LoadSalt(o) \/ TruncateSalt(o) \/ WriteSalt(o)
             \/ Crash(o) \/ Backup(o) \/ Unlink(o) \/ CopyBack(o) \/ Read(o)
      PROVE  FilesInv'
  BY <1>1, OpenStoreStep, MigrateStep, UnlinkedStep, SaltStep, CrashStep, BackupStep, UnlinkStep,
     CopyBackStep, ReadStep
<1>2. ASSUME UNCHANGED filesVars PROVE FilesInv'
  <2>1. /\ copy' = copy /\ file' = file /\ inode' = inode /\ handle' = handle
        /\ reading' = reading /\ salt' = salt /\ held' = held
    BY <1>2 DEF filesVars
  <2>2. QED
    BY <2>1 DEF FilesInv, FilesTyped, TableFits, RebuildFits, Rebuilds
<1>3. QED
  BY <1>1, <1>2 DEF FilesNext

LEMMA AlwaysFilesInv == FilesSpec => []FilesInv
BY InitFilesInv, NextFilesInv, PTL DEF FilesSpec

\* A file, its backup, the salt and the handles on them have their types.
THEOREM FilesTypesHold == FilesSpec => []FilesTypeOK
<1>1. ASSUME FilesInv PROVE FilesTypeOK
  <2>1. /\ file \in FileRow /\ salt \in {Nothing, "empty"} \cup Opener
        /\ copy = {} \/ \E f \in FileRow : copy = {f}
    BY <1>1 DEF FilesInv, FilesTyped
  <2>2. Cardinality(copy) <= 1
    <3>1. CASE copy = {}
      BY <3>1, FS_EmptySet
    <3>2. CASE \E f \in FileRow : copy = {f}
      BY <3>2, FS_Singleton
    <3>3. QED
      BY <2>1, <3>1, <3>2
  <2>3. ASSUME NEW o \in Opener, ~FilesAt(o, "away") PROVE handle[o].inode \in 1 .. inode
    <3>1. handle[o] \in HandleRow /\ ReadsFit(handle[o], reading[o], inode)
      BY <1>1, <2>3, OpenerFacts DEF FilesAt
    <3>2. QED
      BY <3>1, HandleFacts DEF ReadsFit
  <2>4. QED
    BY <2>1, <2>2, <2>3, FileFacts DEF FilesTypeOK
<1>2. QED
  BY <1>1, AlwaysFilesInv, PTL

\* Upgrades by any number of processes, stopped anywhere, and restores lose no
\* inference task and no checkpoint, and the connections of other threads
\* follow the file of an open store (_migrate, restore, _read_connection).
THEOREM FilesAlwaysHold == FilesSpec => []FilesHold
<1>1. ASSUME FilesInv PROVE FilesHold
  <2>1. ASSUME NEW t \in {"task", "checkpoint"}
        PROVE  held[t] \subseteq UNION ({file.table[t].rows} \cup Range(file.table[t].aside))
    <3>1. t \in KeptTables /\ file.table[t] \in FileTable
      BY <1>1, OpenerFacts, FileFacts, TableFacts DEF KeptTables, FilesInv, FilesTyped
    <3>2. TableFits(t)
      BY <1>1, <3>1 DEF FilesInv
    <3>3. QED
      BY <3>1, <3>2, AsideFacts DEF TableFits
  <2>2. ASSUME NEW o \in Opener, NEW c \in reading[o],
               FilesAt(o, "open"), AtPath(o), Follows(c, handle[o])
        PROVE  c.inode = inode
    <3>1. handle[o] # Away /\ ReadsFit(handle[o], reading[o], inode)
      BY <1>1, <2>2, OpenerFacts DEF FilesAt, Away
    <3>2. QED
      BY <2>2, <3>1 DEF ReadsFit, FilesAt, AtPath, Follows
  <2>3. QED
    BY <2>1, <2>2 DEF FilesHold, RowsSomewhere, ReadersFollow
<1>2. QED
  BY <1>1, AlwaysFilesInv, PTL

-----------------------------------------------------------------------------
(* TelemetryIngest: the inductive invariant *)

FactRow   == [text : Text, turn : IngestTurn]
IngestKey == Provider \X IngestTurn \X {"event", "metric"}
StepRow   == IngestRecord \cup [event : {"call"}, text : {NotThere}, turn : IngestTurn, linked : {FALSE}]
Calling   == {"event", "metric", "health"}
ReceiverRow(facts) ==
    [at : {"idle", "next", "store"} \cup Calling, steps : Seq(StepRow), of : [IngestTurn -> 0 .. facts],
     call : Provider \cup {NotThere}, took : 0 .. 2]
IngestRow(facts, ids) ==
    [id : 1 .. ids, key : IngestKey \cup {NoKey}, provider : Provider \cup {NotThere},
     turn : IngestTurn, memory : 0 .. facts, old : BOOLEAN]

IngestTyped ==
    /\ fact \in Seq(FactRow) /\ Len(fact) <= MaxFacts
    /\ rowsEver \in 0 .. MaxIngestRows /\ arrivals \in 0 .. MaxArrivals
    /\ row \subseteq IngestRow(Len(fact), rowsEver)
    /\ dedupe \subseteq IngestKey /\ IsFiniteSet(dedupe) /\ removed \subseteq dedupe
    /\ health \in [Provider -> [accepted : Nat, duplicates : Nat]]
    /\ receiver \in [Receiver -> ReceiverRow(Len(fact))]

\* A key with a row is in the dedupe table, and was not removed.
KeysFit ==
    /\ \A e \in row : e.key # NoKey => e.key \in dedupe \ removed
    /\ \A e, other \in row : e.key = other.key /\ e.key # NoKey => e = other

\* An adapter counts what it recorded, before it adds it to the counter.
CountFits(r) ==
    /\ receiver[r].at \in Calling => receiver[r].call \in Provider
    /\ receiver[r].at = "event" => receiver[r].took = 0
    /\ receiver[r].at = "metric" => receiver[r].took <= 1

\* Every event counted as accepted has a key of its own among the recorded:
\* counted of a provider, and taken by a call that has not counted it yet.
Credited(counted, taken) ==
    /\ \A p \in Provider : /\ \A k \in counted[p] : k[1] = p
                           /\ health[p].accepted <= Cardinality(counted[p])
    /\ \A r \in Receiver : /\ \A k \in taken[r] : k[1] = receiver[r].call
                           /\ receiver[r].took <= Cardinality(taken[r])
    /\ \A r, q \in Receiver : r # q => taken[r] \cap taken[q] = {}
    /\ \A r \in Receiver, p \in Provider : taken[r] \cap counted[p] = {}

IngestInv ==
    /\ IngestTyped /\ KeysFit
    /\ \A r \in Receiver : CountFits(r)
    /\ \E counted \in [Provider -> SUBSET dedupe], taken \in [Receiver -> SUBSET dedupe] :
          Credited(counted, taken)

LEMMA RowsCounted ==
    ASSUME IngestInv PROVE rowsEver \in Nat
BY IngestAssumption DEF IngestInv, IngestTyped

LEMMA IngestFacts ==
    ASSUME IngestInv, NEW r \in Receiver
    PROVE  /\ receiver[r] \in ReceiverRow(Len(fact)) /\ CountFits(r) /\ Len(fact) \in Nat
           /\ receiver \in [Receiver -> ReceiverRow(Len(fact))]
           /\ receiver[r].at \in {"idle", "next", "store"} \cup Calling
           /\ receiver[r].steps \in Seq(StepRow) /\ receiver[r].of \in [IngestTurn -> 0 .. Len(fact)]
           /\ receiver[r].call \in Provider \cup {NotThere} /\ receiver[r].took \in 0 .. 2
BY LenProperties DEF IngestInv, IngestTyped, ReceiverRow

\* What a thread has before it is a step of one of the kinds.
LEMMA StepFacts ==
    ASSUME IngestInv, NEW r \in Receiver, receiver[r].steps # <<>>
    PROVE  /\ IngestStep(r) \in StepRow /\ Tail(receiver[r].steps) \in Seq(StepRow)
           /\ IngestStep(r).turn \in IngestTurn
           /\ IngestStep(r).event = "text" => IngestStep(r).text \in Text
<1>1. IngestStep(r) \in StepRow /\ Tail(receiver[r].steps) \in Seq(StepRow)
  BY IngestFacts, HeadTailProperties DEF IngestStep
<1>2. QED
  BY <1>1 DEF StepRow, IngestRecord

LEMMA WaitingFacts ==
    ASSUME NEW n \in Nat
    PROVE  Waiting \in ReceiverRow(n) /\ Waiting.at = "idle" /\ Waiting.took = 0
BY DEF Waiting, ReceiverRow, NoFact, NotThere

\* The oldest memory with a text is one of the memories.
LEMMA OldestFacts ==
    ASSUME IngestInv, NEW text
    PROVE  Oldest(text) \in 0 .. Len(fact)
<1>1. Len(fact) \in Nat
  BY LenProperties DEF IngestInv, IngestTyped
<1>2. CASE WithText(text) = {}
  BY <1>1, <1>2 DEF Oldest, NoFact
<1>3. CASE WithText(text) # {}
  <2>1. WithText(text) \subseteq Nat /\ WithText(text) \subseteq 1 .. Len(fact)
    BY <1>1 DEF WithText
  <2>2. PICK i \in WithText(text) : \A j \in WithText(text) : ~(<<j, i>> \in OpToRel(<, Nat))
    BY <1>3, <2>1, NatLessThanWellFounded, WFMin
  <2>3. \A j \in WithText(text) : i <= j
    <3>1. \A j \in WithText(text) : ~(j < i)
      BY <2>1, <2>2 DEF OpToRel
    <3>2. QED
      BY <2>1, <3>1
  <2>4. Oldest(text) \in WithText(text)
    BY <1>3, <2>3 DEF Oldest
  <2>5. QED
    BY <1>1, <2>1, <2>4
<1>4. QED
  BY <1>2, <1>3

LEMMA RowsGrow ==
    ASSUME NEW n \in Nat, NEW m \in Nat, n <= m, NEW i \in Nat, NEW j \in Nat, i <= j
    PROVE  IngestRow(n, i) \subseteq IngestRow(m, j) /\ ReceiverRow(n) \subseteq ReceiverRow(m)
<1>1. 0 .. n \subseteq 0 .. m /\ 1 .. i \subseteq 1 .. j
  OBVIOUS
<1>2. [IngestTurn -> 0 .. n] \subseteq [IngestTurn -> 0 .. m]
  BY <1>1
<1>3. QED
  BY <1>1, <1>2 DEF IngestRow, ReceiverRow

\* Keys are triples, and no triple is the mark of a row without one.
LEMMA KeyFacts ==
    ASSUME NEW k \in IngestKey
    PROVE  k # NoKey /\ k[1] \in Provider
<1>1. PICK p \in Provider, t \in IngestTurn, stage \in {"event", "metric"} : k = <<p, t, stage>>
  BY DEF IngestKey
<1>2. <<p, t, stage>> # <<>> /\ <<p, t, stage>>[1] = p
  OBVIOUS
<1>3. QED
  BY <1>1, <1>2 DEF NoKey

\* A thread moves on, and counts nothing new.
LEMMA ThreadMoves ==
    ASSUME IngestInv, NEW r \in Receiver, NEW g \in ReceiverRow(Len(fact')),
           receiver' = [receiver EXCEPT ![r] = g],
           g.took = 0 \/ (g.took = receiver[r].took /\ g.call = receiver[r].call),
           g.at \in Calling => g.call \in Provider /\ g.at = "event" /\ g.took = 0,
           UNCHANGED <<dedupe, health, removed>>,
           fact' \in Seq(FactRow), Len(fact) <= Len(fact'), Len(fact') <= MaxFacts,
           rowsEver' \in 0 .. MaxIngestRows, arrivals' \in 0 .. MaxArrivals,
           row' \subseteq IngestRow(Len(fact'), rowsEver'), KeysFit'
    PROVE  IngestInv'
<1>1. /\ Len(fact) \in Nat /\ Len(fact') \in Nat
      /\ receiver \in [Receiver -> ReceiverRow(Len(fact))]
  BY LenProperties DEF IngestInv, IngestTyped
<1>2. receiver \in [Receiver -> ReceiverRow(Len(fact'))]
  BY <1>1, RowsGrow
<1>3. /\ receiver' \in [Receiver -> ReceiverRow(Len(fact'))] /\ receiver'[r] = g
      /\ \A q \in Receiver : q # r => receiver'[q] = receiver[q]
  BY <1>2
<1>4. IngestTyped'
  BY <1>3 DEF IngestInv, IngestTyped
<1>5. ASSUME NEW q \in Receiver PROVE CountFits(q)'
  <2>1. CASE q = r
    BY <1>3, <2>1 DEF CountFits, Calling
  <2>2. CASE q # r
    BY <1>3, <2>2 DEF IngestInv, CountFits
  <2>3. QED
    BY <2>1, <2>2
<1>6. PICK counted \in [Provider -> SUBSET dedupe], taken \in [Receiver -> SUBSET dedupe] :
         Credited(counted, taken)
  BY DEF IngestInv
<1>7. CASE g.took = 0
  <2>1. PICK grown : grown = [taken EXCEPT ![r] = {}]
    OBVIOUS
  <2>2. /\ grown \in [Receiver -> SUBSET dedupe] /\ grown[r] = {}
        /\ \A q \in Receiver : q # r => grown[q] = taken[q]
    BY <2>1
  <2>3. Cardinality({}) = 0
    BY FS_EmptySet
  <2>4. Credited(counted, grown)'
    <3>1. \A q \in Receiver : /\ \A k \in grown[q] : k[1] = receiver'[q].call
                              /\ receiver'[q].took <= Cardinality(grown[q])
      <4>1. ASSUME NEW q \in Receiver, q = r
            PROVE  (\A k \in grown[q] : k[1] = receiver'[q].call) /\ receiver'[q].took <= Cardinality(grown[q])
        <5>1. receiver'[q].took = 0 /\ grown[q] = {}
          BY <1>3, <1>7, <2>2, <4>1
        <5>2. Cardinality(grown[q]) = 0
          BY <2>3, <5>1
        <5>3. QED
          BY <5>1, <5>2
      <4>2. ASSUME NEW q \in Receiver, q # r
            PROVE  (\A k \in grown[q] : k[1] = receiver'[q].call) /\ receiver'[q].took <= Cardinality(grown[q])
        BY <1>3, <1>6, <2>2, <4>2 DEF Credited
      <4>3. QED
        BY <4>1, <4>2
    <3>2. \A q, v \in Receiver : q # v => grown[q] \cap grown[v] = {}
      BY <1>6, <2>2 DEF Credited
    <3>3. \A q \in Receiver, p \in Provider : grown[q] \cap counted[p] = {}
      BY <1>6, <2>2 DEF Credited
    <3>4. \A p \in Provider : /\ \A k \in counted[p] : k[1] = p
                              /\ health'[p].accepted <= Cardinality(counted[p])
      BY <1>6 DEF Credited
    <3>5. QED
      BY <3>1, <3>2, <3>3, <3>4 DEF Credited
  <2>5. QED
    BY <1>4, <1>5, <2>2, <2>4 DEF IngestInv
<1>8. CASE g.took = receiver[r].took /\ g.call = receiver[r].call
  <2>1. \A q \in Receiver : receiver'[q].took = receiver[q].took /\ receiver'[q].call = receiver[q].call
    BY <1>3, <1>8
  <2>2. Credited(counted, taken)'
    BY <1>6, <2>1 DEF Credited
  <2>3. QED
    BY <1>4, <1>5, <1>6, <2>2 DEF IngestInv
<1>9. QED
  BY <1>7, <1>8

\* The rows are left alone while memories may be added.
LEMMA RowsStay ==
    ASSUME IngestInv, UNCHANGED <<row, rowsEver, dedupe, removed>>, fact' \in Seq(FactRow),
           Len(fact) <= Len(fact')
    PROVE  row' \subseteq IngestRow(Len(fact'), rowsEver') /\ KeysFit' /\ rowsEver' \in 0 .. MaxIngestRows
<1>1. Len(fact) \in Nat /\ Len(fact') \in Nat /\ rowsEver \in Nat
  BY LenProperties DEF IngestInv, IngestTyped
<1>2. IngestRow(Len(fact), rowsEver) \subseteq IngestRow(Len(fact'), rowsEver)
  BY <1>1, RowsGrow
<1>3. QED
  BY <1>2 DEF IngestInv, IngestTyped, KeysFit

LEMMA BeginStep ==
    ASSUME IngestInv, NEW r \in Receiver, NEW steps \in Seq(StepRow), Begin(r, steps)
    PROVE  IngestInv'
<1>1. PICK g : g = [Waiting EXCEPT !.at = "next", !.steps = steps]
  OBVIOUS
<1>2. Len(fact) \in Nat /\ arrivals \in 0 .. MaxArrivals /\ MaxArrivals \in Nat
  BY IngestFacts, IngestAssumption DEF IngestInv, IngestTyped
<1>3. g \in ReceiverRow(Len(fact)) /\ g.took = 0 /\ g.at = "next"
  BY <1>1, <1>2, WaitingFacts DEF ReceiverRow
<1>4. /\ receiver' = [receiver EXCEPT ![r] = g] /\ arrivals' = arrivals + 1 /\ arrivals < MaxArrivals
      /\ UNCHANGED <<fact, row, rowsEver, dedupe, health, removed>>
  BY <1>1 DEF Begin
<1>5. arrivals' \in 0 .. MaxArrivals
  BY <1>2, <1>4
<1>6. fact' \in Seq(FactRow) /\ Len(fact) <= Len(fact') /\ Len(fact') <= MaxFacts
  BY <1>2, <1>4 DEF IngestInv, IngestTyped
<1>7. QED
  BY <1>3, <1>4, <1>5, <1>6, RowsStay, ThreadMoves DEF Calling

\* What a batch is handled as is a sequence of steps.
LEMMA BatchFacts ==
    ASSUME NEW n \in Nat, NEW b \in Batches(n)
    PROVE  b \in Seq(StepRow)
<1>1. PICK k \in 1 .. n : b \in [1 .. k -> IngestRecord]
  BY DEF Batches
<1>2. k \in Nat
  BY <1>1
<1>3. b \in [1 .. k -> StepRow]
  BY <1>1, <1>2 DEF StepRow
<1>4. QED
  BY <1>2, <1>3, SeqDef

LEMMA ArrivalStep ==
    ASSUME IngestInv, NEW r \in Receiver,
           PostLogs(r) \/ PostTraces(r) \/ PostMetrics(r) \/ ScanFile(r)
    PROVE  IngestInv'
<1>1. MaxBatch \in Nat /\ MaxBatch + 1 \in Nat
  BY IngestAssumption
<1>2. LogSteps \cup MetricSteps \subseteq Batches(MaxBatch) /\ SpanSteps \subseteq Batches(MaxBatch + 1)
      /\ FileSteps \subseteq Batches(1)
  BY DEF LogSteps, MetricSteps, SpanSteps, FileSteps
<1>3. \E b \in Seq(StepRow) : Begin(r, b)
  BY <1>1, <1>2, BatchFacts DEF PostLogs, PostTraces, PostMetrics, ScanFile
<1>4. QED
  BY <1>3, BeginStep

\* A text is a memory, and the thread goes on to its next record.
LEMMA ResolvedFacts ==
    ASSUME IngestInv, NEW r \in Receiver, receiver[r].steps # <<>>, NEW n \in Nat, Len(fact) <= n,
           NEW linkTo \in 0 .. n, receiver[r].at \in {"next", "store"}, Resolved(r, linkTo)
    PROVE  \E g \in ReceiverRow(n) :
              /\ receiver' = [receiver EXCEPT ![r] = g]
              /\ g.took = receiver[r].took /\ g.call = receiver[r].call /\ g.at = "next"
<1>1. receiver[r] \in ReceiverRow(n)
  BY IngestFacts, RowsGrow
<1>2. PICK g : g = [receiver[r] EXCEPT !.at = "next", !.steps = Tail(receiver[r].steps),
                                       !.of = [receiver[r].of EXCEPT ![IngestStep(r).turn] = linkTo]]
  OBVIOUS
<1>3. [receiver[r].of EXCEPT ![IngestStep(r).turn] = linkTo] \in [IngestTurn -> 0 .. n]
  BY <1>1 DEF ReceiverRow
<1>4. Tail(receiver[r].steps) \in Seq(StepRow)
  BY StepFacts
<1>5. /\ g \in ReceiverRow(n) /\ g.took = receiver[r].took /\ g.call = receiver[r].call
      /\ g.at = "next"
  BY <1>1, <1>2, <1>3, <1>4 DEF ReceiverRow
<1>6. receiver' = [receiver EXCEPT ![r] = g]
  BY <1>1, <1>2, IngestFacts DEF Resolved, ReceiverRow
<1>7. QED
  BY <1>5, <1>6

LEMMA FindTextStep ==
    ASSUME IngestInv, NEW r \in Receiver, FindText(r)
    PROVE  IngestInv'
<1>1. /\ receiver[r].at = "next" /\ receiver[r].steps # <<>> /\ receiver[r] \in ReceiverRow(Len(fact))
      /\ UNCHANGED <<fact, row, rowsEver, dedupe, health, arrivals, removed>> /\ Len(fact) \in Nat
  BY IngestFacts DEF FindText, IngestAt
<1>2. fact' \in Seq(FactRow) /\ Len(fact) <= Len(fact') /\ Len(fact') <= MaxFacts
      /\ arrivals' \in 0 .. MaxArrivals
  BY <1>1 DEF IngestInv, IngestTyped
<1>3. \E g \in ReceiverRow(Len(fact)) :
         /\ receiver' = [receiver EXCEPT ![r] = g]
         /\ g.took = receiver[r].took /\ g.call = receiver[r].call /\ g.at \in {"next", "store"}
  <2>1. CASE Oldest(IngestStep(r).text) # NoFact
    BY <1>1, <2>1, OldestFacts, ResolvedFacts DEF FindText
  <2>2. CASE Oldest(IngestStep(r).text) = NoFact
    <3>1. PICK g : g = [receiver[r] EXCEPT !.at = "store"]
      OBVIOUS
    <3>2. g \in ReceiverRow(Len(fact)) /\ g.took = receiver[r].took /\ g.call = receiver[r].call
          /\ g.at = "store"
      BY <1>1, <3>1 DEF ReceiverRow
    <3>3. receiver' = [receiver EXCEPT ![r] = g]
      BY <2>2, <3>1 DEF FindText
    <3>4. QED
      BY <3>2, <3>3
  <2>3. QED
    BY <2>1, <2>2
<1>4. QED
  BY <1>1, <1>2, <1>3, RowsStay, ThreadMoves DEF Calling

LEMMA StoreTextStep ==
    ASSUME IngestInv, NEW r \in Receiver, StoreText(r)
    PROVE  IngestInv'
<1>1. /\ receiver[r].at = "store" /\ receiver[r].steps # <<>> /\ Len(fact) < MaxFacts
      /\ IngestStep(r).event = "text"
      /\ fact' = Append(fact, [text |-> IngestStep(r).text, turn |-> IngestStep(r).turn])
      /\ Resolved(r, Len(fact) + 1)
      /\ UNCHANGED <<row, rowsEver, dedupe, health, arrivals, removed>> /\ Len(fact) \in Nat
  BY IngestFacts DEF StoreText, IngestAt
<1>2. fact \in Seq(FactRow) /\ MaxFacts \in Nat /\ arrivals' \in 0 .. MaxArrivals
  BY <1>1, IngestAssumption DEF IngestInv, IngestTyped
<1>3. [text |-> IngestStep(r).text, turn |-> IngestStep(r).turn] \in FactRow
  BY <1>1, StepFacts DEF FactRow
<1>4. fact' \in Seq(FactRow) /\ Len(fact') = Len(fact) + 1
  BY <1>1, <1>2, <1>3, AppendProperties
<1>5. Len(fact') \in Nat /\ Len(fact) <= Len(fact') /\ Len(fact') <= MaxFacts
      /\ Len(fact) + 1 \in 0 .. Len(fact')
  BY <1>1, <1>2, <1>4
<1>6. PICK g \in ReceiverRow(Len(fact')) :
         /\ receiver' = [receiver EXCEPT ![r] = g]
         /\ g.took = receiver[r].took /\ g.call = receiver[r].call /\ g.at = "next"
  BY <1>1, <1>5, ResolvedFacts
<1>7. QED
  BY <1>1, <1>2, <1>4, <1>5, <1>6, RowsStay, ThreadMoves DEF Calling

\* A row is written under a new id; the others keep theirs.
LEMMA RowAdded ==
    ASSUME IngestInv, rowsEver < MaxIngestRows, rowsEver' = rowsEver + 1, fact' = fact,
           NEW e \in IngestRow(Len(fact), rowsEver + 1), row' = row \cup {e},
           removed' = removed, dedupe \subseteq dedupe',
           e.key # NoKey => e.key \in dedupe' \ dedupe
    PROVE  /\ rowsEver' \in 0 .. MaxIngestRows
           /\ row' \subseteq IngestRow(Len(fact'), rowsEver') /\ KeysFit'
<1>1. /\ Len(fact) \in Nat /\ rowsEver \in 0 .. MaxIngestRows /\ MaxIngestRows \in Nat
      /\ row \subseteq IngestRow(Len(fact), rowsEver) /\ removed \subseteq dedupe
  BY LenProperties, IngestAssumption DEF IngestInv, IngestTyped
<1>2. rowsEver' \in 0 .. MaxIngestRows
  BY <1>1
<1>3. IngestRow(Len(fact), rowsEver) \subseteq IngestRow(Len(fact), rowsEver + 1)
  BY <1>1, RowsGrow
<1>4. row' \subseteq IngestRow(Len(fact'), rowsEver')
  BY <1>1, <1>3
<1>5. \A f \in row : f.key # NoKey => f.key \in dedupe \ removed
  BY DEF IngestInv, KeysFit
<1>6. \A f \in row' : f.key # NoKey => f.key \in dedupe' \ removed'
  BY <1>1, <1>5
<1>7. \A f, other \in row' : f.key = other.key /\ f.key # NoKey => f = other
  <2>1. \A f, other \in row : f.key = other.key /\ f.key # NoKey => f = other
    BY DEF IngestInv, KeysFit
  <2>2. \A f \in row : f.key # NoKey => f.key # e.key
    BY <1>5
  <2>3. QED
    BY <2>1, <2>2
<1>8. QED
  BY <1>2, <1>4, <1>6, <1>7 DEF KeysFit

LEMMA RecordRowStep ==
    ASSUME IngestInv, NEW r \in Receiver, RecordRow(r)
    PROVE  IngestInv'
<1>1. /\ receiver[r].at = "next" /\ receiver[r].steps # <<>> /\ rowsEver < MaxIngestRows
      /\ rowsEver' = rowsEver + 1 /\ receiver' = [receiver EXCEPT ![r].steps = Tail(@)]
      /\ UNCHANGED <<fact, dedupe, health, arrivals, removed>>
  BY DEF RecordRow, IngestAt
<1>2. PICK linkTo : linkTo = IF IngestStep(r).linked THEN receiver[r].of[IngestStep(r).turn] ELSE NoFact
  OBVIOUS
<1>3. Len(fact) \in Nat /\ IngestStep(r).turn \in IngestTurn /\ rowsEver \in Nat
  BY <1>1, StepFacts, IngestFacts, RowsCounted
<1>4. linkTo \in 0 .. Len(fact)
  BY <1>2, <1>3, IngestFacts DEF NoFact
<1>5. PICK e : e = NewRow(NoKey, NotThere, IngestStep(r).turn, linkTo)
  OBVIOUS
<1>6. e \in IngestRow(Len(fact), rowsEver + 1) /\ e.key = NoKey
  <2>1. rowsEver + 1 \in 1 .. (rowsEver + 1)
    BY <1>3
  <2>2. QED
    BY <1>3, <1>4, <1>5, <2>1 DEF NewRow, IngestRow
<1>7. row' = row \cup {e}
  BY <1>2, <1>5 DEF RecordRow
<1>8. /\ rowsEver' \in 0 .. MaxIngestRows
      /\ row' \subseteq IngestRow(Len(fact'), rowsEver') /\ KeysFit'
  BY <1>1, <1>6, <1>7, RowAdded
<1>9. PICK g : g = [receiver[r] EXCEPT !.steps = Tail(receiver[r].steps)]
  OBVIOUS
<1>10. /\ g \in ReceiverRow(Len(fact)) /\ g.took = receiver[r].took /\ g.call = receiver[r].call
       /\ g.at = "next"
  BY <1>1, <1>9, StepFacts, IngestFacts DEF ReceiverRow
<1>11. receiver' = [receiver EXCEPT ![r] = g]
  BY <1>1, <1>9
<1>12. /\ fact' \in Seq(FactRow) /\ Len(fact) <= Len(fact') /\ Len(fact') <= MaxFacts
       /\ arrivals' \in 0 .. MaxArrivals /\ Len(fact') = Len(fact)
  BY <1>1, <1>3 DEF IngestInv, IngestTyped
<1>13. QED
  BY <1>1, <1>8, <1>10, <1>11, <1>12, ThreadMoves DEF Calling

LEMMA AnswerStep ==
    ASSUME IngestInv, NEW r \in Receiver, Answer(r) \/ IngestFails(r)
    PROVE  IngestInv'
<1>1. /\ receiver' = [receiver EXCEPT ![r] = Waiting]
      /\ UNCHANGED <<fact, row, rowsEver, dedupe, health, arrivals, removed>>
  BY DEF Answer, IngestFails
<1>2. /\ fact' \in Seq(FactRow) /\ Len(fact) <= Len(fact') /\ Len(fact') <= MaxFacts
      /\ arrivals' \in 0 .. MaxArrivals /\ Len(fact) \in Nat
  BY <1>1, IngestFacts DEF IngestInv, IngestTyped
<1>3. Waiting \in ReceiverRow(Len(fact')) /\ Waiting.at = "idle" /\ Waiting.took = 0
  BY <1>1, <1>2, WaitingFacts
<1>4. QED
  BY <1>1, <1>2, <1>3, RowsStay, ThreadMoves DEF Calling

LEMMA AdapterCallStep ==
    ASSUME IngestInv, NEW r \in Receiver, NEW p \in Provider, NEW t \in IngestTurn,
           AdapterCall(r, p, t)
    PROVE  IngestInv'
<1>1. PICK x : x = [event |-> "call", text |-> NotThere, turn |-> t, linked |-> FALSE]
  OBVIOUS
<1>2. x \in StepRow
  BY <1>1 DEF StepRow
<1>3. PICK g : g = [Waiting EXCEPT !.at = "event", !.call = p, !.steps = <<x>>]
  OBVIOUS
<1>4. Len(fact) \in Nat /\ arrivals \in 0 .. MaxArrivals /\ MaxArrivals \in Nat
  BY IngestFacts, IngestAssumption DEF IngestInv, IngestTyped
<1>5. <<x>> \in Seq(StepRow)
  BY <1>2
<1>6. g \in ReceiverRow(Len(fact)) /\ g.took = 0 /\ g.at = "event" /\ g.call = p
  BY <1>3, <1>4, <1>5, WaitingFacts DEF ReceiverRow, Calling
<1>7. /\ receiver' = [receiver EXCEPT ![r] = g] /\ arrivals' = arrivals + 1 /\ arrivals < MaxArrivals
      /\ UNCHANGED <<fact, row, rowsEver, dedupe, health, removed>>
  BY <1>1, <1>3 DEF AdapterCall
<1>8. /\ fact' \in Seq(FactRow) /\ Len(fact) <= Len(fact') /\ Len(fact') <= MaxFacts
      /\ arrivals' \in 0 .. MaxArrivals
  BY <1>4, <1>7 DEF IngestInv, IngestTyped
<1>9. QED
  BY <1>6, <1>7, <1>8, RowsStay, ThreadMoves

LEMMA AdapterRecordStep ==
    ASSUME IngestInv, NEW r \in Receiver, NEW stage \in {"event", "metric"}, AdapterRecord(r, stage)
    PROVE  IngestInv'
<1>1. /\ receiver[r].at = stage /\ receiver[r].steps # <<>>
      /\ UNCHANGED <<fact, health, arrivals, removed>>
  BY DEF AdapterRecord, IngestAt
<1>2. /\ receiver[r].call \in Provider /\ receiver[r] \in ReceiverRow(Len(fact))
      /\ IngestStep(r).turn \in IngestTurn /\ Len(fact) \in Nat /\ rowsEver \in Nat
      /\ receiver[r].took \in 0 .. 2 /\ (stage = "event" => receiver[r].took = 0)
      /\ receiver[r].took <= 1
  <2>1. /\ receiver[r] \in ReceiverRow(Len(fact)) /\ CountFits(r) /\ IngestStep(r).turn \in IngestTurn
        /\ Len(fact) \in Nat /\ rowsEver \in Nat /\ receiver[r].took \in 0 .. 2
    BY <1>1, StepFacts, IngestFacts, RowsCounted
  <2>2. QED
    BY <1>1, <2>1 DEF CountFits, Calling
<1>3. PICK key : key = <<receiver[r].call, IngestStep(r).turn, stage>>
  OBVIOUS
<1>4. key \in IngestKey /\ key # NoKey /\ key[1] = receiver[r].call
  BY <1>2, <1>3, KeyFacts DEF IngestKey
<1>5. PICK to, sum, g : /\ to = IF stage = "event" THEN "metric" ELSE "health"
                        /\ sum = IF Known(key) THEN receiver[r].took ELSE receiver[r].took + 1
                        /\ g = [receiver[r] EXCEPT !.at = to, !.took = sum]
  OBVIOUS
<1>6. /\ to \in {"metric", "health"} /\ sum \in 0 .. 2 /\ (to = "metric" => sum <= 1)
  BY <1>2, <1>5
<1>7. /\ g \in ReceiverRow(Len(fact)) /\ g.at = to /\ g.took = sum /\ g.call = receiver[r].call
  BY <1>2, <1>5, <1>6 DEF ReceiverRow, Calling
<1>8. receiver' = [receiver EXCEPT ![r] = g]
  BY <1>3, <1>5 DEF AdapterRecord
<1>9. /\ receiver' \in [Receiver -> ReceiverRow(Len(fact))] /\ receiver'[r] = g
      /\ \A q \in Receiver : q # r => receiver'[q] = receiver[q]
  BY <1>7, <1>8, IngestFacts
<1>10. \A q \in Receiver : CountFits(q)'
  <2>1. CountFits(r)'
    BY <1>2, <1>6, <1>7, <1>9 DEF CountFits
  <2>2. ASSUME NEW q \in Receiver, q # r PROVE CountFits(q)'
    BY <1>9, <2>2 DEF IngestInv, CountFits
  <2>3. QED
    BY <2>1, <2>2
<1>11. PICK counted \in [Provider -> SUBSET dedupe], taken \in [Receiver -> SUBSET dedupe] :
          Credited(counted, taken)
  BY DEF IngestInv
<1>12. CASE Known(key)
  <2>1. UNCHANGED <<row, rowsEver, dedupe>>
    BY <1>3, <1>12 DEF AdapterRecord
  <2>2. sum = receiver[r].took
    BY <1>5, <1>12
  <2>3. \A q \in Receiver : receiver'[q].took = receiver[q].took /\ receiver'[q].call = receiver[q].call
    BY <1>7, <1>9, <2>2
  <2>4. Credited(counted, taken)'
    BY <1>1, <1>11, <2>3 DEF Credited
  <2>5. IngestTyped' /\ KeysFit'
    BY <1>1, <1>9, <2>1 DEF IngestInv, IngestTyped, KeysFit
  <2>6. QED
    BY <1>10, <1>11, <2>1, <2>4, <2>5 DEF IngestInv
<1>13. CASE ~Known(key)
  <2>1. PICK e : e = NewRow(key, receiver[r].call, IngestStep(r).turn, NoFact)
    OBVIOUS
  <2>2. /\ rowsEver < MaxIngestRows /\ rowsEver' = rowsEver + 1 /\ row' = row \cup {e}
        /\ dedupe' = dedupe \cup {key} /\ key \notin dedupe
    BY <1>3, <1>13, <2>1 DEF AdapterRecord, Known
  <2>3. e \in IngestRow(Len(fact), rowsEver + 1) /\ e.key = key
    <3>1. rowsEver + 1 \in 1 .. (rowsEver + 1) /\ 0 \in 0 .. Len(fact)
      BY <1>2
    <3>2. QED
      BY <1>2, <1>4, <2>1, <3>1 DEF NewRow, IngestRow, NoFact
  <2>4. /\ rowsEver' \in 0 .. MaxIngestRows
        /\ row' \subseteq IngestRow(Len(fact'), rowsEver') /\ KeysFit'
    BY <1>1, <2>2, <2>3, RowAdded
  <2>5. IsFiniteSet(dedupe') /\ dedupe' \subseteq IngestKey
    BY <1>4, <2>2, FS_AddElement DEF IngestInv, IngestTyped
  <2>6. IngestTyped'
    BY <1>1, <1>9, <2>2, <2>4, <2>5 DEF IngestInv, IngestTyped
  <2>7. PICK grown : grown = [taken EXCEPT ![r] = taken[r] \cup {key}]
    OBVIOUS
  <2>8. /\ grown \in [Receiver -> SUBSET dedupe'] /\ grown[r] = taken[r] \cup {key}
        /\ \A q \in Receiver : q # r => grown[q] = taken[q]
    BY <2>2, <2>7
  <2>9. counted \in [Provider -> SUBSET dedupe'] /\ \A p \in Provider : key \notin counted[p]
    BY <2>2
  <2>10. \A q \in Receiver : key \notin taken[q]
    BY <2>2
  <2>11. Cardinality(taken[r]) \in Nat /\ Cardinality(grown[r]) = Cardinality(taken[r]) + 1
    <3>1. IsFiniteSet(taken[r])
      BY FS_Subset DEF IngestInv, IngestTyped
    <3>2. QED
      BY <2>8, <2>10, <3>1, FS_AddElement, FS_CardinalityType
  <2>12. sum = receiver[r].took + 1
    BY <1>5, <1>13
  <2>13. g.took <= Cardinality(grown[r])
    BY <1>2, <1>7, <1>11, <2>11, <2>12 DEF Credited
  <2>14. Credited(counted, grown)'
    <3>1. \A q \in Receiver : /\ \A k \in grown[q] : k[1] = receiver'[q].call
                              /\ receiver'[q].took <= Cardinality(grown[q])
      <4>1. (\A k \in grown[r] : k[1] = receiver'[r].call) /\ receiver'[r].took <= Cardinality(grown[r])
        BY <1>4, <1>7, <1>9, <1>11, <2>8, <2>13 DEF Credited
      <4>2. ASSUME NEW q \in Receiver, q # r
            PROVE  (\A k \in grown[q] : k[1] = receiver'[q].call) /\ receiver'[q].took <= Cardinality(grown[q])
        BY <1>9, <1>11, <2>8, <4>2 DEF Credited
      <4>3. QED
        BY <4>1, <4>2
    <3>2. \A q, v \in Receiver : q # v => grown[q] \cap grown[v] = {}
      BY <1>11, <2>8, <2>10 DEF Credited
    <3>3. \A q \in Receiver, p \in Provider : grown[q] \cap counted[p] = {}
      BY <1>11, <2>8, <2>9 DEF Credited
    <3>4. \A p \in Provider : /\ \A k \in counted[p] : k[1] = p
                              /\ health'[p].accepted <= Cardinality(counted[p])
      BY <1>1, <1>11 DEF Credited
    <3>5. QED
      BY <3>1, <3>2, <3>3, <3>4 DEF Credited
  <2>15. QED
    BY <1>10, <2>4, <2>6, <2>8, <2>9, <2>14 DEF IngestInv
<1>14. QED
  BY <1>12, <1>13

\* The keys a call took become keys its provider counts.
LEMMA AdapterHealthStep ==
    ASSUME IngestInv, NEW r \in Receiver, AdapterHealth(r)
    PROVE  IngestInv'
<1>1. /\ receiver[r].at = "health" /\ receiver' = [receiver EXCEPT ![r] = Waiting]
      /\ UNCHANGED <<fact, row, rowsEver, dedupe, arrivals, removed>>
  BY DEF AdapterHealth, IngestAt
<1>2. receiver[r].call \in Provider /\ receiver[r].took \in 0 .. 2 /\ Len(fact) \in Nat
  BY <1>1, IngestFacts DEF CountFits, Calling
<1>3. PICK p \in Provider, n \in 0 .. 2 : p = receiver[r].call /\ n = receiver[r].took
  BY <1>2
<1>4. health[p] \in [accepted : Nat, duplicates : Nat]
  BY DEF IngestInv, IngestTyped
<1>5. PICK h : h = [health[p] EXCEPT !.accepted = @ + n, !.duplicates = @ + (2 - n)]
  OBVIOUS
<1>6. h \in [accepted : Nat, duplicates : Nat] /\ h.accepted = health[p].accepted + n
  <2>1. health[p].accepted \in Nat /\ health[p].duplicates \in Nat
    BY <1>4
  <2>2. health[p].accepted + n \in Nat /\ health[p].duplicates + (2 - n) \in Nat
    BY <2>1
  <2>3. QED
    BY <1>4, <1>5, <2>2
<1>7. health' = [health EXCEPT ![p] = h]
  <2>1. health \in [Provider -> [accepted : Nat, duplicates : Nat]]
    BY DEF IngestInv, IngestTyped
  <2>2. health' = [health EXCEPT ![p].accepted = @ + n, ![p].duplicates = @ + (2 - n)]
    BY <1>3 DEF AdapterHealth, Took
  <2>3. QED
    BY <1>5, <2>1, <2>2
<1>8. /\ health' \in [Provider -> [accepted : Nat, duplicates : Nat]] /\ health'[p] = h
      /\ \A q \in Provider : q # p => health'[q] = health[q]
  BY <1>6, <1>7 DEF IngestInv, IngestTyped
<1>9. /\ receiver' \in [Receiver -> ReceiverRow(Len(fact))] /\ receiver'[r] = Waiting
      /\ \A q \in Receiver : q # r => receiver'[q] = receiver[q]
      /\ Waiting.took = 0 /\ Waiting.at = "idle"
  BY <1>1, <1>2, IngestFacts, WaitingFacts
<1>10. IngestTyped' /\ KeysFit'
  BY <1>1, <1>8, <1>9 DEF IngestInv, IngestTyped, KeysFit
<1>11. \A q \in Receiver : CountFits(q)'
  BY <1>9 DEF IngestInv, CountFits, Calling
<1>12. PICK counted \in [Provider -> SUBSET dedupe], taken \in [Receiver -> SUBSET dedupe] :
          Credited(counted, taken)
  BY DEF IngestInv
<1>13. PICK grown, left : /\ grown = [counted EXCEPT ![p] = counted[p] \cup taken[r]]
                        /\ left = [taken EXCEPT ![r] = {}]
  OBVIOUS
<1>14. /\ grown \in [Provider -> SUBSET dedupe] /\ grown[p] = counted[p] \cup taken[r]
       /\ \A q \in Provider : q # p => grown[q] = counted[q]
  BY <1>13
<1>15. /\ left \in [Receiver -> SUBSET dedupe] /\ left[r] = {}
       /\ \A q \in Receiver : q # r => left[q] = taken[q]
  BY <1>13
<1>16. h.accepted <= Cardinality(grown[p])
  <2>1. IsFiniteSet(counted[p]) /\ IsFiniteSet(taken[r])
    BY FS_Subset DEF IngestInv, IngestTyped
  <2>2. Cardinality(counted[p] \cap taken[r]) = 0
    BY <1>12, FS_EmptySet DEF Credited
  <2>3. /\ Cardinality(grown[p]) = Cardinality(counted[p]) + Cardinality(taken[r])
        /\ Cardinality(counted[p]) \in Nat /\ Cardinality(taken[r]) \in Nat
    <3>1. Cardinality(counted[p]) \in Nat /\ Cardinality(taken[r]) \in Nat
      BY <2>1, FS_CardinalityType
    <3>2. Cardinality(counted[p] \cup taken[r])
            = Cardinality(counted[p]) + Cardinality(taken[r]) - Cardinality(counted[p] \cap taken[r])
      BY <2>1, FS_Union
    <3>3. QED
      BY <1>14, <2>2, <3>1, <3>2
  <2>4. health[p].accepted <= Cardinality(counted[p]) /\ n <= Cardinality(taken[r])
    BY <1>3, <1>12 DEF Credited
  <2>5. QED
    BY <1>4, <1>6, <2>3, <2>4
<1>17. Credited(grown, left)'
  <2>1. \A q \in Provider : /\ \A k \in grown[q] : k[1] = q
                            /\ health'[q].accepted <= Cardinality(grown[q])
    <3>1. (\A k \in grown[p] : k[1] = p) /\ health'[p].accepted <= Cardinality(grown[p])
      BY <1>3, <1>8, <1>12, <1>14, <1>16 DEF Credited
    <3>2. ASSUME NEW q \in Provider, q # p
          PROVE  (\A k \in grown[q] : k[1] = q) /\ health'[q].accepted <= Cardinality(grown[q])
      BY <1>8, <1>12, <1>14, <3>2 DEF Credited
    <3>3. QED
      BY <3>1, <3>2
  <2>2. \A q \in Receiver : /\ \A k \in left[q] : k[1] = receiver'[q].call
                            /\ receiver'[q].took <= Cardinality(left[q])
    <3>1. (\A k \in left[r] : k[1] = receiver'[r].call) /\ receiver'[r].took <= Cardinality(left[r])
      <4>1. receiver'[r].took = 0 /\ left[r] = {}
        BY <1>9, <1>15
      <4>2. Cardinality(left[r]) = 0
        BY <4>1, FS_EmptySet
      <4>3. QED
        BY <4>1, <4>2
    <3>2. ASSUME NEW q \in Receiver, q # r
          PROVE  (\A k \in left[q] : k[1] = receiver'[q].call) /\ receiver'[q].took <= Cardinality(left[q])
      BY <1>9, <1>12, <1>15, <3>2 DEF Credited
    <3>3. QED
      BY <3>1, <3>2
  <2>3. \A q, v \in Receiver : q # v => left[q] \cap left[v] = {}
    BY <1>12, <1>15 DEF Credited
  <2>4. \A q \in Receiver, v \in Provider : left[q] \cap grown[v] = {}
    <3>1. ASSUME NEW q \in Receiver, NEW v \in Provider, q # r PROVE left[q] \cap grown[v] = {}
      <4>1. taken[q] \cap counted[v] = {} /\ taken[q] \cap taken[r] = {} /\ left[q] = taken[q]
        BY <1>12, <1>15, <3>1 DEF Credited
      <4>2. QED
        BY <1>14, <4>1
    <3>2. QED
      BY <1>15, <3>1
  <2>5. QED
    BY <2>1, <2>2, <2>3, <2>4 DEF Credited
<1>18. QED
  BY <1>1, <1>10, <1>11, <1>14, <1>15, <1>17 DEF IngestInv

\* Rows grow old; nothing else of them changes.
LEMMA RowsAgeStep ==
    ASSUME IngestInv, RowsAge
    PROVE  IngestInv'
<1>1. /\ row' = {[e EXCEPT !.old = TRUE] : e \in row}
      /\ UNCHANGED <<fact, rowsEver, dedupe, health, receiver, arrivals, removed>>
  BY DEF RowsAge
<1>2. row \subseteq IngestRow(Len(fact), rowsEver)
  BY DEF IngestInv, IngestTyped
<1>3. \A e \in row : /\ [e EXCEPT !.old = TRUE] \in IngestRow(Len(fact), rowsEver)
                     /\ [e EXCEPT !.old = TRUE].key = e.key
  BY <1>2 DEF IngestRow
<1>4. row' \subseteq IngestRow(Len(fact), rowsEver)
  BY <1>1, <1>3
<1>5. KeysFit'
  <2>1. ASSUME NEW f \in row', NEW other \in row', f.key # NoKey
        PROVE  f.key \in dedupe \ removed /\ (f.key = other.key => f = other)
    <3>1. PICK e \in row, a \in row : f = [e EXCEPT !.old = TRUE] /\ other = [a EXCEPT !.old = TRUE]
      BY <1>1
    <3>2. f.key = e.key /\ other.key = a.key
      BY <1>3, <3>1
    <3>3. QED
      BY <2>1, <3>1, <3>2 DEF IngestInv, KeysFit
  <2>2. QED
    BY <1>1, <2>1 DEF KeysFit
<1>6. IngestTyped'
  BY <1>1, <1>4 DEF IngestInv, IngestTyped
<1>7. QED
  BY <1>1, <1>5, <1>6 DEF IngestInv, CountFits, Credited

\* What is removed has a key in the dedupe table, and no row that stays has it.
LEMMA DiscardStep ==
    ASSUME IngestInv, NEW gone \in SUBSET row, Discard(gone)
    PROVE  IngestInv'
<1>1. /\ row' = row \ gone /\ removed' = removed \cup ({e.key : e \in gone} \ {NoKey})
      /\ UNCHANGED <<fact, rowsEver, dedupe, health, receiver, arrivals>>
  BY DEF Discard
<1>2. removed' \subseteq dedupe
  BY <1>1 DEF IngestInv, IngestTyped, KeysFit
<1>3. KeysFit'
  <2>1. ASSUME NEW e \in row', e.key # NoKey PROVE e.key \in dedupe' \ removed'
    <3>1. e \in row /\ e \notin gone /\ e.key \in dedupe \ removed
      BY <1>1, <2>1 DEF IngestInv, KeysFit
    <3>2. \A f \in gone : f.key # e.key
      BY <2>1, <3>1 DEF IngestInv, KeysFit
    <3>3. QED
      BY <1>1, <3>1, <3>2
  <2>2. QED
    BY <1>1, <2>1 DEF IngestInv, KeysFit
<1>4. IngestTyped'
  BY <1>1, <1>2 DEF IngestInv, IngestTyped
<1>5. QED
  BY <1>1, <1>3, <1>4 DEF IngestInv, CountFits, Credited

LEMMA IngestInitFits ==
    ASSUME IngestInit PROVE IngestInv
<1>1. /\ fact = <<>> /\ row = {} /\ rowsEver = 0 /\ dedupe = {} /\ removed = {} /\ arrivals = 0
      /\ health = [p \in Provider |-> [accepted |-> 0, duplicates |-> 0]]
      /\ receiver = [r \in Receiver |-> Waiting]
  BY DEF IngestInit
<1>2. Len(fact) = 0 /\ fact \in Seq(FactRow) /\ IsFiniteSet({}) /\ Cardinality({}) = 0
  BY <1>1, EmptySeq, FS_EmptySet
<1>3. /\ Waiting \in ReceiverRow(0) /\ Waiting.at = "idle" /\ Waiting.took = 0
  BY WaitingFacts
<1>4. 0 <= MaxFacts /\ 0 \in 0 .. MaxIngestRows /\ 0 \in 0 .. MaxArrivals
  BY IngestAssumption
<1>5. health \in [Provider -> [accepted : Nat, duplicates : Nat]] /\ \A p \in Provider : health[p].accepted = 0
  BY <1>1
<1>6. IngestTyped
  BY <1>1, <1>2, <1>3, <1>4, <1>5 DEF IngestTyped
<1>7. KeysFit /\ \A r \in Receiver : CountFits(r)
  BY <1>1, <1>3 DEF KeysFit, CountFits, Calling
<1>8. PICK counted, taken : counted = [p \in Provider |-> {}] /\ taken = [r \in Receiver |-> {}]
  OBVIOUS
<1>9. /\ counted \in [Provider -> SUBSET dedupe] /\ taken \in [Receiver -> SUBSET dedupe]
      /\ \A p \in Provider : counted[p] = {}
      /\ \A r \in Receiver : taken[r] = {}
  BY <1>8
<1>10. Credited(counted, taken)
  <2>1. ASSUME NEW p \in Provider PROVE health[p].accepted <= Cardinality(counted[p])
    <3>1. health[p].accepted = 0 /\ counted[p] = {}
      BY <1>5, <1>9
    <3>2. Cardinality(counted[p]) = 0
      BY <1>2, <3>1
    <3>3. QED
      BY <3>1, <3>2
  <2>2. ASSUME NEW r \in Receiver PROVE receiver[r].took <= Cardinality(taken[r])
    <3>1. receiver[r].took = 0 /\ taken[r] = {}
      BY <1>1, <1>3, <1>9
    <3>2. Cardinality(taken[r]) = 0
      BY <1>2, <3>1
    <3>3. QED
      BY <3>1, <3>2
  <2>3. QED
    BY <1>9, <2>1, <2>2 DEF Credited
<1>11. QED
  BY <1>6, <1>7, <1>9, <1>10 DEF IngestInv

LEMMA IngestNextKeeps ==
    ASSUME IngestInv, [IngestNext]_ingestVars PROVE IngestInv'
<1>1. CASE UNCHANGED ingestVars
  <2>1. UNCHANGED <<fact, row, rowsEver, dedupe, health, receiver, arrivals, removed>>
    BY <1>1 DEF ingestVars
  <2>2. IngestTyped' /\ KeysFit'
    BY <2>1 DEF IngestInv, IngestTyped, KeysFit
  <2>3. \A r \in Receiver : CountFits(r)'
    BY <2>1 DEF IngestInv, CountFits
  <2>4. PICK counted \in [Provider -> SUBSET dedupe], taken \in [Receiver -> SUBSET dedupe] :
           Credited(counted, taken)
    BY DEF IngestInv
  <2>5. Credited(counted, taken)'
    BY <2>1, <2>4 DEF Credited
  <2>6. QED
    BY <2>1, <2>2, <2>3, <2>4, <2>5 DEF IngestInv
<1>2. CASE IngestNext
  <2>1. CASE \E r \in Receiver :
                \/ PostLogs(r) \/ PostTraces(r) \/ PostMetrics(r) \/ ScanFile(r)
                \/ FindText(r) \/ StoreText(r) \/ RecordRow(r) \/ Answer(r) \/ IngestFails(r)
    BY <2>1, ArrivalStep, FindTextStep, StoreTextStep, RecordRowStep, AnswerStep
  <2>2. CASE \E r \in Receiver :
                \/ \E p \in Provider, t \in IngestTurn : AdapterCall(r, p, t)
                \/ \E i \in 1..2 : AdapterRecord(r, IngestStages[i])
                \/ AdapterHealth(r)
    <3>1. \A i \in 1..2 : IngestStages[i] \in {"event", "metric"}
      BY DEF IngestStages
    <3>2. QED
      BY <2>2, <3>1, AdapterCallStep, AdapterRecordStep, AdapterHealthStep
  <2>3. CASE RowsAge \/ PruneOld \/ \E p \in Provider : DeleteProvider(p)
    BY <2>3, RowsAgeStep, DiscardStep DEF PruneOld, DeleteProvider
  <2>4. QED
    BY <1>2, <2>1, <2>2, <2>3 DEF IngestNext
<1>3. QED
  BY <1>1, <1>2

LEMMA AlwaysIngestInv == IngestSpec => []IngestInv
BY IngestInitFits, IngestNextKeeps, PTL DEF IngestSpec

-----------------------------------------------------------------------------
(* TelemetryIngest: the theorems *)

\* Rows, counters and program counters have the shapes the code gives them
\* (record_otel_batch, record_telemetry_health).
THEOREM IngestTypesHold == IngestSpec => []IngestTypeOK
<1>1. ASSUME IngestInv PROVE IngestTypeOK
  <2>1. /\ Len(fact) <= MaxFacts /\ rowsEver \in 0..MaxIngestRows /\ arrivals \in 0..MaxArrivals
        /\ row \subseteq IngestRow(Len(fact), rowsEver)
    BY <1>1 DEF IngestInv, IngestTyped
  <2>2. \A e \in row : e.id \in 1..rowsEver /\ e.memory \in 0..Len(fact)
    BY <2>1 DEF IngestRow
  <2>3. {e.key : e \in row} \subseteq dedupe \cup {NoKey}
    BY <1>1 DEF IngestInv, KeysFit
  <2>4. \A r \in Receiver : receiver[r].took \in 0..2
    BY <1>1, IngestFacts
  <2>5. QED
    BY <2>1, <2>2, <2>3, <2>4 DEF IngestTypeOK
<1>2. QED
  BY <1>1, AlwaysIngestInv, PTL

\* An adapter's event has one row, which does not come back once removed, and
\* a provider's accepted counter never exceeds the events recorded for it,
\* whatever is retried, interleaved or lost (telemetry_event_dedupe,
\* record_telemetry_health).
THEOREM IngestAlwaysHolds == IngestSpec => []IngestHolds
<1>1. ASSUME IngestInv PROVE IngestHolds
  <2>1. KeyedRowsOnce
    <3>1. \A k \in removed : k # NoKey
      BY <1>1, KeyFacts DEF IngestInv, IngestTyped
    <3>2. QED
      BY <1>1, <3>1 DEF IngestInv, KeysFit, KeyedRowsOnce
  <2>2. ASSUME NEW p \in Provider
        PROVE  health[p].accepted <= Cardinality({k \in dedupe : k[1] = p})
    <3>1. PICK counted \in [Provider -> SUBSET dedupe], taken \in [Receiver -> SUBSET dedupe] :
             Credited(counted, taken)
      BY <1>1 DEF IngestInv
    <3>2. PICK all : all = {k \in dedupe : k[1] = p}
      OBVIOUS
    <3>3. counted[p] \subseteq all /\ IsFiniteSet(all) /\ health[p].accepted <= Cardinality(counted[p])
      BY <1>1, <3>1, <3>2, FS_Subset DEF IngestInv, IngestTyped, Credited
    <3>4. /\ Cardinality(counted[p]) <= Cardinality(all) /\ Cardinality(all) \in Nat
          /\ Cardinality(counted[p]) \in Nat
      BY <3>3, FS_Subset, FS_CardinalityType
    <3>5. health[p].accepted \in Nat
      BY <1>1 DEF IngestInv, IngestTyped
    <3>6. QED
      BY <3>2, <3>3, <3>4, <3>5
  <2>3. QED
    BY <2>1, <2>2 DEF IngestHolds, AcceptedWasRecorded
<1>2. QED
  BY <1>1, AlwaysIngestInv, PTL

-----------------------------------------------------------------------------
(* MCStores: the parts together *)

LEMMA StoresParts ==
    StoresSpec => /\ FilesSpec /\ GraphSpec /\ RetrievalSpec /\ StreamSpec /\ RuntimeSpec
                  /\ IngestSpec /\ CaptureSpec /\ CodexSpec /\ WatermarkSpec
<1>1. StoresInit => /\ FilesInit /\ GraphInit /\ RetrievalInit /\ StreamInit /\ RuntimeInit
                    /\ IngestInit /\ CaptureInit /\ CodexInit /\ WatermarkInit
  BY DEF StoresInit
<1>2. [StoresNext]_StoresVars => [FilesNext]_filesVars
  BY DEF StoresNext, StoresVars
<1>3. [StoresNext]_StoresVars => [GraphNext]_graphVars
  BY DEF StoresNext, StoresVars
<1>4. [StoresNext]_StoresVars => [RetrievalNext]_recallVars
  BY DEF StoresNext, StoresVars
<1>5. [StoresNext]_StoresVars => [StreamNext]_streamVars
  BY DEF StoresNext, StoresVars
<1>6. [StoresNext]_StoresVars => [RuntimeNext]_runtimeVars
  BY DEF StoresNext, StoresVars
<1>7. [StoresNext]_StoresVars => [IngestNext]_ingestVars
  BY DEF StoresNext, StoresVars
<1>8. [StoresNext]_StoresVars => [CaptureNext]_captureVars
  BY DEF StoresNext, StoresVars
<1>9. [StoresNext]_StoresVars => [CodexNext]_codexVars
  BY DEF StoresNext, StoresVars
<1>10. [StoresNext]_StoresVars => [WatermarkNext]_watermarkVars
  BY DEF StoresNext, StoresVars
<1>11. QED
  BY <1>1, <1>2, <1>3, <1>4, <1>5, <1>6, <1>7, <1>8, <1>9, <1>10, PTL
     DEF StoresSpec, FilesSpec, GraphSpec, RetrievalSpec, StreamSpec, RuntimeSpec, IngestSpec,
         CaptureSpec, CodexSpec, WatermarkSpec

(***************************************************************************)
(* The collectors that capture into a store can be believed, for any       *)
(* number of files, turns, hooks and processes.                            *)
(***************************************************************************)
THEOREM CollectorsAlwaysHold == StoresSpec => []CollectorsHold
  BY StoresParts, TurnsAnsweredOnce, ReportsAreHonest, PTL DEF CollectorsHold

(***************************************************************************)
(* What writes into a store and reads from it keeps its types and the      *)
(* orders of state they state: the file and its handles, the graph, what a *)
(* recall has found, the journal of a run, sessions and hooks, telemetry,  *)
(* transcripts and the collector of Codex.                                 *)
(***************************************************************************)
THEOREM StoresTyped == StoresSpec => []StoresTypeOK
  BY StoresParts, FilesTypesHold, GraphTypesHold, RecallTypesHold, StreamTyped, RuntimeTyped,
     IngestTypesHold, CaptureTypesHold, CodexTyped, PTL DEF StoresTypeOK
=============================================================================
