---------------------------- MODULE TranscriptIngest ----------------------------
(***************************************************************************)
(* Transcripts of runtimes on their way into the store: the line by line   *)
(* ingestion of transcript_ingest.py, which keeps the number of lines it   *)
(* has passed in a state file shared by all transcripts, and finalize of   *)
(* session_sync.py, which copies messages to Hermes, ingests what is left, *)
(* stores the whole transcript under its digest and closes the session.    *)
(*                                                                         *)
(* A transcript grows while it is read and its last line may be half       *)
(* written.  Any number of runs may be under way; every store call is a    *)
(* transaction of its own, and nothing orders the reads and writes of the  *)
(* state file.                                                             *)
(***************************************************************************)
EXTENDS Integers, Sequences, FiniteSets

CONSTANTS
    Transcript,
    Script,            \* Transcript -> the lines its runtime writes, in order
    Claude,            \* the transcripts that are ingested line by line
    CaptureSession, CaptureAgent,
    Runner,            \* processes: the poller, the finalizer
    MaxRuns,           \* bound on runs started
    MaxCaptureCrashes  \* bound on runs killed

Nobody == "nobody"
NoRow == "absent"
NoFile == "none"
\* A line: its session, whether a prompt, and its blocks.  The usage of an
\* answer counts as a block.  A line of any other kind has none.
Block == {"text", "thinking", "call", "result", "usage"}
Line  == [session : CaptureSession, prompt : BOOLEAN, blocks : Seq(Block)]

ASSUME TranscriptAssumption ==
    /\ Script \in [Transcript -> Seq(Line)] /\ Claude \subseteq Transcript
    /\ \A t \in Transcript : Script[t] # <<>>
    /\ NoRow \notin CaptureAgent
    /\ MaxRuns \in Nat /\ MaxCaptureCrashes \in Nat

VARIABLES
    written,         \* Transcript -> lines written whole
    half,            \* Transcript -> a further line is half written
    offset,          \* the state file: Transcript -> lines passed
    readable,        \* FALSE between its truncation and its rewriting
    capturedMemory,  \* blocks whose text is a memory: <<transcript, line, block>>
    span,            \* telemetry rows: [of : block, prompt : line, copy]
    sessionRow,      \* CaptureSession -> [owner, sources, ended]
    artifact,        \* whole transcripts stored: <<session, digest>>
    hermes,          \* Transcript -> its messages in Hermes, by line
    runner, runs, captureCrashes,
    halfRead         \* lines that a run passed while they were half written

captureVars == <<written, half, offset, readable, capturedMemory, span, sessionRow, artifact, hermes,
                 runner, runs, captureCrashes, halfRead>>
kept == <<capturedMemory, span, sessionRow>>

Unread   == [t \in Transcript |-> 0]
Unasked  == [s \in CaptureSession |-> 0]
NotRunning ==
    [at |-> "idle", file |-> NoFile, agent |-> Nobody, closes |-> FALSE, state |-> Unread,
     line |-> 0, upto |-> 0, whole |-> 0, block |-> 0, prompt |-> Unasked, new |-> {},
     digest |-> <<>>]
CaptureInit ==
    /\ written = Unread /\ half = [t \in Transcript |-> FALSE]
    /\ offset = Unread /\ readable = TRUE
    /\ capturedMemory = {} /\ span = {} /\ artifact = {} /\ halfRead = {}
    /\ sessionRow = [s \in CaptureSession |-> [owner |-> NoRow, sources |-> {}, ended |-> <<>>]]
    /\ hermes = [t \in Transcript |-> <<>>]
    /\ runner = [r \in Runner |-> NotRunning] /\ runs = 0 /\ captureCrashes = 0

Go(r, next)         == runner' = [runner EXCEPT ![r] = next]
Stop(r)             == Go(r, NotRunning)
CaptureAt(r, place) == runner[r].at = place
ReadBy(r)           == runner[r].file
\* A run at its next stage, with nothing left of the one before.
Stage(r, place) ==
    [NotRunning EXCEPT !.at = place, !.file = ReadBy(r), !.agent = runner[r].agent,
                 !.closes = runner[r].closes]
Lines(t)            == written[t] + (IF half[t] THEN 1 ELSE 0)
Digest(t)           == <<written[t], half[t]>>
Of(t)               == Script[t][1].session

\* The runtime appends a line, whole or in two writes.
WriteTurn(t, whole) ==
    /\ written[t] < Len(Script[t])
    /\ whole \/ ~half[t]
    /\ half' = [half EXCEPT ![t] = ~whole]
    /\ written' = IF whole THEN [written EXCEPT ![t] = @ + 1] ELSE written
    /\ UNCHANGED <<offset, readable, kept, artifact, hermes, runner, runs, captureCrashes, halfRead>>

-----------------------------------------------------------------------------
(* Sessions and their agents                                               *)

SessionAgents(s) == sessionRow[s].sources \cup ({sessionRow[s].owner} \ {NoRow, Nobody})

\* start_session with an agent refuses a session of others, and one of nobody
\* that no source speaks for.
Admits(s, a) ==
    sessionRow[s].owner = NoRow \/ a = Nobody
        \/ (SessionAgents(s) \subseteq {a} /\ ~ (sessionRow[s].owner = Nobody /\ SessionAgents(s) = {}))
CaptureOpened(s, a) ==
    IF sessionRow[s].owner = NoRow \/ (a # Nobody /\ sessionRow[s].owner = Nobody)
      THEN [sessionRow EXCEPT ![s].owner = a] ELSE sessionRow
\* store_memory: a session's agent is the agent of its sources.
Sourced(s, a) ==
    [sessionRow EXCEPT ![s].sources = @ \cup {IF sessionRow[s].owner = Nobody THEN a
                                           ELSE sessionRow[s].owner}]

-----------------------------------------------------------------------------
(* ingest_transcript and run                                               *)

StartPass(r, t, a, closes) ==
    /\ CaptureAt(r, "idle") /\ runs < MaxRuns /\ runs' = runs + 1
    /\ closes \/ t \in Claude
    /\ Go(r, [NotRunning EXCEPT !.at = IF closes THEN "open" ELSE "load", !.file = t, !.agent = a,
                          !.closes = closes])
    /\ UNCHANGED <<written, half, offset, readable, kept, artifact, hermes, captureCrashes, halfRead>>

\* A state file that does not parse counts as an empty one.
LoadState(r) ==
    /\ CaptureAt(r, "load")
    /\ Go(r, [Stage(r, "read") EXCEPT !.state = IF readable THEN offset ELSE Unread])
    /\ UNCHANGED <<written, half, offset, readable, kept, artifact, hermes, runs, captureCrashes,
                   halfRead>>

IsPrompt(t, i) == Script[t][i].prompt
\* Mutant of Recovered: a poll starts knowing no prompt.
RecoveredNone(t, passed) == Unasked
\* _recover_prompt_ids_before: the last prompt of each session among the lines passed.
Recovered(t, passed) ==
    [s \in CaptureSession |->
        LET of == {i \in 1..passed : i <= written[t] /\ IsPrompt(t, i)
                                       /\ Script[t][i].session = s}
        IN  CHOOSE i \in of \cup {0} : \A j \in of : j <= i]

ReadTranscript(r) ==
    /\ CaptureAt(r, "read")
    /\ LET t == ReadBy(r)
           from == runner[r].state[t]
       IN  /\ Go(r, [runner[r] EXCEPT !.at = "lines", !.line = from + 1, !.upto = Lines(t),
                                      !.whole = written[t], !.block = 0, !.prompt = Recovered(t, from)])
           /\ halfRead' = IF half[t] /\ Lines(t) > from THEN halfRead \cup {<<t, Lines(t)>>}
                          ELSE halfRead
    /\ UNCHANGED <<written, half, offset, readable, kept, artifact, hermes, runs, captureCrashes>>

Current(r) == Script[ReadBy(r)][runner[r].line]

\* A line that is not of the session's dialogue.
Aside(r) == Current(r).blocks = <<>> /\ ~ Current(r).prompt

\* On to what follows a block: the next one of the line, or the next line.
Past(r, block) ==
    IF block = Len(Current(r).blocks)
      THEN [runner[r] EXCEPT !.line = @ + 1, !.block = 0]
    ELSE [runner[r] EXCEPT !.block = block + 1]

\* Half a line is malformed: counted and passed.  A prompt may be blank.
NextLine(r) ==
    /\ CaptureAt(r, "lines") /\ runner[r].block = 0 /\ runner[r].line <= runner[r].upto
    /\ LET s == Current(r).session
           a == runner[r].agent
           skipped == runner[r].line > runner[r].whole \/ Aside(r)
       IN  \/ /\ skipped
              /\ Go(r, [runner[r] EXCEPT !.line = @ + 1]) /\ UNCHANGED sessionRow
           \/ /\ ~skipped /\ ~Admits(s, a)
              /\ Stop(r) /\ UNCHANGED sessionRow
           \/ /\ ~skipped /\ Admits(s, a)
              /\ sessionRow' = CaptureOpened(s, a)
              /\ Go(r, [Past(r, 0) EXCEPT
                          !.prompt = IF Current(r).prompt THEN [@ EXCEPT ![s] = runner[r].line] ELSE @])
    /\ UNCHANGED <<written, half, offset, readable, capturedMemory, span, artifact, hermes, runs,
                   captureCrashes, halfRead>>

\* The key of a text names the line and the kind of block, not the block.
SameKey(b, c) == b[1] = c[1] /\ b[2] = c[2]
                    /\ Script[b[1]][b[2]].blocks[b[3]] = Script[c[1]][c[2]].blocks[c[3]]
Told(b) == IF \E c \in capturedMemory : SameKey(b, c) THEN capturedMemory ELSE capturedMemory \cup {b}
Copies(b) == Cardinality({s \in span : s.of = b})

Remembered == {"text", "thinking"}
\* store_memory does not take a source of another agent than its session's.
Foreign(r, s) ==
    runner[r].agent \notin {Nobody, sessionRow[s].owner} /\ sessionRow[s].owner # Nobody

IngestBlock(r) ==
    /\ CaptureAt(r, "lines") /\ runner[r].block > 0
    /\ LET b == <<ReadBy(r), runner[r].line, runner[r].block>>
           s == Current(r).session
           remembered == Current(r).blocks[b[3]] \in Remembered
       IN  \/ /\ remembered /\ Foreign(r, s)
              /\ Stop(r) /\ UNCHANGED kept
           \/ /\ remembered /\ ~Foreign(r, s)
              /\ capturedMemory' = Told(b) /\ sessionRow' = Sourced(s, runner[r].agent)
              /\ Go(r, Past(r, b[3])) /\ UNCHANGED span
           \/ /\ ~remembered
              /\ span' = span \cup {[of |-> b, prompt |-> runner[r].prompt[s], copy |-> Copies(b) + 1]}
              /\ Go(r, Past(r, b[3])) /\ UNCHANGED <<capturedMemory, sessionRow>>
    /\ UNCHANGED <<written, half, offset, readable, artifact, hermes, runs, captureCrashes, halfRead>>

\* _save_state truncates the file and writes what was loaded with this
\* transcript's count replaced.
Truncate(r) ==
    /\ CaptureAt(r, "lines") /\ runner[r].line > runner[r].upto
    /\ readable' = FALSE /\ Go(r, [runner[r] EXCEPT !.at = "save"])
    /\ UNCHANGED <<written, half, offset, kept, artifact, hermes, runs, captureCrashes, halfRead>>

\* Mutant of Passed: lines are counted from one, and the count is one too high.
PassedNext(r) == runner[r].upto + 1
\* The lines it had when it was read.
Passed(r) == runner[r].upto
SaveState(r) ==
    /\ CaptureAt(r, "save")
    /\ offset' = [runner[r].state EXCEPT ![ReadBy(r)] = Passed(r)]
    /\ readable' = TRUE
    /\ Go(r, IF runner[r].closes THEN Stage(r, "artifact") ELSE NotRunning)
    /\ UNCHANGED <<written, half, kept, artifact, hermes, runs, captureCrashes, halfRead>>

-----------------------------------------------------------------------------
(* finalize                                                                *)

OpenCaptureSession(r) ==
    /\ CaptureAt(r, "open")
    /\ LET s == Of(ReadBy(r)) IN
         IF Admits(s, runner[r].agent)
           THEN sessionRow' = CaptureOpened(s, runner[r].agent) /\ Go(r, Stage(r, "hermes"))
         ELSE Stop(r) /\ UNCHANGED sessionRow
    /\ UNCHANGED <<written, half, offset, readable, capturedMemory, span, artifact, hermes, runs,
                   captureCrashes, halfRead>>

\* _parse_jsonl finds no messages in the lines of a claude transcript.
Messages(t) == IF t \in Claude THEN {} ELSE {i \in 1..written[t] : Script[t][i].blocks # <<>>}

\* The messages already in Hermes are read once, before the first append.
CopyToHermes(r) ==
    /\ CaptureAt(r, "hermes")
    /\ LET t == ReadBy(r) IN
         Go(r, [Stage(r, "append") EXCEPT
                  !.new = Messages(t) \ {hermes[t][i] : i \in DOMAIN hermes[t]}])
    /\ UNCHANGED <<written, half, offset, readable, kept, artifact, hermes, runs, captureCrashes,
                   halfRead>>

\* One message at a time.  Without a Hermes the step fails and is passed over.
AppendMessage(r) ==
    /\ CaptureAt(r, "append")
    /\ LET t == ReadBy(r)
           first == CHOOSE i \in runner[r].new : \A j \in runner[r].new : i <= j
       IN  \/ /\ runner[r].new # {}
              /\ hermes' = [hermes EXCEPT ![t] = Append(@, first)]
              /\ Go(r, [runner[r] EXCEPT !.new = @ \ {first}])
           \/ /\ Go(r, Stage(r, IF t \in Claude THEN "load" ELSE "artifact"))
              /\ UNCHANGED hermes
    /\ UNCHANGED <<written, half, offset, readable, kept, artifact, runs, captureCrashes, halfRead>>

\* The whole transcript, read again, under its digest.
StoreArtifact(r) ==
    /\ CaptureAt(r, "artifact")
    /\ LET s == Of(ReadBy(r)) IN
         IF Foreign(r, s)
           THEN Stop(r) /\ UNCHANGED <<artifact, sessionRow>>
         ELSE /\ artifact' = artifact \cup {<<s, Digest(ReadBy(r))>>}
              /\ sessionRow' = Sourced(s, runner[r].agent)
              /\ Go(r, [Stage(r, "close") EXCEPT !.digest = Digest(ReadBy(r))])
    /\ UNCHANGED <<written, half, offset, readable, capturedMemory, span, hermes, runs, captureCrashes,
                   halfRead>>

CloseSession(r) ==
    /\ CaptureAt(r, "close")
    /\ sessionRow' = [sessionRow EXCEPT ![Of(ReadBy(r))].ended = runner[r].digest]
    /\ Stop(r)
    /\ UNCHANGED <<written, half, offset, readable, capturedMemory, span, artifact, hermes, runs,
                   captureCrashes, halfRead>>

Kill(r) ==
    /\ ~CaptureAt(r, "idle") /\ captureCrashes < MaxCaptureCrashes /\ captureCrashes' = captureCrashes + 1
    /\ Stop(r)
    /\ UNCHANGED <<written, half, offset, readable, kept, artifact, hermes, runs, halfRead>>

CaptureNext ==
    \/ \E t \in Transcript : WriteTurn(t, TRUE) \/ WriteTurn(t, FALSE)
    \/ \E r \in Runner : \/ \E t \in Transcript, a \in CaptureAgent \cup {Nobody}, c \in BOOLEAN :
                               StartPass(r, t, a, c)
                         \/ LoadState(r) \/ ReadTranscript(r) \/ NextLine(r)
                         \/ IngestBlock(r) \/ Truncate(r) \/ SaveState(r)
                         \/ OpenCaptureSession(r) \/ CopyToHermes(r) \/ AppendMessage(r)
                         \/ StoreArtifact(r) \/ CloseSession(r) \/ Kill(r)

CaptureSpec == CaptureInit /\ [][CaptureNext]_captureVars

-----------------------------------------------------------------------------
BlockIds ==
    UNION {UNION {{<<t, i, b>> : b \in DOMAIN Script[t][i].blocks} : i \in DOMAIN Script[t]} :
           t \in Transcript}

\* The state has its type.
CaptureTypeOK ==
    /\ \A t \in Transcript : written[t] \in 0..Len(Script[t]) /\ offset[t] \in 0..Lines(t)
    /\ half \in [Transcript -> BOOLEAN] /\ readable \in BOOLEAN
    /\ capturedMemory \subseteq BlockIds
    /\ \A s \in span : s.of \in BlockIds /\ s.prompt \in 0..s.of[2] /\ s.copy \in 1..MaxRuns
    /\ \A s \in CaptureSession : /\ sessionRow[s].owner \in CaptureAgent \cup {Nobody, NoRow}
                          /\ sessionRow[s].sources \subseteq CaptureAgent \cup {Nobody}

\* The line of a session's last prompt up to a line.
PromptOf(t, i) ==
    LET before == {j \in 1..i : IsPrompt(t, j) /\ Script[t][j].session = Script[t][i].session}
    IN  CHOOSE j \in before \cup {0} : \A k \in before : k <= j

\* Telemetry carries the prompt it answers, wherever the polls that read the
\* transcript happened to stop (transcript_ingest.py:201-224).
SpansNameTheirPrompt == \A s \in span : s.prompt = PromptOf(s.of[1], s.of[2])

Captured(t, i) ==
    \A b \in DOMAIN Script[t][i].blocks :
        IF Script[t][i].blocks[b] \in Remembered
          THEN \E c \in capturedMemory : SameKey(<<t, i, b>>, c)
        ELSE \E s \in span : s.of = <<t, i, b>>

\* What the state file counts as passed is in the store, whatever runs were
\* killed or refused and however they overlapped; only a line that was read half
\* written may be missing (transcript_ingest.py:289-301).
PassedIsCaptured ==
    \A t \in Claude : \A i \in 1..offset[t] : <<t, i>> \notin halfRead => Captured(t, i)

\* transcript_ingest.py:24-31: re-running processes the lines appended since
\* the last run, in full fidelity, so no line passed is missing.
NoLineLost == \A t \in Claude : \A i \in 1..offset[t] : i <= written[t] => Captured(t, i)

\* session_sync.py:120: messages are appended to the Hermes session once.
AppendedOnce == \A t \in Transcript : Cardinality({hermes[t][i] : i \in DOMAIN hermes[t]})
                                        = Len(hermes[t])

(***************************************************************************)
(* What polls and finalizers make of a transcript, wherever they stop.     *)
(***************************************************************************)
CaptureHolds == SpansNameTheirPrompt /\ PassedIsCaptured
=============================================================================
