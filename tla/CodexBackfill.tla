----------------------------- MODULE CodexBackfill -----------------------------
(***************************************************************************)
(* The collector of codex_mcp_backfill.py: it rebuilds turns from the      *)
(* session files of Codex, skips the files it has seen in their present    *)
(* state, and sends the turns that the store has no exchange of through    *)
(* memory_ingest_agent_turn.  A file and the number of turns of a cycle    *)
(* are bounded; what was seen lives in the process only.                   *)
(***************************************************************************)
EXTENDS Integers, Sequences, FiniteSets, SequencesExt, TLC

CONSTANTS
    CodexFile,              \* session files, one session each
    MaxTurns,               \* turns a Codex session has
    Parts,                  \* parts of the answer of a turn
    Oversize,               \* items a file may hold before it is passed over
    FileLimit, TurnLimit,   \* the caps of a cycle
    MaxCycles, MaxFailures  \* bounds on cycles and on calls and processes lost

ASSUME CodexAssumption ==
    {MaxTurns, Parts, Oversize, FileLimit, TurnLimit} \subseteq Nat \ {0}
        /\ {MaxCycles, MaxFailures} \subseteq Nat

VARIABLES
    turn,        \* CodexFile -> its turns: [prompt, answer : parts so far]
    recent,      \* the files, the one written last first
    seen,        \* _SEEN_FILE_STATE: CodexFile -> the state it was parsed in
    collector,   \* the process and its local variables
    turnMemory,  \* <<file, turn>> -> the answer first stored under its key
    exchange,    \* turns with an exchange
    cycles, failures

codexVars == <<turn, recent, seen, collector, turnMemory, exchange, cycles, failures>>

Resting == [at |-> "rest"]
None == <<>>
CodexInit ==
    /\ turn = [f \in CodexFile |-> <<>>]
    /\ recent = SetToSeq(CodexFile)
    /\ seen = [f \in CodexFile |-> None]
    /\ collector = Resting
    /\ turnMemory = {} /\ exchange = {} /\ cycles = 0 /\ failures = 0

Items(f) == FoldLeft(LAMBDA n, u : n + 1 + u.answer, 0, turn[f])

\* Codex opens a turn or adds to the answer of the last.
CodexWrites(f) ==
    /\ \/ Len(turn[f]) < MaxTurns /\ turn' = [turn EXCEPT ![f] = Append(@, [answer |-> 0])]
       \/ /\ turn[f] # <<>> /\ Last(turn[f]).answer < Parts
          /\ turn' = [turn EXCEPT ![f][Len(turn[f])].answer = @ + 1]
    /\ recent' = <<f>> \o SelectSeq(recent, LAMBDA g : g # f)
    /\ UNCHANGED <<seen, collector, turnMemory, exchange, cycles, failures>>

\* parse_codex_session: the turns with a prompt and some answer.
Parsed(f) ==
    SelectSeq([i \in DOMAIN turn[f] |-> [file |-> f, nth |-> i, answer |-> turn[f][i].answer]],
              LAMBDA u : u.answer > 0)

StartCycle ==
    /\ collector.at = "rest" /\ cycles < MaxCycles /\ cycles' = cycles + 1
    /\ collector' = [at |-> "parse", turns |-> <<>>,
                     files |-> SubSeq(recent, 1, IF FileLimit < Len(recent) THEN FileLimit
                                                 ELSE Len(recent))]
    /\ UNCHANGED <<turn, recent, seen, turnMemory, exchange, failures>>

\* A file is marked seen as soon as it is parsed.
ParseFile ==
    /\ collector.at = "parse" /\ collector.files # <<>>
    /\ LET f == Head(collector.files)
           rest == [collector EXCEPT !.files = Tail(@)]
       IN  IF Items(f) > Oversize \/ seen[f] = <<turn[f]>>
             THEN collector' = rest /\ UNCHANGED seen
           ELSE /\ collector' = [rest EXCEPT !.turns = @ \o Parsed(f)]
                /\ seen' = [seen EXCEPT ![f] = <<turn[f]>>]
    /\ UNCHANGED <<turn, recent, turnMemory, exchange, cycles, failures>>

Cut(turns) == SubSeq(turns, 1, IF TurnLimit < Len(turns) THEN TurnLimit ELSE Len(turns))

\* The exchanges of the sessions concerned are asked for once, before any send.
Connect ==
    /\ collector.at = "parse" /\ collector.files = <<>>
    /\ LET turns == Cut(collector.turns) IN
         collector' = IF turns = <<>> THEN Resting
                      ELSE [at |-> "send", turns |-> turns, existing |-> exchange]
    /\ UNCHANGED <<turn, recent, seen, turnMemory, exchange, cycles, failures>>

Key(u) == <<u.file, u.nth>>

\* store_memory finds a memory by its idempotency key, whatever it says.
Stored(u) == \E k \in turnMemory : k[1] = Key(u)

\* memory_ingest_agent_turn under the key of the turn; the server may store the
\* memories and then fail, which ends the process, and its cache with it.
SendTurn(outcome) ==
    /\ collector.at = "send" /\ collector.turns # <<>>
    /\ LET u == Head(collector.turns) IN
         IF Key(u) \in collector.existing
           THEN /\ outcome = "done"
                /\ collector' = [collector EXCEPT !.turns = Tail(@)]
                /\ UNCHANGED <<turnMemory, exchange, seen, failures>>
         ELSE /\ turnMemory' = IF Stored(u) \/ outcome = "refused" THEN turnMemory
                               ELSE turnMemory \cup {<<Key(u), u.answer>>}
              /\ exchange' = IF outcome \in {"done", "lost"} THEN exchange \cup {Key(u)}
                             ELSE exchange
              /\ IF outcome = "done"
                   THEN /\ collector' = [collector EXCEPT !.turns = Tail(@)]
                        /\ UNCHANGED <<seen, failures>>
                 ELSE /\ failures < MaxFailures /\ failures' = failures + 1
                      /\ collector' = Resting /\ seen' = [f \in CodexFile |-> None]
    /\ UNCHANGED <<turn, recent, cycles>>

EndCycle ==
    /\ collector.at = "send" /\ collector.turns = <<>>
    /\ collector' = Resting
    /\ UNCHANGED <<turn, recent, seen, turnMemory, exchange, cycles, failures>>

CodexNext ==
    \/ \E f \in CodexFile : CodexWrites(f)
    \/ StartCycle \/ ParseFile \/ Connect \/ EndCycle
    \/ \E o \in {"done", "refused", "midway", "lost"} : SendTurn(o)

CodexSpec == CodexInit /\ [][CodexNext]_codexVars

-----------------------------------------------------------------------------
\* The state has its type.
CodexTypeOK ==
    /\ \A f \in CodexFile : Len(turn[f]) <= MaxTurns
    /\ exchange \subseteq {k[1] : k \in turnMemory}
    /\ collector.at \in {"rest", "parse", "send"}

\* codex_mcp_backfill.py:311-319: skipping unchanged files leaves correctness
\* independent of what the process has seen.  So a finished turn of a file that a
\* cycle took in, and that has not changed, is in the store when the cycle is over.
SeenIsStored ==
    collector.at = "rest" =>
        \A f \in CodexFile : seen[f] = <<turn[f]>> =>
            \A i \in DOMAIN turn[f] : turn[f][i].answer > 0 => <<f, i>> \in exchange

\* A turn is kept with one answer, whatever calls and answers are lost.
OneAnswerPerTurn == \A k, l \in turnMemory : k[1] = l[1] => k = l
=============================================================================
