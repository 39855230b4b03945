----------------------------- MODULE AgentTurns -----------------------------
(***************************************************************************)
(* Compound writes of GraphStore: ingest_agent_turn stores the prompt, the *)
(* response, the tool spans and the exchange of one turn.  The threads of  *)
(* a process share one connection behind a re-entrant lock; processes      *)
(* share the database, where BEGIN IMMEDIATE admits one writer.            *)
(*                                                                         *)
(* _atomic_write decides by an unlocked look at _atomic_depth whether a    *)
(* call owns the transaction.  A call that sees the depth of another       *)
(* thread's transaction runs its body without one: each nested method then *)
(* waits for the lock and commits by itself.  A turn is known by its       *)
(* idempotency key.                                                        *)
(***************************************************************************)
EXTENDS Integers, Sequences, FiniteSets

CONSTANTS
    TurnKey, NoTurnKey,
    Process, NoProcess,
    Thread, NoThread,
    ProcOf,        \* thread -> its process
    Quota,         \* max_memories
    MaxTurnCalls,  \* bound: calls of ingest_agent_turn
    MaxTurnFaults  \* bound: crashes, failing statements, busy timeouts

ASSUME TurnAssumption ==
    /\ NoThread \notin Thread /\ NoProcess \notin Process /\ NoTurnKey \notin TurnKey
    /\ ProcOf \in [Thread -> Process]
    /\ Quota \in Nat \ {0} /\ {MaxTurnCalls, MaxTurnFaults} \subseteq Nat
    /\ IsFiniteSet(Process)

\* What a turn writes, in the order of the body.
Parts == <<"prompt", "response", "spans", "exchange">>
Memories == {"prompt", "response"}

VARIABLES
    turnsDb,   \* committed: memories, number of span batches, exchange chain
    work,      \* the same, as the open transaction sees it
    txn,       \* process whose connection has the write transaction
    lock,      \* process -> thread that holds the lock of the store
    depth,     \* process -> _atomic_depth
    run,       \* thread -> its call: key, place (pc), part, owner or not
    answered,  \* keys whose call has returned
    split,     \* keys a call without a transaction has worked on
    turnCalls, turnFaults

sync == <<txn, lock, depth>>
turnsVars == <<turnsDb, work, sync, run, answered, split, turnCalls, turnFaults>>

IdleTurn == [pc |-> "idle", key |-> NoTurnKey, at |-> 1]
Empty == [mem |-> {}, spans |-> [k \in TurnKey |-> 0], chain |-> <<>>]

TurnsInit ==
    /\ turnsDb = Empty /\ work = Empty
    /\ txn = NoProcess
    /\ lock = [p \in Process |-> NoThread]
    /\ depth = [p \in Process |-> 0]
    /\ run = [t \in Thread |-> IdleTurn]
    /\ answered = {} /\ split = {}
    /\ turnCalls = 0 /\ turnFaults = 0

TurnsFault == turnFaults < MaxTurnFaults /\ turnFaults' = turnFaults + 1
LockFree(t) == lock[ProcOf[t]] = NoThread
Part(t) == Parts[run[t].at]
\* Mutant of LastPart: one part too many.
LastPartLate(t) == run[t].at > Len(Parts)
LastPart(t) == run[t].at = Len(Parts)
Go(t, pc) == run' = [run EXCEPT ![t].pc = pc]
EndTurn(t) == run' = [run EXCEPT ![t] = IdleTurn]

-----------------------------------------------------------------------------
(* What the nested methods write. *)

InChain(d, k) == \E i \in DOMAIN d.chain : d.chain[i] = k

\* Found by idempotency key; span batches have none.
Exists(d, k, part) ==
    \/ part \in Memories /\ <<k, part>> \in d.mem
    \/ part = "exchange" /\ InChain(d, k)

Add(d, k, part) ==
    IF part \in Memories THEN [d EXCEPT !.mem = @ \cup {<<k, part>>}]
    ELSE IF part = "spans" THEN [d EXCEPT !.spans[k] = @ + 1]
    ELSE [d EXCEPT !.chain = Append(@, k)]

\* store_memory counts before it writes.
Refused(d, part) == part \in Memories /\ Cardinality(d.mem) >= Quota

-----------------------------------------------------------------------------
(* The wrapper. *)

\* The look at the depth is not protected by the lock.
TurnCall(t, k) ==
    /\ run[t] = IdleTurn /\ turnCalls < MaxTurnCalls
    /\ turnCalls' = turnCalls + 1
    /\ \/ /\ depth[ProcOf[t]] = 0
          /\ run' = [run EXCEPT ![t] = [pc |-> "lock", key |-> k, at |-> 1]]
          /\ UNCHANGED split
       \/ /\ depth[ProcOf[t]] > 0
          /\ run' = [run EXCEPT ![t] = [pc |-> "part", key |-> k, at |-> 1]]
          /\ split' = split \cup {k}
    /\ UNCHANGED <<turnsDb, work, sync, answered, turnFaults>>

TakeLock(t) ==
    /\ run[t].pc = "lock" /\ LockFree(t)
    /\ lock' = [lock EXCEPT ![ProcOf[t]] = t]
    /\ Go(t, "begin")
    /\ UNCHANGED <<turnsDb, work, txn, depth, answered, split, turnCalls, turnFaults>>

CanBegin == txn = NoProcess

BeginTurn(t) ==
    /\ run[t].pc = "begin" /\ CanBegin
    /\ txn' = ProcOf[t]
    /\ work' = turnsDb
    /\ depth' = [depth EXCEPT ![ProcOf[t]] = 1]
    /\ Go(t, "body")
    /\ UNCHANGED <<turnsDb, lock, answered, split, turnCalls, turnFaults>>

\* The transaction of t ends: with the database as d, its call as it returns.
\* Mutant of Ended: the connection keeps its transaction.
EndedOpen(p) == p
Ended(p) == NoProcess

Close(t, d) ==
    /\ turnsDb' = d
    /\ txn' = Ended(ProcOf[t])
    /\ depth' = [depth EXCEPT ![ProcOf[t]] = 0]
    /\ lock' = [lock EXCEPT ![ProcOf[t]] = NoThread]
    /\ EndTurn(t)
    /\ UNCHANGED <<work, split, turnCalls>>

\* Mutant of Undone: what was written before the error is committed.
UndoneNot == work
Undone == turnsDb

\* One nested method of the owner, inside its transaction.
Body(t) ==
    LET k == run[t].key
        found == Exists(work, k, Part(t)) IN
    /\ run[t].pc = "body"
    /\ found \/ ~Refused(work, Part(t))
    /\ work' = IF found THEN work ELSE Add(work, k, Part(t))
    /\ IF LastPart(t) THEN Go(t, "commit") ELSE run' = [run EXCEPT ![t].at = @ + 1]
    /\ UNCHANGED <<turnsDb, sync, answered, split, turnCalls, turnFaults>>

BodyRefused(t) ==
    /\ run[t].pc = "body"
    /\ ~Exists(work, run[t].key, Part(t)) /\ Refused(work, Part(t))
    /\ Close(t, Undone)
    /\ UNCHANGED <<answered, turnFaults>>

\* A nested method or the COMMIT raises.
BodyFails(t) ==
    /\ run[t].pc \in {"body", "commit"} /\ TurnsFault
    /\ Close(t, Undone)
    /\ UNCHANGED answered

Commit(t) ==
    /\ run[t].pc = "commit"
    /\ Close(t, work)
    /\ answered' = answered \cup {run[t].key}
    /\ UNCHANGED turnFaults

-----------------------------------------------------------------------------
(* The body without a transaction: nested methods on their own. *)

\* The call goes on with the next part, or returns after the last one.
Advance(t) ==
    IF LastPart(t) THEN EndTurn(t) /\ answered' = answered \cup {run[t].key}
    ELSE /\ run' = [run EXCEPT ![t] = [pc |-> "part", key |-> @.key, at |-> @.at + 1]]
         /\ UNCHANGED answered

\* The look for an earlier row and the quota, under the lock but before BEGIN.
\* store_memory and record_otel_batch keep the lock, record_exchange does not.
Enter(t) ==
    LET k == run[t].key IN
    /\ run[t].pc = "part" /\ LockFree(t)
    /\ \/ Exists(turnsDb, k, Part(t)) /\ Advance(t) /\ UNCHANGED lock
       \/ /\ ~Exists(turnsDb, k, Part(t)) /\ Refused(turnsDb, Part(t))
          /\ EndTurn(t) /\ UNCHANGED <<lock, answered>>
       \/ /\ ~Exists(turnsDb, k, Part(t)) /\ ~Refused(turnsDb, Part(t))
          /\ IF Part(t) = "exchange" THEN Go(t, "append") /\ UNCHANGED lock
             ELSE Go(t, "write") /\ lock' = [lock EXCEPT ![ProcOf[t]] = t]
          /\ UNCHANGED answered
    /\ UNCHANGED <<turnsDb, work, txn, depth, split, turnCalls, turnFaults>>

Hold(t) ==
    /\ run[t].pc = "append" /\ LockFree(t)
    /\ lock' = [lock EXCEPT ![ProcOf[t]] = t]
    /\ Go(t, "write")
    /\ UNCHANGED <<turnsDb, work, txn, depth, answered, split, turnCalls, turnFaults>>

Clashes(t) == Exists(turnsDb, run[t].key, Part(t))

\* One transaction of a nested method, from BEGIN IMMEDIATE to COMMIT.
Write(t) ==
    /\ run[t].pc = "write" /\ CanBegin
    /\ lock' = [lock EXCEPT ![ProcOf[t]] = NoThread]
    /\ \/ Clashes(t) /\ EndTurn(t) /\ UNCHANGED <<turnsDb, answered>>
       \/ ~Clashes(t) /\ turnsDb' = Add(turnsDb, run[t].key, Part(t)) /\ Advance(t)
    /\ UNCHANGED <<work, txn, depth, split, turnCalls, turnFaults>>

-----------------------------------------------------------------------------
\* A BEGIN waits too long, or a transaction of a nested method fails.
GivesUp(t) ==
    /\ run[t].pc \in {"begin", "write"} /\ TurnsFault
    /\ lock' = [lock EXCEPT ![ProcOf[t]] = NoThread]
    /\ EndTurn(t)
    /\ UNCHANGED <<turnsDb, work, txn, depth, answered, split, turnCalls>>

\* A process dies; SQLite rolls its transaction back.
ProcessCrash(p) ==
    /\ \E t \in Thread : ProcOf[t] = p /\ run[t] # IdleTurn
    /\ TurnsFault
    /\ run' = [t \in Thread |-> IF ProcOf[t] = p THEN IdleTurn ELSE run[t]]
    /\ lock' = [lock EXCEPT ![p] = NoThread]
    /\ depth' = [depth EXCEPT ![p] = 0]
    /\ txn' = IF txn = p THEN NoProcess ELSE txn
    /\ UNCHANGED <<turnsDb, work, answered, split, turnCalls>>

Work(t) ==
    \/ TakeLock(t) \/ BeginTurn(t) \/ Body(t) \/ BodyRefused(t) \/ Commit(t)
    \/ Enter(t) \/ Hold(t) \/ Write(t)

TurnsNext ==
    \/ \E t \in Thread : \/ \E k \in TurnKey : TurnCall(t, k)
                         \/ Work(t) \/ BodyFails(t) \/ GivesUp(t)
    \/ \E p \in Process : ProcessCrash(p)

TurnsSpec == TurnsInit /\ [][TurnsNext]_turnsVars

\* A thread that can go on does: the lock is handed on, SQLite retries BEGIN.
TurnsFairness == \A t \in Thread : WF_turnsVars(Work(t))
FairTurnsSpec == TurnsSpec /\ TurnsFairness

-----------------------------------------------------------------------------
Data == [mem : SUBSET (TurnKey \X Memories), spans : [TurnKey -> Nat], chain : Seq(TurnKey)]
Places == {"idle", "lock", "begin", "body", "commit", "part", "append", "write"}

\* The variables have their types.
TurnsTypeOK ==
    /\ turnsDb \in Data /\ work \in Data
    /\ txn \in Process \cup {NoProcess}
    /\ lock \in [Process -> Thread \cup {NoThread}]
    /\ depth \in [Process -> {0, 1}]
    /\ run \in [Thread -> [pc : Places, key : TurnKey \cup {NoTurnKey}, at : 1 .. Len(Parts)]]
    /\ answered \subseteq TurnKey /\ split \subseteq TurnKey
    /\ turnCalls \in 0 .. MaxTurnCalls /\ turnFaults \in 0 .. MaxTurnFaults

Begun(d, k) == (\E m \in Memories : <<k, m>> \in d.mem) \/ d.spans[k] > 0 \/ InChain(d, k)
Whole(d, k) == (\A m \in Memories : <<k, m>> \in d.mem) /\ d.spans[k] > 0 /\ InChain(d, k)

\* A turn is in the database with all its parts or with none, unless some
\* call for it ran without a transaction; crashes, failing statements, the
\* quota and retries under the same key change nothing about that.
OwnedTurnsWhole == \A k \in TurnKey : Begun(turnsDb, k) => Whole(turnsDb, k) \/ k \in split

\* What the wrapper promises of every compound write: all or nothing.
TurnsAllOrNothing == \A k \in TurnKey : Begun(turnsDb, k) => Whole(turnsDb, k)
                          \/ \E t \in Thread : run[t].key = k

\* A call that has returned left the whole turn behind, also when threads of
\* its own process or another process were writing at the same time.
AnsweredIsStored == \A k \in answered : Whole(turnsDb, k)

\* A turn has one place in the exchange chain, though record_exchange looks
\* for its key before it takes the lock for the insert.
OneExchangePerTurn ==
    \A i, j \in DOMAIN turnsDb.chain : turnsDb.chain[i] = turnsDb.chain[j] => i = j

\* max_memories is counted before BEGIN: every process but one may overshoot
\* it by the one memory it is about to write, and no more.
QuotaOvershoot == Cardinality(turnsDb.mem) <= Quota + Cardinality(Process) - 1

\* Every call ends: the lock of the process and the write lock of the database
\* are taken in one order, and each is released on every path.
CallsEnd == \A t \in Thread : run[t] # IdleTurn ~> run[t] = IdleTurn

(***************************************************************************)
(* Turns are whole where they were promised to be, also under retries,     *)
(* concurrent threads and processes, crashes and a full quota.             *)
(***************************************************************************)
TurnsHold == OwnedTurnsWhole /\ AnsweredIsStored /\ OneExchangePerTurn /\ QuotaOvershoot
=============================================================================
