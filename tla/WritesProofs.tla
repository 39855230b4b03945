----------------------------- MODULE WritesProofs -----------------------------
(***************************************************************************)
(* Proofs about AgentTurns and TelemetryOutbox, for any number of          *)
(* processes, threads, turns, events, workers and faults: a turn is whole  *)
(* where it was promised to be, whatever runs beside it, and a delivery is *)
(* repeated for what was paid for only.                                    *)
(***************************************************************************)
EXTENDS MCWrites, FiniteSetTheorems, TLAPS

-----------------------------------------------------------------------------
(* The parts of a turn *)

Each == {"prompt", "response", "spans", "exchange"}
RunState == [pc : Places, key : TurnKey \cup {NoTurnKey}, at : 1 .. 4]

\* What is stored of a turn.
Has(d, k, part) ==
    \/ part \in Memories /\ <<k, part>> \in d.mem
    \/ part = "spans" /\ d.spans[k] > 0
    \/ part = "exchange" /\ InChain(d, k)

HasBefore(d, k, n) == \A i \in 1 .. n - 1 : Has(d, k, Parts[i])
OneEach(d) == \A i, j \in DOMAIN d.chain : d.chain[i] = d.chain[j] => i = j

\* Processes of which a thread is about to write a memory it has counted.
Writers == {p \in Process : \E t \in Thread :
                ProcOf[t] = p /\ run[t].pc = "write" /\ Part(t) \in Memories}

\* What the owner of the transaction of turn k has written so far.
OwnerFits(k, n) ==
    /\ \A k2 \in TurnKey, part \in Each :
          /\ Has(turnsDb, k2, part) => Has(work, k2, part)
          /\ k2 # k /\ Has(work, k2, part) => Has(turnsDb, k2, part)
    /\ HasBefore(work, k, n)
    /\ OneEach(work)
    /\ Cardinality(work.mem) <= Quota \/ work.mem = turnsDb.mem

\* A thread's place fits the locks it holds and what it has stored.
ThreadFits(t) ==
    /\ run[t].pc \in {"begin", "body", "commit", "write"} => lock[ProcOf[t]] = t
    /\ run[t].pc # "idle" => run[t].key \in TurnKey
    /\ run[t].pc \in {"lock", "begin"} => run[t].at = 1
    /\ run[t].pc \in {"part", "append", "write"} =>
          run[t].key \in split /\ HasBefore(turnsDb, run[t].key, run[t].at)
    /\ run[t].pc = "append" => run[t].at = 4
    /\ run[t].pc \in {"body", "commit"} =>
          txn = ProcOf[t] /\ OwnerFits(run[t].key, run[t].at)
    /\ run[t].pc = "commit" => run[t].at = 4 /\ Has(work, run[t].key, "exchange")

DataFits ==
    /\ turnsDb \in Data /\ work \in Data
    /\ IsFiniteSet(turnsDb.mem) /\ IsFiniteSet(work.mem)
    /\ OwnedTurnsWhole /\ AnsweredIsStored /\ OneExchangePerTurn
    /\ answered \subseteq TurnKey /\ split \subseteq TurnKey

QuotaFits ==
    Cardinality(turnsDb.mem) + Cardinality(Writers) <= Quota + Cardinality(Process) - 1

TurnsInv == TurnsTypeOK /\ DataFits /\ QuotaFits /\ \A t \in Thread : ThreadFits(t)

-----------------------------------------------------------------------------
(* Facts about the operators of the model *)

LEMMA PartsFacts ==
    /\ Len(Parts) = 4
    /\ Parts[1] = "prompt" /\ Parts[2] = "response" /\ Parts[3] = "spans" /\ Parts[4] = "exchange"
    /\ \A i \in 1 .. 4 : Parts[i] \in Each
    /\ \A i \in 1 .. 4 : Parts[i] = "exchange" <=> i = 4
    /\ Memories \subseteq Each /\ "spans" \notin Memories /\ "exchange" \notin Memories
<1>1. /\ Len(Parts) = 4
      /\ Parts[1] = "prompt" /\ Parts[2] = "response" /\ Parts[3] = "spans" /\ Parts[4] = "exchange"
  BY DEF Parts
<1>2. \A i \in 1 .. 4 : i = 1 \/ i = 2 \/ i = 3 \/ i = 4
  OBVIOUS
<1>3. QED
  BY <1>1, <1>2 DEF Each, Memories

\* A turn is whole when it has its four parts, and begun when it has one.
LEMMA WholeIsAll ==
    ASSUME NEW d \in Data, NEW k \in TurnKey
    PROVE  /\ Whole(d, k) <=> \A part \in Each : Has(d, k, part)
           /\ Begun(d, k) <=> \E part \in Each : Has(d, k, part)
           /\ HasBefore(d, k, 4) /\ Has(d, k, "exchange") => Whole(d, k)
<1>1. /\ Whole(d, k) <=> \A part \in Each : Has(d, k, part)
      /\ Begun(d, k) <=> \E part \in Each : Has(d, k, part)
  BY DEF Whole, Begun, Has, Each, Memories
<1>2. ASSUME HasBefore(d, k, 4), Has(d, k, "exchange") PROVE \A part \in Each : Has(d, k, part)
  <2>1. Has(d, k, Parts[1]) /\ Has(d, k, Parts[2]) /\ Has(d, k, Parts[3])
    BY <1>2 DEF HasBefore
  <2>2. QED
    BY <1>2, <2>1, PartsFacts DEF Each
<1>3. QED
  BY <1>1, <1>2

\* A method finds what it looks for only where it is, and only span batches
\* are written again.
LEMMA ExistsFacts ==
    ASSUME NEW d \in Data, NEW k \in TurnKey, NEW part \in Each
    PROVE  /\ Exists(d, k, part) => Has(d, k, part)
           /\ ~Exists(d, k, part) /\ part # "spans" => ~Has(d, k, part)
  BY DEF Exists, Has, Memories, Each

\* What a nested method adds: the part it is for, and nothing else.
LEMMA AddFacts ==
    ASSUME NEW d \in Data, NEW k \in TurnKey, NEW part \in Each
    PROVE  /\ Add(d, k, part) \in Data
           /\ \A k2 \in TurnKey, q \in Each :
                 Has(Add(d, k, part), k2, q) <=> Has(d, k2, q) \/ (k2 = k /\ q = part)
           /\ OneEach(d) /\ (part = "exchange" => ~Has(d, k, part)) => OneEach(Add(d, k, part))
           /\ part \in Memories => Add(d, k, part).mem = d.mem \cup {<<k, part>>}
           /\ part \notin Memories => Add(d, k, part).mem = d.mem
<1> DEFINE e == Add(d, k, part)
<1>1. /\ d = [mem |-> d.mem, spans |-> d.spans, chain |-> d.chain]
      /\ d.mem \subseteq TurnKey \X Memories /\ d.spans \in [TurnKey -> Nat] /\ d.chain \in Seq(TurnKey)
  BY DEF Data
<1>2. CASE part \in Memories
  <2>1. e = [d EXCEPT !.mem = d.mem \cup {<<k, part>>}]
    BY <1>2 DEF Add
  <2> HIDE DEF e
  <2>2. e.mem = d.mem \cup {<<k, part>>} /\ e.spans = d.spans /\ e.chain = d.chain /\ e \in Data
    BY <1>1, <1>2, <2>1 DEF Data
  <2>3. \A k2 \in TurnKey, q \in Each : Has(e, k2, q) <=> Has(d, k2, q) \/ (k2 = k /\ q = part)
    BY <1>2, <2>2, PartsFacts DEF Has, InChain
  <2>4. OneEach(d) => OneEach(e)
    BY <2>2 DEF OneEach
  <2>5. QED
    BY <1>2, <2>2, <2>3, <2>4 DEF e
<1>3. CASE part = "spans"
  <2>1. e = [d EXCEPT !.spans = [d.spans EXCEPT ![k] = d.spans[k] + 1]]
    BY <1>3, PartsFacts DEF Add
  <2>2. [d.spans EXCEPT ![k] = d.spans[k] + 1] \in [TurnKey -> Nat]
    BY <1>1
  <2> HIDE DEF e
  <2>3. e.mem = d.mem /\ e.spans = [d.spans EXCEPT ![k] = d.spans[k] + 1] /\ e.chain = d.chain /\ e \in Data
    BY <1>1, <2>1, <2>2 DEF Data
  <2>4. e.spans[k] = d.spans[k] + 1 /\ \A k2 \in TurnKey : k2 # k => e.spans[k2] = d.spans[k2]
    BY <1>1, <2>3
  <2>5. \A k2 \in TurnKey, q \in Each : Has(e, k2, q) <=> Has(d, k2, q) \/ (k2 = k /\ q = part)
    BY <1>1, <1>3, <2>3, <2>4, PartsFacts DEF Has, InChain
  <2>6. OneEach(d) => OneEach(e)
    BY <2>3 DEF OneEach
  <2>7. QED
    BY <1>3, <2>3, <2>5, <2>6, PartsFacts DEF e
<1>4. CASE part = "exchange"
  <2>1. e = [d EXCEPT !.chain = Append(d.chain, k)]
    BY <1>4, PartsFacts DEF Add
  <2>2. Append(d.chain, k) \in Seq(TurnKey)
    BY <1>1
  <2> HIDE DEF e
  <2>3. e.mem = d.mem /\ e.spans = d.spans /\ e.chain = Append(d.chain, k) /\ e \in Data
    BY <1>1, <2>1, <2>2 DEF Data
  <2>4. /\ DOMAIN e.chain = 1 .. Len(d.chain) + 1 /\ DOMAIN d.chain = 1 .. Len(d.chain)
        /\ Len(d.chain) \in Nat /\ e.chain[Len(d.chain) + 1] = k
        /\ \A i \in 1 .. Len(d.chain) : e.chain[i] = d.chain[i]
    BY <1>1, <2>3
  <2>5. \A k2 \in TurnKey : InChain(e, k2) <=> InChain(d, k2) \/ k2 = k
    <3>1. \A i \in 1 .. Len(d.chain) + 1 : i \in 1 .. Len(d.chain) \/ i = Len(d.chain) + 1
      BY <2>4
    <3>2. QED
      BY <2>4, <3>1 DEF InChain
  <2>6. \A k2 \in TurnKey, q \in Each : Has(e, k2, q) <=> Has(d, k2, q) \/ (k2 = k /\ q = part)
    BY <1>4, <2>3, <2>5, PartsFacts DEF Has
  <2>7. OneEach(d) /\ ~Has(d, k, part) => OneEach(e)
    <3>1. SUFFICES ASSUME OneEach(d), ~InChain(d, k),
                          NEW i \in DOMAIN e.chain, NEW j \in DOMAIN e.chain, e.chain[i] = e.chain[j]
                   PROVE  i = j
      BY <1>4 DEF Has, OneEach
    <3>2. \A h \in 1 .. Len(d.chain) : d.chain[h] # k
      BY <2>4, <3>1 DEF InChain
    <3>3. CASE i \in 1 .. Len(d.chain) /\ j \in 1 .. Len(d.chain)
      BY <2>4, <3>1, <3>3 DEF OneEach
    <3>4. CASE i = Len(d.chain) + 1 \/ j = Len(d.chain) + 1
      BY <2>4, <3>1, <3>2, <3>4
    <3>5. QED
      BY <2>4, <3>1, <3>3, <3>4
  <2>8. QED
    BY <1>4, <2>3, <2>6, <2>7, PartsFacts DEF e
<1>5. QED
  BY <1>2, <1>3, <1>4 DEF Each, Memories

\* An added memory counts for one at most.
LEMMA AddCounts ==
    ASSUME NEW d \in Data, NEW k \in TurnKey, NEW part \in Each, IsFiniteSet(d.mem)
    PROVE  /\ IsFiniteSet(Add(d, k, part).mem)
           /\ Cardinality(d.mem) \in Nat /\ Cardinality(Add(d, k, part).mem) \in Nat
           /\ Cardinality(Add(d, k, part).mem) <= Cardinality(d.mem) + 1
           /\ part \notin Memories => Add(d, k, part).mem = d.mem
<1>1. Cardinality(d.mem) \in Nat
  BY FS_CardinalityType
<1>2. CASE part \notin Memories
  BY <1>1, <1>2, AddFacts
<1>3. CASE part \in Memories
  <2> DEFINE one == <<k, part>>
  <2>1. Add(d, k, part).mem = d.mem \cup {one}
    BY <1>3, AddFacts
  <2> HIDE DEF one
  <2>2. /\ IsFiniteSet(d.mem \cup {one})
        /\ \/ Cardinality(d.mem \cup {one}) = Cardinality(d.mem)
           \/ Cardinality(d.mem \cup {one}) = Cardinality(d.mem) + 1
    BY FS_AddElement
  <2>3. QED
    BY <1>1, <1>3, <2>1, <2>2
<1>4. QED
  BY <1>2, <1>3

-----------------------------------------------------------------------------
(* Steps of one thread beside the others *)

LEMMA PlaceFacts ==
    ASSUME NEW r \in RunState, NEW pc \in Places
    PROVE  /\ [r EXCEPT !.pc = pc] \in RunState
           /\ [r EXCEPT !.pc = pc].pc = pc
           /\ [r EXCEPT !.pc = pc].key = r.key
           /\ [r EXCEPT !.pc = pc].at = r.at
  BY DEF RunState

LEMMA IdleFacts == IdleTurn \in RunState /\ IdleTurn.pc = "idle"
  BY DEF IdleTurn, RunState, Places

LEMMA TypeFacts ==
    ASSUME TurnsInv, NEW t \in Thread
    PROVE  /\ run \in [Thread -> RunState] /\ run[t] \in RunState
           /\ run[t].at \in 1 .. 4 /\ Part(t) \in Each /\ Part(t) = Parts[run[t].at]
           /\ ProcOf[t] \in Process
           /\ lock \in [Process -> Thread \cup {NoThread}] /\ txn \in Process \cup {NoProcess}
           /\ depth \in [Process -> {0, 1}]
           /\ turnsDb \in Data /\ work \in Data
           /\ IsFiniteSet(turnsDb.mem) /\ IsFiniteSet(work.mem)
           /\ split \subseteq TurnKey /\ answered \subseteq TurnKey
<1>1. Len(Parts) = 4 /\ \A i \in 1 .. 4 : Parts[i] \in Each
  BY PartsFacts
<1>2. run \in [Thread -> RunState]
  BY <1>1 DEF TurnsInv, TurnsTypeOK, RunState
<1>3. run[t] \in RunState /\ run[t].at \in 1 .. 4
  BY <1>2 DEF RunState
<1>4. QED
  BY <1>1, <1>2, <1>3, TurnAssumption DEF TurnsInv, TurnsTypeOK, DataFits, Part

\* The lock of a process has one holder, the database one writer.
LEMMA OneOwner ==
    ASSUME TurnsInv, NEW t \in Thread
    PROVE  /\ run[t].pc \in {"begin", "body", "commit", "write"} =>
                 \A u \in Thread : u # t /\ ProcOf[u] = ProcOf[t] =>
                     lock[ProcOf[u]] # u /\ run[u].pc \notin {"begin", "body", "commit", "write"}
           /\ run[t].pc \in {"body", "commit"} =>
                 \A u \in Thread : u # t => run[u].pc \notin {"body", "commit"}
           /\ txn = NoProcess => \A u \in Thread : run[u].pc \notin {"body", "commit"}
           /\ LockFree(t) =>
                 \A u \in Thread : ProcOf[u] = ProcOf[t] =>
                     lock[ProcOf[u]] # u /\ run[u].pc \notin {"begin", "body", "commit", "write"}
<1>1. \A u \in Thread : /\ run[u].pc \in {"begin", "body", "commit", "write"} => lock[ProcOf[u]] = u
                        /\ run[u].pc \in {"body", "commit"} => txn = ProcOf[u]
                        /\ ProcOf[u] \in Process
  BY TypeFacts DEF TurnsInv, ThreadFits
<1>2. NoProcess \notin Process /\ NoThread \notin Thread
  BY TurnAssumption
<1>3. QED
  BY <1>1, <1>2 DEF LockFree

LEMMA OthersFit ==
    ASSUME TurnsInv, NEW t \in Thread, NEW r \in RunState, run' = [run EXCEPT ![t] = r],
           \A u \in Thread : u # t /\ lock[ProcOf[u]] = u => lock'[ProcOf[u]] = u,
           split \subseteq split',
           \A k \in TurnKey, q \in Each : Has(turnsDb, k, q) => Has(turnsDb', k, q),
           \/ UNCHANGED <<turnsDb, work, txn>>
           \/ \A u \in Thread : u # t => run[u].pc \notin {"body", "commit"}
    PROVE  /\ run' \in [Thread -> RunState] /\ run'[t] = r
           /\ \A u \in Thread : u # t => run'[u] = run[u] /\ ThreadFits(u)'
<1>1. /\ run' \in [Thread -> RunState] /\ run'[t] = r
      /\ \A u \in Thread : u # t => run'[u] = run[u]
  BY TypeFacts
<1>2. ASSUME NEW u \in Thread, u # t PROVE ThreadFits(u)'
  <2>1. run'[u] = run[u] /\ ThreadFits(u) /\ run[u].at \in 1 .. 4
    BY <1>1, <1>2, TypeFacts DEF TurnsInv
  <2>2. run[u].pc \in {"part", "append", "write"} =>
            run[u].key \in split' /\ HasBefore(turnsDb', run[u].key, run[u].at)
    <3>1. \A i \in 1 .. run[u].at - 1 : Parts[i] \in Each
      BY <2>1, PartsFacts
    <3>2. QED
      BY <2>1, <3>1 DEF ThreadFits, HasBefore
  <2>3. run[u].pc \in {"body", "commit"} =>
            /\ txn' = ProcOf[u] /\ OwnerFits(run[u].key, run[u].at)'
            /\ run[u].pc = "commit" => Has(work', run[u].key, "exchange")
    <3>1. CASE UNCHANGED <<turnsDb, work, txn>>
      BY <1>1, <2>1, <3>1 DEF ThreadFits, OwnerFits
    <3>2. CASE run[u].pc \notin {"body", "commit"}
      BY <3>2
    <3>3. QED
      BY <1>2, <3>1, <3>2
  <2>4. run[u].pc \in {"begin", "body", "commit", "write"} => lock'[ProcOf[u]] = u
    BY <1>2, <2>1 DEF ThreadFits
  <2>5. QED
    BY <2>1, <2>2, <2>3, <2>4 DEF ThreadFits, OwnerFits
<1>3. QED
  BY <1>1, <1>2

LEMMA WritersFinite ==
    /\ IsFiniteSet(Writers) /\ Cardinality(Writers) \in Nat
    /\ Cardinality(Process) \in Nat /\ Cardinality(Writers) <= Cardinality(Process)
<1>1. Writers \in SUBSET Process
  BY DEF Writers
<1>2. QED
  BY <1>1, TurnAssumption, FS_Subset, FS_CardinalityType

\* A thread that does not come to write a memory leaves the count in bounds.
LEMMA WritersShrink ==
    ASSUME TurnsInv, NEW t \in Thread, NEW r \in RunState, run' = [run EXCEPT ![t] = r],
           r.pc # "write" \/ Parts[r.at] \notin Memories,
           turnsDb' = turnsDb
    PROVE  QuotaFits'
<1>1. run'[t] = r /\ \A u \in Thread : u # t => run'[u] = run[u]
  BY TypeFacts
<1>2. Writers' \in SUBSET Writers
  BY <1>1 DEF Writers, Part
<1>3. Cardinality(Writers') \in Nat /\ Cardinality(Writers') <= Cardinality(Writers)
  BY <1>2, WritersFinite, FS_Subset, FS_CardinalityType
<1>4. Cardinality(turnsDb.mem) \in Nat /\ Cardinality(Writers) \in Nat /\ Cardinality(Process) \in Nat
  BY TypeFacts, WritersFinite, FS_CardinalityType
<1>5. Quota \in Nat
  BY TurnAssumption
<1>6. Cardinality(turnsDb.mem) + Cardinality(Writers) <= Quota + Cardinality(Process) - 1
  BY DEF TurnsInv, QuotaFits
<1>7. Cardinality(turnsDb.mem) + Cardinality(Writers') <= Quota + Cardinality(Process) - 1
  BY <1>3, <1>4, <1>5, <1>6
<1>8. QED
  BY <1>7 DEF QuotaFits

\* A step that leaves the committed database alone.
LEMMA StoreStays ==
    ASSUME TurnsInv, NEW t \in Thread, NEW r \in RunState, run' = [run EXCEPT ![t] = r],
           turnsDb' = turnsDb, work' \in Data, IsFiniteSet(work'.mem),
           \/ UNCHANGED <<turnsDb, work, txn>>
           \/ \A u \in Thread : u # t => run[u].pc \notin {"body", "commit"},
           txn' \in Process \cup {NoProcess}, depth' \in [Process -> {0, 1}],
           lock' \in [Process -> Thread \cup {NoThread}],
           \A u \in Thread : u # t /\ lock[ProcOf[u]] = u => lock'[ProcOf[u]] = u,
           split \subseteq split', split' \subseteq TurnKey,
           answered' \subseteq TurnKey, \A k \in answered' : Whole(turnsDb, k),
           turnCalls' \in 0 .. MaxTurnCalls, turnFaults' \in 0 .. MaxTurnFaults,
           QuotaFits', ThreadFits(t)'
    PROVE  TurnsInv'
<1>1. /\ run' \in [Thread -> RunState]
      /\ \A u \in Thread : ThreadFits(u)'
  BY OthersFit
<1>2. turnsDb \in Data /\ IsFiniteSet(turnsDb.mem)
  BY TypeFacts
<1>3. TurnsTypeOK'
  BY <1>1, <1>2, PartsFacts DEF TurnsTypeOK, RunState
<1>4. DataFits'
  BY <1>2 DEF TurnsInv, DataFits, OwnedTurnsWhole, AnsweredIsStored, OneExchangePerTurn
<1>5. QED
  BY <1>1, <1>3, <1>4 DEF TurnsInv

-----------------------------------------------------------------------------
(* The actions *)

LEMMA InitTurnsInv == TurnsInit => TurnsInv
<1> SUFFICES ASSUME TurnsInit PROVE TurnsInv
  OBVIOUS
<1>1. Empty \in Data /\ Empty.mem = {} /\ Empty.chain = <<>>
      /\ \A k \in TurnKey, q \in Each : ~Has(Empty, k, q)
  BY DEF Empty, Data, Has, InChain
<1>2. turnsDb = Empty /\ work = Empty
  BY DEF TurnsInit
<1>3. TurnsTypeOK
  <2>1. 1 \in 1 .. Len(Parts) /\ Len(Parts) = 4
    BY PartsFacts
  <2>2. IdleTurn \in [pc : Places, key : TurnKey \cup {NoTurnKey}, at : 1 .. Len(Parts)]
    BY <2>1 DEF IdleTurn, Places
  <2>3. QED
    BY <1>1, <2>2, TurnAssumption DEF TurnsInit, TurnsTypeOK
<1>4. DataFits
  <2>1. \A k \in TurnKey : ~Begun(turnsDb, k)
    BY <1>1, <1>2, WholeIsAll
  <2>2. IsFiniteSet({})
    BY FS_EmptySet
  <2>3. OneExchangePerTurn
    BY <1>1, <1>2 DEF OneExchangePerTurn
  <2>4. answered = {} /\ split = {}
    BY DEF TurnsInit
  <2>5. QED
    BY <1>1, <1>2, <2>1, <2>2, <2>3, <2>4 DEF DataFits, OwnedTurnsWhole, AnsweredIsStored
<1>5. QuotaFits
  <2>1. Writers = {}
    BY DEF TurnsInit, Writers, IdleTurn
  <2>2. Cardinality(turnsDb.mem) = 0 /\ Cardinality(Writers) = 0
    BY <1>1, <1>2, <2>1, FS_EmptySet
  <2>3. Cardinality(Process) \in Nat /\ Quota \in Nat \ {0}
    BY TurnAssumption, WritersFinite
  <2>4. QED
    BY <2>2, <2>3 DEF QuotaFits
<1>6. \A t \in Thread : ThreadFits(t)
  BY DEF TurnsInit, ThreadFits, IdleTurn
<1>7. QED
  BY <1>3, <1>4, <1>5, <1>6 DEF TurnsInv

LEMMA AnsweredStored == TurnsInv => \A k \in answered : Whole(turnsDb, k)
  BY DEF TurnsInv, DataFits, AnsweredIsStored

LEMMA CountersTyped ==
    TurnsInv => turnCalls \in 0 .. MaxTurnCalls /\ turnFaults \in 0 .. MaxTurnFaults
  BY DEF TurnsInv, TurnsTypeOK

\* The look at the depth decides who owns the transaction.
LEMMA TurnCallStep ==
    ASSUME TurnsInv, NEW t \in Thread, NEW k \in TurnKey, TurnCall(t, k)
    PROVE  TurnsInv'
<1>1. PICK pc \in {"lock", "part"} :
          /\ run' = [run EXCEPT ![t] = [pc |-> pc, key |-> k, at |-> 1]]
          /\ IF pc = "part" THEN split' = split \cup {k} ELSE split' = split
  BY DEF TurnCall
<1> DEFINE r == [pc |-> pc, key |-> k, at |-> 1]
<1>2. r \in RunState /\ r.pc = pc /\ r.key = k /\ r.at = 1
  BY DEF RunState, Places
<1>3. run' = [run EXCEPT ![t] = r]
  BY <1>1
<1> HIDE DEF r
<1>4. /\ UNCHANGED <<turnsDb, work, txn, lock, depth, answered, turnFaults>>
      /\ turnCalls' = turnCalls + 1 /\ turnCalls < MaxTurnCalls
  BY DEF TurnCall, sync
<1>5. turnCalls' \in 0 .. MaxTurnCalls /\ turnFaults' \in 0 .. MaxTurnFaults
  BY <1>4, CountersTyped, TurnAssumption
<1>6. split \subseteq split' /\ split' \subseteq TurnKey /\ (pc = "part" => k \in split')
  BY <1>1, TypeFacts
<1>7. run'[t] = r
  BY <1>3, TypeFacts
<1>8. ThreadFits(t)'
  BY <1>2, <1>6, <1>7 DEF ThreadFits, HasBefore
<1>9. QuotaFits'
  BY <1>2, <1>3, <1>4, WritersShrink
<1>10. QED
  BY <1>2, <1>3, <1>4, <1>5, <1>6, <1>8, <1>9, StoreStays, TypeFacts, AnsweredStored

LEMMA TakeLockStep ==
    ASSUME TurnsInv, NEW t \in Thread, TakeLock(t)
    PROVE  TurnsInv'
<1> DEFINE r == [run[t] EXCEPT !.pc = "begin"]
<1>1. /\ r \in RunState /\ r.pc = "begin" /\ r.key = run[t].key /\ r.at = run[t].at
      /\ run' = [run EXCEPT ![t] = r]
  BY PlaceFacts, TypeFacts DEF TakeLock, Go, Places
<1> HIDE DEF r
<1>2. /\ UNCHANGED <<turnsDb, work, txn, depth, answered, split, turnCalls, turnFaults>>
      /\ lock' = [lock EXCEPT ![ProcOf[t]] = t] /\ run[t].pc = "lock"
  BY DEF TakeLock
<1>3. /\ lock' \in [Process -> Thread \cup {NoThread}] /\ lock'[ProcOf[t]] = t
      /\ \A u \in Thread : u # t /\ lock[ProcOf[u]] = u => lock'[ProcOf[u]] = u
  BY <1>2, TypeFacts, OneOwner DEF TakeLock
<1>4. run'[t] = r
  BY <1>1, TypeFacts
<1>5. ThreadFits(t)'
  BY <1>1, <1>2, <1>3, <1>4 DEF ThreadFits, TurnsInv
<1>6. QuotaFits'
  BY <1>1, <1>2, WritersShrink
<1>7. QED
  BY <1>1, <1>2, <1>3, <1>5, <1>6, StoreStays, TypeFacts, AnsweredStored, CountersTyped

LEMMA BeginTurnStep ==
    ASSUME TurnsInv, NEW t \in Thread, BeginTurn(t)
    PROVE  TurnsInv'
<1> DEFINE r == [run[t] EXCEPT !.pc = "body"]
<1>1. /\ r \in RunState /\ r.pc = "body" /\ r.key = run[t].key /\ r.at = run[t].at
      /\ run' = [run EXCEPT ![t] = r]
  BY PlaceFacts, TypeFacts DEF BeginTurn, Go, Places
<1> HIDE DEF r
<1>2. /\ UNCHANGED <<turnsDb, lock, answered, split, turnCalls, turnFaults>>
      /\ work' = turnsDb /\ txn' = ProcOf[t] /\ depth' = [depth EXCEPT ![ProcOf[t]] = 1]
      /\ run[t].pc = "begin" /\ txn = NoProcess
  BY DEF BeginTurn, CanBegin
<1>3. /\ txn' \in Process \cup {NoProcess} /\ depth' \in [Process -> {0, 1}]
      /\ work' \in Data /\ IsFiniteSet(work'.mem)
  BY <1>2, TypeFacts
<1>4. run'[t] = r
  BY <1>1, TypeFacts
<1>5. ThreadFits(t)'
  <2>1. run[t].at = 1 /\ run[t].key \in TurnKey /\ lock[ProcOf[t]] = t /\ OneEach(turnsDb)
    BY <1>2 DEF ThreadFits, TurnsInv, DataFits, OneExchangePerTurn, OneEach
  <2>2. QED
    BY <1>1, <1>2, <1>4, <2>1 DEF ThreadFits, OwnerFits, HasBefore
<1>6. QuotaFits'
  BY <1>1, <1>2, WritersShrink
<1>7. \A u \in Thread : u # t => run[u].pc \notin {"body", "commit"}
  BY <1>2, OneOwner
<1>8. QED
  BY <1>1, <1>2, <1>3, <1>5, <1>6, <1>7, StoreStays, TypeFacts, AnsweredStored, CountersTyped

\* A call that ends without having changed the database; its locks are given
\* back, and a transaction it had is over.
LEMMA EndsStep ==
    ASSUME TurnsInv, NEW t \in Thread, EndTurn(t), UNCHANGED <<turnsDb, work, split>>,
           answered' \subseteq TurnKey, \A k \in answered' : Whole(turnsDb, k),
           turnCalls' \in 0 .. MaxTurnCalls, turnFaults' \in 0 .. MaxTurnFaults,
           \/ UNCHANGED <<lock, depth, txn>>
           \/ /\ run[t].pc \in {"begin", "body", "commit", "write"}
              /\ lock' = [lock EXCEPT ![ProcOf[t]] = NoThread]
              /\ \/ UNCHANGED <<depth, txn>>
                 \/ /\ run[t].pc \in {"body", "commit"}
                    /\ depth' = [depth EXCEPT ![ProcOf[t]] = 0] /\ txn' = NoProcess
    PROVE  TurnsInv'
<1>1. run' = [run EXCEPT ![t] = IdleTurn] /\ IdleTurn \in RunState /\ IdleTurn.pc = "idle"
  BY IdleFacts DEF EndTurn
<1>2. run'[t] = IdleTurn
  BY <1>1, TypeFacts
<1>3. /\ lock' \in [Process -> Thread \cup {NoThread}]
      /\ \A u \in Thread : u # t /\ lock[ProcOf[u]] = u => lock'[ProcOf[u]] = u
  BY TypeFacts, OneOwner
<1>4. /\ txn' \in Process \cup {NoProcess} /\ depth' \in [Process -> {0, 1}]
      /\ \/ UNCHANGED <<turnsDb, work, txn>>
         \/ \A u \in Thread : u # t => run[u].pc \notin {"body", "commit"}
  BY TypeFacts, OneOwner
<1>5. ThreadFits(t)'
  BY <1>1, <1>2 DEF ThreadFits
<1>6. QuotaFits'
  BY <1>1, WritersShrink
<1>7. QED
  BY <1>1, <1>3, <1>4, <1>5, <1>6, StoreStays, TypeFacts

LEMMA FaultTyped ==
    TurnsInv /\ TurnsFault => turnFaults' \in 0 .. MaxTurnFaults
  BY CountersTyped, TurnAssumption DEF TurnsFault

LEMMA EndingSteps ==
    ASSUME TurnsInv, NEW t \in Thread, BodyRefused(t) \/ BodyFails(t) \/ GivesUp(t)
    PROVE  TurnsInv'
<1>1. turnFaults' \in 0 .. MaxTurnFaults /\ turnCalls' = turnCalls /\ answered' = answered
  BY FaultTyped, CountersTyped DEF BodyRefused, BodyFails, GivesUp, Close
<1>2. CASE BodyRefused(t) \/ BodyFails(t)
  BY <1>1, <1>2, EndsStep, TypeFacts, AnsweredStored, CountersTyped DEF BodyRefused, BodyFails, Close, Undone, Ended
<1>3. CASE GivesUp(t)
  BY <1>1, <1>3, EndsStep, TypeFacts, AnsweredStored, CountersTyped DEF GivesUp
<1>4. QED
  BY <1>2, <1>3

\* The owner writes one part into its transaction, or finds it there.
LEMMA BodyStep ==
    ASSUME TurnsInv, NEW t \in Thread, Body(t)
    PROVE  TurnsInv'
<1> PICK k \in TurnKey, n \in 1 .. 4, part \in Each :
        k = run[t].key /\ n = run[t].at /\ part = Parts[n] /\ part = Part(t)
  BY TypeFacts DEF Body, ThreadFits, TurnsInv
<1>1. /\ run[t] \in RunState /\ run[t].pc = "body"
      /\ work \in Data /\ IsFiniteSet(work.mem)
      /\ OwnerFits(k, n) /\ lock[ProcOf[t]] = t /\ txn = ProcOf[t]
  BY TypeFacts DEF Body, ThreadFits, TurnsInv
<1>2. /\ UNCHANGED <<turnsDb, txn, lock, depth, answered, split, turnCalls, turnFaults>>
      /\ \/ Exists(work, k, part) /\ work' = work
         \/ /\ ~Exists(work, k, part) /\ ~Refused(work, part)
            /\ work' = Add(work, k, part)
  BY DEF Body, sync
<1>3. PICK r \in RunState :
          /\ run' = [run EXCEPT ![t] = r] /\ r.key = k
          /\ \/ n = 4 /\ r.pc = "commit" /\ r.at = 4
             \/ n < 4 /\ r.pc = "body" /\ r.at = n + 1
  <2>1. CASE LastPart(t)
    <3>1. n = 4 /\ run' = [run EXCEPT ![t] = [run[t] EXCEPT !.pc = "commit"]]
      BY <2>1, PartsFacts DEF Body, LastPart, Go
    <3>2. "commit" \in Places
      BY DEF Places
    <3>3. /\ [run[t] EXCEPT !.pc = "commit"] \in RunState
          /\ [run[t] EXCEPT !.pc = "commit"].pc = "commit"
          /\ [run[t] EXCEPT !.pc = "commit"].key = k
          /\ [run[t] EXCEPT !.pc = "commit"].at = 4
      BY <1>1, <3>1, <3>2, PlaceFacts
    <3>4. QED
      BY <3>1, <3>3
  <2>2. CASE ~LastPart(t)
    <3>1. n < 4 /\ run' = [run EXCEPT ![t] = [run[t] EXCEPT !.at = run[t].at + 1]]
      BY <1>1, <2>2, PartsFacts DEF Body, LastPart
    <3>2. /\ [run[t] EXCEPT !.at = run[t].at + 1] \in RunState
          /\ [run[t] EXCEPT !.at = run[t].at + 1].pc = "body"
          /\ [run[t] EXCEPT !.at = run[t].at + 1].key = k
          /\ [run[t] EXCEPT !.at = run[t].at + 1].at = n + 1
      BY <1>1, <3>1 DEF RunState
    <3>3. QED
      BY <3>1, <3>2
  <2>3. QED
    BY <2>1, <2>2
<1>4. /\ work' \in Data /\ IsFiniteSet(work'.mem)
      /\ \A k2 \in TurnKey, q \in Each :
            Has(work', k2, q) <=> Has(work, k2, q) \/ (k2 = k /\ q = part)
      /\ OneEach(work')
  <2>1. CASE Exists(work, k, part) /\ work' = work
    BY <1>1, <2>1, ExistsFacts DEF OwnerFits
  <2>2. CASE /\ ~Exists(work, k, part) /\ work' = Add(work, k, part)
    <3>1. part = "exchange" => ~Has(work, k, part)
      BY <1>1, <2>2, ExistsFacts
    <3>2. QED
      BY <1>1, <2>2, <3>1, AddFacts, AddCounts DEF OwnerFits
  <2>3. QED
    BY <1>2, <2>1, <2>2
<1>5. Cardinality(work'.mem) <= Quota \/ work'.mem = turnsDb'.mem
  <2>1. CASE work'.mem = work.mem
    BY <1>1, <1>2, <2>1 DEF OwnerFits
  <2>2. CASE part \in Memories /\ ~Refused(work, part) /\ work' = Add(work, k, part)
    <3>1. /\ Cardinality(work.mem) \in Nat /\ Cardinality(work'.mem) \in Nat
          /\ Cardinality(work'.mem) <= Cardinality(work.mem) + 1
      BY <1>1, <2>2, AddCounts
    <3>2. Cardinality(work.mem) < Quota /\ Quota \in Nat
      BY <2>2, <3>1, TurnAssumption DEF Refused
    <3>3. QED
      BY <3>1, <3>2
  <2>3. QED
    BY <1>1, <1>2, <2>1, <2>2, AddFacts
<1>6. HasBefore(work', k, n) /\ Has(work', k, part)
  <2>1. \A i \in 1 .. n - 1 : Parts[i] \in Each
    BY <1>1, PartsFacts
  <2>2. QED
    BY <1>1, <1>4, <2>1 DEF OwnerFits, HasBefore
<1>7. n < 4 => HasBefore(work', k, n + 1)
  <2>1. \A i \in 1 .. (n + 1) - 1 : i \in 1 .. n - 1 \/ i = n
    BY <1>1
  <2>2. QED
    BY <1>1, <1>6, <2>1 DEF HasBefore
<1>8. OwnerFits(k, r.at)'
  <2>1. (r.at = 4 /\ n = 4) \/ (r.at = n + 1 /\ n < 4)
    BY <1>3
  <2>2. HasBefore(work', k, r.at)
    BY <1>6, <1>7, <2>1
  <2>3. \A k2 \in TurnKey, q \in Each :
            /\ Has(turnsDb', k2, q) => Has(work', k2, q)
            /\ k2 # k /\ Has(work', k2, q) => Has(turnsDb', k2, q)
    BY <1>1, <1>2, <1>4 DEF OwnerFits
  <2>4. QED
    BY <1>4, <1>5, <2>2, <2>3 DEF OwnerFits
<1>9. run'[t] = r
  BY <1>3, TypeFacts
<1>10. n = 4 => Has(work', k, "exchange")
  BY <1>1, <1>6, PartsFacts
<1>11. ThreadFits(t)'
  BY <1>1, <1>2, <1>3, <1>8, <1>9, <1>10 DEF ThreadFits
<1>12. QuotaFits'
  BY <1>2, <1>3, WritersShrink
<1>13. \A u \in Thread : u # t => run[u].pc \notin {"body", "commit"}
  BY <1>1, OneOwner
<1>14. QED
  BY <1>2, <1>3, <1>4, <1>11, <1>12, <1>13, StoreStays, TypeFacts, AnsweredStored, CountersTyped

\* What a step may make of the committed database: it adds to one turn, which
\* is whole then or was given up to writes without a transaction.
LEMMA GrownData ==
    ASSUME TurnsInv, NEW k \in TurnKey, turnsDb' \in Data, IsFiniteSet(turnsDb'.mem),
           work' = work, split' = split,
           \A k2 \in TurnKey, q \in Each :
              /\ Has(turnsDb, k2, q) => Has(turnsDb', k2, q)
              /\ k2 # k /\ Has(turnsDb', k2, q) => Has(turnsDb, k2, q),
           k \in split \/ Whole(turnsDb', k),
           answered' = answered \/ (answered' = answered \cup {k} /\ Whole(turnsDb', k)),
           OneEach(turnsDb')
    PROVE  DataFits' /\ \A k2 \in answered' : Whole(turnsDb', k2)
<1>1. /\ turnsDb \in Data /\ work \in Data /\ IsFiniteSet(work.mem)
      /\ split \subseteq TurnKey /\ answered \subseteq TurnKey
      /\ OwnedTurnsWhole /\ AnsweredIsStored
  BY DEF TurnsInv, DataFits
<1>2. \A k2 \in TurnKey : /\ Whole(turnsDb, k2) => Whole(turnsDb', k2)
                          /\ k2 # k /\ Begun(turnsDb', k2) => Begun(turnsDb, k2)
  BY <1>1, WholeIsAll
<1>3. \A k2 \in answered' : Whole(turnsDb', k2)
  BY <1>1, <1>2 DEF AnsweredIsStored
<1>4. OwnedTurnsWhole'
  BY <1>1, <1>2 DEF OwnedTurnsWhole
<1>5. OneExchangePerTurn'
  BY DEF OneEach, OneExchangePerTurn
<1>6. QED
  BY <1>1, <1>3, <1>4, <1>5 DEF DataFits, AnsweredIsStored

\* The other processes' threads may still write what they have counted.
LEMMA CommitStep ==
    ASSUME TurnsInv, NEW t \in Thread, Commit(t)
    PROVE  TurnsInv'
<1> PICK k \in TurnKey : k = run[t].key
  BY DEF Commit, ThreadFits, TurnsInv
<1>1. /\ run[t].pc = "commit" /\ turnsDb' = work /\ work' = work /\ split' = split
      /\ txn' = NoProcess /\ depth' = [depth EXCEPT ![ProcOf[t]] = 0]
      /\ lock' = [lock EXCEPT ![ProcOf[t]] = NoThread]
      /\ run' = [run EXCEPT ![t] = IdleTurn] /\ IdleTurn \in RunState /\ IdleTurn.pc = "idle"
      /\ answered' = answered \cup {k} /\ UNCHANGED <<turnCalls, turnFaults>>
  BY IdleFacts DEF Commit, Close, EndTurn, Ended
<1>2. /\ lock[ProcOf[t]] = t /\ OwnerFits(k, 4) /\ Has(work, k, "exchange")
  BY <1>1 DEF TurnsInv, ThreadFits
<1>3. /\ \A k2 \in TurnKey, q \in Each :
            /\ Has(turnsDb, k2, q) => Has(turnsDb', k2, q)
            /\ k2 # k /\ Has(turnsDb', k2, q) => Has(turnsDb, k2, q)
      /\ Whole(turnsDb', k) /\ OneEach(turnsDb')
      /\ turnsDb' \in Data /\ IsFiniteSet(turnsDb'.mem)
  BY <1>1, <1>2, TypeFacts, WholeIsAll DEF OwnerFits
<1>4. DataFits'
  BY <1>1, <1>3, GrownData
<1>5. /\ \A u \in Thread : u # t => run[u].pc \notin {"body", "commit"}
      /\ \A u \in Thread : u # t /\ lock[ProcOf[u]] = u => lock'[ProcOf[u]] = u
  BY <1>1, OneOwner, TypeFacts
<1>6. /\ run' \in [Thread -> RunState] /\ run'[t] = IdleTurn
      /\ \A u \in Thread : u # t => run'[u] = run[u] /\ ThreadFits(u)'
  BY <1>1, <1>3, <1>5, OthersFit
<1>7. ThreadFits(t)'
  BY <1>1, <1>6 DEF ThreadFits
<1>8. TurnsTypeOK'
  <2>1. depth' \in [Process -> {0, 1}] /\ lock' \in [Process -> Thread \cup {NoThread}]
        /\ work' \in Data /\ answered' \subseteq TurnKey /\ split' \subseteq TurnKey
    BY <1>1, TypeFacts
  <2>2. run' \in [Thread -> [pc : Places, key : TurnKey \cup {NoTurnKey}, at : 1 .. Len(Parts)]]
    BY <1>6, PartsFacts DEF RunState
  <2>3. QED
    BY <1>1, <1>3, <2>1, <2>2, CountersTyped DEF TurnsTypeOK
<1>9. QuotaFits'
  <2>1. Writers' \in SUBSET Writers /\ ProcOf[t] \in Process /\ ProcOf[t] \notin Writers
    <3>1. \A u \in Thread : ProcOf[u] = ProcOf[t] => run[u].pc # "write"
      BY <1>1, OneOwner
    <3>2. QED
      BY <1>1, <1>6, <3>1, TypeFacts DEF Writers, Part
  <2>2. Cardinality(Writers') <= Cardinality(Writers) /\ Cardinality(Writers') \in Nat
    BY <2>1, WritersFinite, FS_Subset, FS_CardinalityType
  <2>3. Cardinality(Writers) <= Cardinality(Process) - 1
    <3>1. Writers \in SUBSET Process /\ Writers # Process
      BY <2>1 DEF Writers
    <3>2. Cardinality(Writers) # Cardinality(Process)
      BY <3>1, TurnAssumption, FS_Subset
    <3>3. QED
      BY <3>2, WritersFinite
  <2>4. /\ Cardinality(turnsDb'.mem) \in Nat /\ Cardinality(Writers) \in Nat
        /\ Cardinality(Process) \in Nat /\ Quota \in Nat
    BY <1>3, WritersFinite, FS_CardinalityType, TurnAssumption
  <2>5. Cardinality(turnsDb'.mem) <= Quota \/ turnsDb'.mem = turnsDb.mem
    BY <1>1, <1>2 DEF OwnerFits
  <2>6. Cardinality(turnsDb'.mem) + Cardinality(Writers') <= Quota + Cardinality(Process) - 1
    <3>1. CASE Cardinality(turnsDb'.mem) <= Quota
      BY <2>2, <2>3, <2>4, <3>1
    <3>2. CASE turnsDb'.mem = turnsDb.mem
      <4>1. Cardinality(turnsDb'.mem) + Cardinality(Writers) <= Quota + Cardinality(Process) - 1
        BY <3>2 DEF TurnsInv, QuotaFits
      <4>2. QED
        BY <2>2, <2>4, <4>1
    <3>3. QED
      BY <2>5, <3>1, <3>2
  <2>7. QED
    BY <2>6 DEF QuotaFits
<1>10. QED
  BY <1>4, <1>6, <1>7, <1>8, <1>9 DEF TurnsInv

\* A thread without a transaction that goes on to another place.
LEMMA SplitMoves ==
    ASSUME TurnsInv, NEW t \in Thread, NEW r \in RunState, run' = [run EXCEPT ![t] = r],
           run[t].pc \in {"part", "append"}, r.pc \in {"part", "append", "write"},
           r.key = run[t].key, HasBefore(turnsDb, r.key, r.at),
           r.pc = "append" => r.at = 4,
           \/ r.pc # "write" /\ lock' = lock
           \/ LockFree(t) /\ lock' = [lock EXCEPT ![ProcOf[t]] = t],
           UNCHANGED <<turnsDb, work, txn, depth, answered, split, turnCalls, turnFaults>>,
           QuotaFits'
    PROVE  TurnsInv'
<1>1. run'[t] = r
  BY TypeFacts
<1>2. run[t].key \in TurnKey /\ run[t].key \in split
  BY DEF TurnsInv, ThreadFits
<1>3. /\ lock' \in [Process -> Thread \cup {NoThread}] /\ (r.pc = "write" => lock'[ProcOf[t]] = t)
      /\ \A u \in Thread : u # t /\ lock[ProcOf[u]] = u => lock'[ProcOf[u]] = u
  BY TypeFacts, OneOwner
<1>4. ThreadFits(t)'
  BY <1>1, <1>2, <1>3 DEF ThreadFits, HasBefore
<1>5. QED
  BY <1>3, <1>4, StoreStays, TypeFacts, AnsweredStored, CountersTyped

\* The place after a part that was not the last one.
Onward(t) == [pc |-> "part", key |-> run[t].key, at |-> run[t].at + 1]

LEMMA OnwardFacts ==
    ASSUME TurnsInv, NEW t \in Thread, ~LastPart(t)
    PROVE  /\ Onward(t) \in RunState /\ Onward(t).pc = "part" /\ run[t].at < 4
           /\ Onward(t).key = run[t].key /\ Onward(t).at = run[t].at + 1
<1>1. run[t] \in RunState /\ run[t].at \in 1 .. 4 /\ run[t].at # 4
  BY TypeFacts, PartsFacts DEF LastPart
<1>2. QED
  BY <1>1 DEF RunState, Places, Onward

LEMMA AdvanceFacts ==
    ASSUME NEW t \in Thread, Advance(t), ~LastPart(t)
    PROVE  run' = [run EXCEPT ![t] = Onward(t)] /\ answered' = answered
  BY DEF Advance, Onward

LEMMA EnterStep ==
    ASSUME TurnsInv, NEW t \in Thread, Enter(t)
    PROVE  TurnsInv'
<1> PICK k \in TurnKey, n \in 1 .. 4, part \in Each :
        k = run[t].key /\ n = run[t].at /\ part = Parts[n] /\ part = Part(t)
  BY TypeFacts DEF Enter, ThreadFits, TurnsInv
<1>1. /\ run[t] \in RunState /\ run[t].pc = "part" /\ LockFree(t)
      /\ UNCHANGED <<turnsDb, work, txn, depth, split, turnCalls, turnFaults>>
      /\ HasBefore(turnsDb, k, n) /\ turnsDb \in Data
  BY TypeFacts DEF Enter, ThreadFits, TurnsInv
<1>2. CASE Exists(turnsDb, k, part) /\ Advance(t) /\ lock' = lock
  <2>1. Has(turnsDb, k, part)
    BY <1>1, <1>2, ExistsFacts
  <2>2. CASE LastPart(t)
    <3>1. n = 4 /\ part = "exchange" /\ EndTurn(t) /\ answered' = answered \cup {k}
      BY <1>2, <2>2, PartsFacts DEF LastPart, Advance
    <3>2. Whole(turnsDb, k)
      BY <1>1, <2>1, <3>1, WholeIsAll
    <3>3. QED
      BY <1>1, <1>2, <3>1, <3>2, EndsStep, TypeFacts, AnsweredStored, CountersTyped
  <2>3. CASE ~LastPart(t)
    <3>1. PICK r \in RunState : /\ r.pc = "part" /\ r.key = k /\ r.at = n + 1 /\ n < 4
                               /\ run' = [run EXCEPT ![t] = r] /\ answered' = answered
      BY <1>2, <2>3, OnwardFacts, AdvanceFacts
    <3>3. HasBefore(turnsDb, k, n + 1)
      <4>1. \A i \in 1 .. (n + 1) - 1 : i \in 1 .. n - 1 \/ i = n
        OBVIOUS
      <4>2. QED
        BY <1>1, <2>1, <4>1 DEF HasBefore
    <3>4. QuotaFits'
      BY <1>1, <3>1, WritersShrink
    <3>5. QED
      BY <1>1, <1>2, <3>1, <3>3, <3>4, SplitMoves
  <2>4. QED
    BY <2>2, <2>3
<1>3. CASE EndTurn(t) /\ UNCHANGED <<lock, answered>>
  BY <1>1, <1>3, EndsStep, TypeFacts, AnsweredStored, CountersTyped
<1>4. CASE part = "exchange" /\ Go(t, "append") /\ UNCHANGED <<lock, answered>>
  <2> DEFINE r == [run[t] EXCEPT !.pc = "append"]
  <2>1. run' = [run EXCEPT ![t] = r] /\ n = 4
    BY <1>4, PartsFacts DEF Go
  <2>2. r \in RunState /\ r.pc = "append" /\ r.key = k /\ r.at = n
    BY <1>1, PlaceFacts DEF Places
  <2> HIDE DEF r
  <2>3. QuotaFits'
    BY <1>1, <2>1, <2>2, WritersShrink
  <2>4. QED
    BY <1>1, <1>4, <2>1, <2>2, <2>3, SplitMoves
<1>5. CASE /\ part # "exchange" /\ ~Refused(turnsDb, part) /\ Go(t, "write")
           /\ lock' = [lock EXCEPT ![ProcOf[t]] = t] /\ answered' = answered
  <2> DEFINE r == [run[t] EXCEPT !.pc = "write"]
  <2>1. run' = [run EXCEPT ![t] = r]
    BY <1>5 DEF Go
  <2>2. r \in RunState /\ r.pc = "write" /\ r.key = k /\ r.at = n
    BY <1>1, PlaceFacts DEF Places
  <2> HIDE DEF r
  <2>3. QuotaFits'
    <3>1. CASE part \notin Memories
      BY <1>1, <2>1, <2>2, <3>1, WritersShrink
    <3>2. CASE part \in Memories
      <4>1. Cardinality(turnsDb.mem) < Quota /\ Cardinality(turnsDb.mem) \in Nat /\ Quota \in Nat
        BY <1>5, <3>2, TypeFacts, TurnAssumption, FS_CardinalityType DEF Refused
      <4>2. Writers' \in SUBSET Process
        BY DEF Writers
      <4>3. /\ Cardinality(Writers') \in Nat /\ Cardinality(Process) \in Nat
            /\ Cardinality(Writers') <= Cardinality(Process)
        BY <4>2, TurnAssumption, FS_Subset, FS_CardinalityType
      <4>4. Cardinality(turnsDb.mem) + Cardinality(Writers') <= Quota + Cardinality(Process) - 1
        BY <4>1, <4>3
      <4>5. QED
        BY <1>1, <4>4 DEF QuotaFits
    <3>3. QED
      BY <3>1, <3>2
  <2>4. QED
    BY <1>1, <1>5, <2>1, <2>2, <2>3, SplitMoves
<1>6. QED
  BY <1>2, <1>3, <1>4, <1>5 DEF Enter

LEMMA HoldStep ==
    ASSUME TurnsInv, NEW t \in Thread, Hold(t)
    PROVE  TurnsInv'
<1> DEFINE r == [run[t] EXCEPT !.pc = "write"]
<1>1. /\ run[t] \in RunState /\ run[t].pc = "append" /\ run[t].at = 4 /\ LockFree(t)
      /\ HasBefore(turnsDb, run[t].key, 4)
  BY TypeFacts DEF Hold, ThreadFits, TurnsInv
<1>2. /\ run' = [run EXCEPT ![t] = r] /\ lock' = [lock EXCEPT ![ProcOf[t]] = t]
      /\ UNCHANGED <<turnsDb, work, txn, depth, answered, split, turnCalls, turnFaults>>
  BY DEF Hold, Go
<1>3. r \in RunState /\ r.pc = "write" /\ r.key = run[t].key /\ r.at = 4
  BY <1>1, PlaceFacts DEF Places
<1> HIDE DEF r
<1>4. QuotaFits'
  BY <1>2, <1>3, PartsFacts, WritersShrink
<1>5. QED
  BY <1>1, <1>2, <1>3, <1>4, SplitMoves

\* A nested method writes its part in a transaction of its own.
LEMMA WriteStep ==
    ASSUME TurnsInv, NEW t \in Thread, Write(t)
    PROVE  TurnsInv'
<1> PICK k \in TurnKey, n \in 1 .. 4, part \in Each :
        k = run[t].key /\ n = run[t].at /\ part = Parts[n] /\ part = Part(t)
  BY TypeFacts DEF Write, ThreadFits, TurnsInv
<1>1. /\ run[t] \in RunState /\ run[t].pc = "write" /\ txn = NoProcess
      /\ lock' = [lock EXCEPT ![ProcOf[t]] = NoThread] /\ lock[ProcOf[t]] = t
      /\ UNCHANGED <<work, txn, depth, split, turnCalls, turnFaults>>
      /\ HasBefore(turnsDb, k, n) /\ turnsDb \in Data /\ IsFiniteSet(turnsDb.mem)
      /\ k \in split
  BY TypeFacts DEF Write, CanBegin, ThreadFits, TurnsInv
<1>2. CASE EndTurn(t) /\ UNCHANGED <<turnsDb, answered>>
  BY <1>1, <1>2, EndsStep, TypeFacts, AnsweredStored, CountersTyped
<1>3. CASE ~Exists(turnsDb, k, part) /\ turnsDb' = Add(turnsDb, k, part) /\ Advance(t)
  <2>1. /\ turnsDb' \in Data /\ IsFiniteSet(turnsDb'.mem)
        /\ \A k2 \in TurnKey, q \in Each :
              /\ Has(turnsDb, k2, q) => Has(turnsDb', k2, q)
              /\ k2 # k /\ Has(turnsDb', k2, q) => Has(turnsDb, k2, q)
        /\ Has(turnsDb', k, part)
    BY <1>1, <1>3, AddFacts, AddCounts
  <2>2. OneEach(turnsDb')
    <3>1. OneEach(turnsDb)
      BY DEF TurnsInv, DataFits, OneExchangePerTurn, OneEach
    <3>2. part = "exchange" => ~Has(turnsDb, k, part)
      BY <1>1, <1>3, ExistsFacts
    <3>3. QED
      BY <1>1, <1>3, <3>1, <3>2, AddFacts
  <2>3. HasBefore(turnsDb', k, n) /\ (n < 4 => HasBefore(turnsDb', k, n + 1))
    <3>1. \A i \in 1 .. n - 1 : Parts[i] \in Each
      BY PartsFacts
    <3>2. HasBefore(turnsDb', k, n)
      BY <1>1, <2>1, <3>1 DEF HasBefore
    <3>3. \A i \in 1 .. (n + 1) - 1 : i \in 1 .. n - 1 \/ i = n
      OBVIOUS
    <3>4. QED
      BY <2>1, <3>2, <3>3 DEF HasBefore
  <2>4. PICK r \in RunState :
            /\ run' = [run EXCEPT ![t] = r]
            /\ \/ r.pc = "idle" /\ answered' = answered \cup {k} /\ Whole(turnsDb', k)
               \/ /\ r.pc = "part" /\ r.key = k /\ HasBefore(turnsDb', k, r.at)
                  /\ answered' = answered
    <3>1. CASE LastPart(t)
      <4>1. n = 4 /\ part = "exchange" /\ EndTurn(t) /\ answered' = answered \cup {k}
        BY <1>3, <3>1, PartsFacts DEF LastPart, Advance
      <4>2. Whole(turnsDb', k)
        BY <2>1, <2>3, <4>1, WholeIsAll
      <4>3. QED
        BY <4>1, <4>2, IdleFacts DEF EndTurn
    <3>2. CASE ~LastPart(t)
      BY <1>3, <2>3, <3>2, OnwardFacts, AdvanceFacts
    <3>3. QED
      BY <3>1, <3>2
  <2>5. DataFits'
    BY <1>1, <2>1, <2>2, <2>4, GrownData
  <2>6. /\ \A u \in Thread : u # t => run[u].pc \notin {"body", "commit"}
        /\ \A u \in Thread : u # t /\ lock[ProcOf[u]] = u => lock'[ProcOf[u]] = u
    BY <1>1, OneOwner, TypeFacts
  <2>7. /\ run' \in [Thread -> RunState] /\ run'[t] = r
        /\ \A u \in Thread : u # t => run'[u] = run[u] /\ ThreadFits(u)'
    BY <1>1, <2>1, <2>4, <2>6, OthersFit
  <2>8. ThreadFits(t)'
    BY <1>1, <2>4, <2>7 DEF ThreadFits
  <2>9. TurnsTypeOK'
    <3>1. /\ txn' \in Process \cup {NoProcess} /\ depth' \in [Process -> {0, 1}]
          /\ lock' \in [Process -> Thread \cup {NoThread}]
          /\ work' \in Data /\ answered' \subseteq TurnKey /\ split' \subseteq TurnKey
      BY <1>1, <2>4, TypeFacts
    <3>2. run' \in [Thread -> [pc : Places, key : TurnKey \cup {NoTurnKey}, at : 1 .. Len(Parts)]]
      BY <2>7, PartsFacts DEF RunState
    <3>3. QED
      BY <1>1, <2>1, <3>1, <3>2, CountersTyped DEF TurnsTypeOK
  <2>10. QuotaFits'
    <3>1. Writers' \in SUBSET Writers
      BY <2>4, <2>7 DEF Writers, Part
    <3>2. /\ Cardinality(Writers) \in Nat /\ Cardinality(Writers') \in Nat
          /\ Cardinality(Writers') <= Cardinality(Writers)
          /\ Cardinality(Process) \in Nat /\ Quota \in Nat
          /\ Cardinality(turnsDb.mem) \in Nat /\ Cardinality(turnsDb'.mem) \in Nat
          /\ Cardinality(turnsDb.mem) + Cardinality(Writers) <= Quota + Cardinality(Process) - 1
      BY <1>1, <2>1, <3>1, WritersFinite, TurnAssumption, FS_Subset, FS_CardinalityType
         DEF TurnsInv, QuotaFits
    <3>3. CASE part \notin Memories
      <4>1. turnsDb'.mem = turnsDb.mem
        BY <1>1, <1>3, <3>3, AddFacts
      <4>2. Cardinality(turnsDb'.mem) + Cardinality(Writers') <= Quota + Cardinality(Process) - 1
        BY <3>2, <4>1
      <4>3. QED
        BY <4>2 DEF QuotaFits
    <3>4. CASE part \in Memories
      <4>1. ProcOf[t] \in Writers /\ ProcOf[t] \notin Writers'
        <5>1. \A u \in Thread : u # t /\ ProcOf[u] = ProcOf[t] => run[u].pc # "write"
          BY <1>1, OneOwner
        <5>2. QED
          BY <1>1, <2>4, <2>7, <3>4, <5>1, TypeFacts DEF Writers, Part
      <4>2. Cardinality(Writers') <= Cardinality(Writers) - 1
        <5>1. Cardinality(Writers') # Cardinality(Writers)
          BY <3>1, <4>1, WritersFinite, FS_Subset
        <5>2. QED
          BY <3>2, <5>1
      <4>3. Cardinality(turnsDb'.mem) <= Cardinality(turnsDb.mem) + 1
        BY <1>1, <1>3, AddCounts
      <4>4. Cardinality(turnsDb'.mem) + Cardinality(Writers') <= Quota + Cardinality(Process) - 1
        BY <3>2, <4>2, <4>3
      <4>5. QED
        BY <4>4 DEF QuotaFits
    <3>5. QED
      BY <3>3, <3>4
  <2>11. QED
    BY <2>5, <2>7, <2>8, <2>9, <2>10 DEF TurnsInv
<1>4. QED
  BY <1>2, <1>3 DEF Write, Clashes

\* A process dies with all its threads, its lock and its transaction.
LEMMA ProcessCrashStep ==
    ASSUME TurnsInv, NEW p \in Process, ProcessCrash(p)
    PROVE  TurnsInv'
<1>1. /\ run' = [t \in Thread |-> IF ProcOf[t] = p THEN IdleTurn ELSE run[t]]
      /\ lock' = [lock EXCEPT ![p] = NoThread] /\ depth' = [depth EXCEPT ![p] = 0]
      /\ txn' = (IF txn = p THEN NoProcess ELSE txn)
      /\ UNCHANGED <<turnsDb, work, answered, split, turnCalls>>
      /\ turnFaults' \in 0 .. MaxTurnFaults
  BY FaultTyped DEF ProcessCrash
<1>2. PICK someone \in Thread : ProcOf[someone] = p
  BY DEF ProcessCrash
<1>3. /\ run \in [Thread -> RunState] /\ txn \in Process \cup {NoProcess}
      /\ lock \in [Process -> Thread \cup {NoThread}] /\ depth \in [Process -> {0, 1}]
      /\ turnsDb \in Data /\ IsFiniteSet(turnsDb.mem)
  BY <1>2, TypeFacts
<1>4. /\ run' \in [Thread -> RunState]
      /\ \A t \in Thread : IF ProcOf[t] = p THEN run'[t] = IdleTurn ELSE run'[t] = run[t]
  BY <1>1, <1>3, IdleFacts
<1>5. TurnsTypeOK'
  BY <1>1, <1>3, <1>4, PartsFacts DEF TurnsInv, TurnsTypeOK, RunState
<1>6. DataFits'
  BY <1>1 DEF TurnsInv, DataFits, OwnedTurnsWhole, AnsweredIsStored, OneExchangePerTurn
<1>7. QuotaFits'
  <2>1. Writers' \in SUBSET Writers
    BY <1>4, IdleFacts DEF Writers, Part
  <2>2. /\ Cardinality(Writers) \in Nat /\ Cardinality(Writers') \in Nat
        /\ Cardinality(Writers') <= Cardinality(Writers)
        /\ Cardinality(Process) \in Nat /\ Quota \in Nat /\ Cardinality(turnsDb.mem) \in Nat
        /\ Cardinality(turnsDb.mem) + Cardinality(Writers) <= Quota + Cardinality(Process) - 1
    BY <1>3, <2>1, WritersFinite, TurnAssumption, FS_Subset, FS_CardinalityType
       DEF TurnsInv, QuotaFits
  <2>3. Cardinality(turnsDb.mem) + Cardinality(Writers') <= Quota + Cardinality(Process) - 1
    BY <2>2
  <2>4. QED
    BY <1>1, <2>3 DEF QuotaFits
<1>8. ASSUME NEW t \in Thread PROVE ThreadFits(t)'
  <2>1. CASE ProcOf[t] = p
    BY <1>4, <2>1, IdleFacts DEF ThreadFits
  <2>2. CASE ProcOf[t] # p
    <3>1. run'[t] = run[t] /\ ProcOf[t] \in Process /\ lock'[ProcOf[t]] = lock[ProcOf[t]]
          /\ (txn = ProcOf[t] => txn' = txn)
      BY <1>1, <1>4, <2>2, TypeFacts
    <3>2. ThreadFits(t)
      BY DEF TurnsInv
    <3>3. QED
      BY <1>1, <3>1, <3>2 DEF ThreadFits, OwnerFits
  <2>3. QED
    BY <2>1, <2>2
<1>9. QED
  BY <1>5, <1>6, <1>7, <1>8 DEF TurnsInv

LEMMA NextTurnsInv == TurnsInv /\ [TurnsNext]_turnsVars => TurnsInv'
<1> SUFFICES ASSUME TurnsInv, [TurnsNext]_turnsVars PROVE TurnsInv'
  OBVIOUS
<1>1. ASSUME NEW t \in Thread,
             (\E k \in TurnKey : TurnCall(t, k)) \/ Work(t) \/ BodyFails(t) \/ GivesUp(t)
      PROVE  TurnsInv'
  BY <1>1, TurnCallStep, TakeLockStep, BeginTurnStep, BodyStep, CommitStep, EnterStep, HoldStep,
     WriteStep, EndingSteps DEF Work
<1>2. ASSUME NEW p \in Process, ProcessCrash(p) PROVE TurnsInv'
  BY <1>2, ProcessCrashStep
<1>3. CASE UNCHANGED turnsVars
  BY <1>3 DEF turnsVars, sync, TurnsInv, TurnsTypeOK, DataFits, OwnedTurnsWhole, AnsweredIsStored,
              OneExchangePerTurn, QuotaFits, Writers, Part, ThreadFits, OwnerFits
<1>4. QED
  BY <1>1, <1>2, <1>3 DEF TurnsNext

LEMMA AlwaysTurnsInv == TurnsSpec => []TurnsInv
  BY InitTurnsInv, NextTurnsInv, PTL DEF TurnsSpec

(***************************************************************************)
(* The store, the locks and the calls of ingest_agent_turn have their      *)
(* types.                                                                  *)
(***************************************************************************)
THEOREM TurnsTyped == TurnsSpec => []TurnsTypeOK
  BY AlwaysTurnsInv, PTL DEF TurnsInv

(***************************************************************************)
(* For any number of processes and threads, whatever fails or crashes: a   *)
(* turn is whole or absent unless one of its calls ran without a           *)
(* transaction, an answered turn is whole, a turn has one place in the     *)
(* exchange chain, and max_memories is overshot by one memory for each     *)
(* process but one at most (_atomic_write, ingest_agent_turn).             *)
(***************************************************************************)
THEOREM TurnsAlwaysHold == TurnsSpec => []TurnsHold
<1>1. TurnsInv => TurnsHold
  <2> SUFFICES ASSUME TurnsInv PROVE TurnsHold
    OBVIOUS
  <2>1. OwnedTurnsWhole /\ AnsweredIsStored /\ OneExchangePerTurn
    BY DEF TurnsInv, DataFits
  <2>2. QuotaOvershoot
    <3>1. /\ Cardinality(turnsDb.mem) \in Nat /\ Cardinality(Writers) \in Nat
          /\ Cardinality(Process) \in Nat /\ Quota \in Nat
      BY WritersFinite, TurnAssumption, FS_CardinalityType DEF TurnsInv, DataFits
    <3>2. Cardinality(turnsDb.mem) + Cardinality(Writers) <= Quota + Cardinality(Process) - 1
      BY DEF TurnsInv, QuotaFits
    <3>3. Cardinality(turnsDb.mem) <= Quota + Cardinality(Process) - 1
      BY <3>1, <3>2
    <3>4. QED
      BY <3>3 DEF QuotaOvershoot
  <2>3. QED
    BY <2>1, <2>2 DEF TurnsHold
<1>2. QED
  BY <1>1, AlwaysTurnsInv, PTL

-----------------------------------------------------------------------------
(* TelemetryOutbox *)

OutboxTypes ==
    /\ deployment \in Deployment
    /\ delivery \in [Delivery -> Unsettled \cup OutboxTerminal \cup {"none"}]
    /\ deliveryAttempts \in [Delivery -> Nat]
    /\ outboxOver \subseteq {r \in Delivery : delivery[r] = "in_flight"}
    /\ outboxBatch \in [OutboxWorker -> SUBSET OutboxEvent]
    /\ current \in [OutboxWorker -> OutboxEvent \cup {NoOutboxEvent}]
    /\ outboxStage \in [OutboxWorker -> {"idle", "queued", "delivered", "failed", "failing"}]
    /\ seen \in [OutboxWorker -> Nat] /\ taken \in [Delivery -> Nat]
    /\ calls \in [OutboxEvent -> Nat] /\ outboxFaults \in Nat /\ outlasted \subseteq Delivery

\* What a worker of each kind may be at.
WorkersFit ==
    \A w \in OutboxWorker :
        /\ outboxStage[w] = "idle" <=> current[w] = NoOutboxEvent
        /\ outboxStage[w] = "queued" => Role[w] = "bridge"
        /\ Role[w] = "bridge" /\ outboxStage[w] # "idle" => outboxBatch[w] = {}
        /\ Role[w] = "bridge" => \A e1, e2 \in outboxBatch[w] : e1 = e2

\* A worker has the claim of a delivery until it lets it go.
Working(w, e) == current[w] = e /\ outboxStage[w] # "queued"
HasClaim(w, r) == ServesTarget(w) = r[2] /\ (r[1] \in outboxBatch[w] \/ Working(w, r[1]))

\* No two have one that nobody outlasted, and it is the one in flight.
ClaimsExclusive ==
    \A r \in Delivery \ outlasted :
        /\ \A w \in OutboxWorker : HasClaim(w, r) =>
              /\ delivery[r] = "in_flight" /\ r \notin outboxOver
              /\ ~ (r[1] \in outboxBatch[w] /\ Working(w, r[1]))
        /\ \A w, v \in OutboxWorker : HasClaim(w, r) /\ HasClaim(v, r) => w = v

\* Deliveries that may still reach the destination: those to be settled, but
\* for one that a worker is about to acknowledge.
Accepting(r) == \E w \in OutboxWorker : ServesTarget(w) = r[2] /\ current[w] = r[1] /\ outboxStage[w] = "delivered"
Open(r) == delivery[r] \in Unsettled /\ ~ Accepting(r)

\* Nothing is delivered that nobody called enqueue for.
EventsCalled ==
    /\ \A r \in Delivery : delivery[r] # "none" => calls[r[1]] >= 1
    /\ \A w \in OutboxWorker, e \in OutboxEvent : e \in outboxBatch[w] \cup {current[w]} => calls[e] >= 1

\* Bridge processes that have an event before them, each after a call of its own.
Bridging(e) == {w \in OutboxWorker : /\ Role[w] = "bridge"
                                     /\ e \in outboxBatch[w] \/ (current[w] = e /\ outboxStage[w] = "queued")}

TicketsCover ==
    \A e \in OutboxEvent :
        /\ taken[<<e, "observer">>] <= 1 /\ taken[<<e, "observer">>] <= calls[e]
        /\ taken[<<e, "cortex">>] + Cardinality(Bridging(e)) <= calls[e]
        /\ <<e, "integrity_sdk">> \notin outlasted =>
              /\ taken[<<e, "integrity_sdk">>] <= calls[e] + outboxFaults
              /\ Open(<<e, "integrity_sdk">>) => taken[<<e, "integrity_sdk">>] + 1 <= calls[e] + outboxFaults

OutboxInv == OutboxTypes /\ WorkersFit /\ ClaimsExclusive /\ EventsCalled /\ TicketsCover

LEMMA Kinds ==
  ASSUME OutboxTypes, NEW w \in OutboxWorker
  PROVE  /\ Role[w] \in {"drain", "consumer", "bridge"}
         /\ ServesTarget(w) \in Destination
         /\ ServesTarget(w) = "observer" <=> Role[w] = "drain"
         /\ ServesTarget(w) = "integrity_sdk" <=> Role[w] = "consumer"
         /\ ServesTarget(w) = "cortex" <=> Role[w] = "bridge"
<1>1. Role[w] \in {"drain", "consumer", "bridge"}
  BY OutboxAssumption DEF OutboxTypes, Role
<1>2. QED
  BY <1>1 DEF ServesTarget, ServedBy, Destination

LEMMA Rows ==
  /\ \A e \in OutboxEvent, d \in Destination : <<e, d>> \in Delivery
  /\ \A r \in Delivery : r[1] \in OutboxEvent /\ r[2] \in Destination /\ r = <<r[1], r[2]>>
BY DEF Delivery

LEMMA WorkersRow ==
  ASSUME OutboxTypes, NEW w \in OutboxWorker, NEW e \in OutboxEvent
  PROVE  Row(w, e) \in Delivery /\ Row(w, e)[1] = e /\ Row(w, e)[2] = ServesTarget(w)
BY Kinds, Rows DEF Row

\* A worker that has an event before it: the event, and the row it is at.
LEMMA AtEvent ==
  ASSUME OutboxTypes, WorkersFit, NEW w \in OutboxWorker, outboxStage[w] # "idle"
  PROVE  current[w] \in OutboxEvent /\ Row(w, current[w]) \in Delivery
BY WorkersRow DEF OutboxTypes, WorkersFit

\* Who has a claim has the delivery in flight, alone, unless it was outlasted.
LEMMA Holder ==
  ASSUME OutboxTypes, WorkersFit, ClaimsExclusive, NEW w \in OutboxWorker, outboxStage[w] \in {"delivered", "failed", "failing"},
         Row(w, current[w]) \notin outlasted
  PROVE  /\ HasClaim(w, Row(w, current[w]))
         /\ delivery[Row(w, current[w])] = "in_flight"
         /\ current[w] \notin outboxBatch[w]
<1>1. /\ current[w] \in OutboxEvent /\ Row(w, current[w]) \in Delivery
      /\ Row(w, current[w])[1] = current[w] /\ Row(w, current[w])[2] = ServesTarget(w)
  BY AtEvent, WorkersRow
<1>2. HasClaim(w, Row(w, current[w]))
  BY <1>1 DEF HasClaim, Working
<1>3. QED
  BY <1>1, <1>2 DEF ClaimsExclusive, Working

-----------------------------------------------------------------------------
(* What is preserved whatever the step is *)

\* Claims let go: what is still claimed is in flight as before.
LEMMA ClaimsLetGo ==
  ASSUME OutboxInv, deployment' = deployment, outlasted \subseteq outlasted',
         \A r \in Delivery \ outlasted', w \in OutboxWorker : HasClaim(w, r)' =>
            /\ HasClaim(w, r)
            /\ delivery'[r] = "in_flight" /\ r \notin outboxOver'
            /\ ~ (r[1] \in outboxBatch'[w] /\ Working(w, r[1])')
  PROVE  ClaimsExclusive'
BY DEF OutboxInv, ClaimsExclusive

\* Rows without a claim of their own: an event that is waited for stays so.
LEMMA CallsOnly ==
  ASSUME OutboxInv, OutboxTypes',
         \A e \in OutboxEvent : calls'[e] >= calls[e],
         \A r \in Delivery : delivery'[r] # "none" => delivery[r] # "none" \/ calls'[r[1]] >= 1,
         \A w \in OutboxWorker, e \in OutboxEvent :
            e \in outboxBatch'[w] \cup {current'[w]} =>
               \/ e \in outboxBatch[w] \cup {current[w]}
               \/ calls'[e] >= 1
  PROVE  EventsCalled'
<1>1. \A e \in OutboxEvent : calls[e] \in Nat /\ calls'[e] \in Nat
  BY DEF OutboxInv, OutboxTypes
<1>2. QED
  BY <1>1, Rows DEF OutboxInv, EventsCalled

\* The observer: the drain takes an event at most once, and one somebody queued.
ObserverFits(e) == taken[<<e, "observer">>] <= 1 /\ taken[<<e, "observer">>] <= calls[e]

\* The store: each bridge that still has the event counts.
CortexFits(e) == taken[<<e, "cortex">>] + Cardinality(Bridging(e)) <= calls[e]

\* The Oracle: what is open may reach it once more.
OracleFits(e) ==
    <<e, "integrity_sdk">> \notin outlasted =>
        /\ taken[<<e, "integrity_sdk">>] <= calls[e] + outboxFaults
        /\ Open(<<e, "integrity_sdk">>) => taken[<<e, "integrity_sdk">>] + 1 <= calls[e] + outboxFaults

LEMMA CoverParts ==
  /\ TicketsCover <=> \A e \in OutboxEvent : ObserverFits(e) /\ CortexFits(e) /\ OracleFits(e)
  /\ TicketsCover' <=> \A e \in OutboxEvent : ObserverFits(e)' /\ CortexFits(e)' /\ OracleFits(e)'
BY DEF TicketsCover, ObserverFits, CortexFits, OracleFits

LEMMA Numbers ==
  ASSUME OutboxTypes, NEW e \in OutboxEvent, NEW d \in Destination
  PROVE  taken[<<e, d>>] \in Nat /\ calls[e] \in Nat /\ outboxFaults \in Nat
BY Rows DEF OutboxTypes

LEMMA NumbersAfter ==
  ASSUME OutboxTypes', NEW e \in OutboxEvent, NEW d \in Destination
  PROVE  taken'[<<e, d>>] \in Nat /\ calls'[e] \in Nat /\ outboxFaults' \in Nat
BY Rows DEF OutboxTypes

LEMMA BridgesFinite ==
  ASSUME NEW e
  PROVE  /\ IsFiniteSet(Bridging(e)) /\ Cardinality(Bridging(e)) \in Nat
         /\ IsFiniteSet(Bridging(e)') /\ Cardinality(Bridging(e)') \in Nat
<1>1. Bridging(e) \subseteq OutboxWorker /\ Bridging(e)' \subseteq OutboxWorker
  BY DEF Bridging
<1>2. QED
  BY <1>1, OutboxAssumption, FS_Subset, FS_CardinalityType

LEMMA CortexStays ==
  ASSUME OutboxTypes, OutboxTypes', NEW e \in OutboxEvent, CortexFits(e),
         taken'[<<e, "cortex">>] = taken[<<e, "cortex">>], calls'[e] >= calls[e],
         Bridging(e)' \subseteq Bridging(e)
  PROVE  CortexFits(e)'
<1>a. /\ taken[<<e, "cortex">>] \in Nat /\ taken'[<<e, "cortex">>] \in Nat
      /\ calls[e] \in Nat /\ calls'[e] \in Nat /\ outboxFaults \in Nat /\ outboxFaults' \in Nat
  BY Numbers, NumbersAfter DEF Destination
<1>b. /\ IsFiniteSet(Bridging(e)) /\ Cardinality(Bridging(e)) \in Nat
      /\ IsFiniteSet(Bridging(e)') /\ Cardinality(Bridging(e)') \in Nat
  BY BridgesFinite
<1>1. Cardinality(Bridging(e)') <= Cardinality(Bridging(e))
  BY <1>b, FS_Subset
<1>2. QED
  BY <1>1, <1>a, <1>b DEF CortexFits

LEMMA CortexServed ==
  ASSUME OutboxTypes, OutboxTypes', NEW e \in OutboxEvent, CortexFits(e), NEW w \in Bridging(e),
         taken'[<<e, "cortex">>] = taken[<<e, "cortex">>] + 1, calls'[e] = calls[e],
         Bridging(e)' \subseteq Bridging(e) \ {w}
  PROVE  CortexFits(e)'
<1>a. /\ taken[<<e, "cortex">>] \in Nat /\ taken'[<<e, "cortex">>] \in Nat
      /\ calls[e] \in Nat /\ calls'[e] \in Nat /\ outboxFaults \in Nat /\ outboxFaults' \in Nat
  BY Numbers, NumbersAfter DEF Destination
<1>b. /\ IsFiniteSet(Bridging(e)) /\ Cardinality(Bridging(e)) \in Nat
      /\ IsFiniteSet(Bridging(e)') /\ Cardinality(Bridging(e)') \in Nat
  BY BridgesFinite
<1>1. Cardinality(Bridging(e) \ {w}) = Cardinality(Bridging(e)) - 1
  BY <1>b, FS_RemoveElement
<1>2. Cardinality(Bridging(e)') <= Cardinality(Bridging(e) \ {w})
  BY <1>b, FS_Subset, FS_RemoveElement
<1>3. QED
  BY <1>1, <1>2, <1>a, <1>b DEF CortexFits

LEMMA CortexCalled ==
  ASSUME OutboxTypes, OutboxTypes', NEW e \in OutboxEvent, CortexFits(e), NEW w,
         calls'[e] = calls[e] + 1,
         \/ /\ taken'[<<e, "cortex">>] = taken[<<e, "cortex">>]
            /\ Bridging(e)' \subseteq Bridging(e) \cup {w}
         \/ /\ taken'[<<e, "cortex">>] = taken[<<e, "cortex">>] + 1
            /\ Bridging(e)' \subseteq Bridging(e)
  PROVE  CortexFits(e)'
<1>a. /\ taken[<<e, "cortex">>] \in Nat /\ taken'[<<e, "cortex">>] \in Nat
      /\ calls[e] \in Nat /\ calls'[e] \in Nat /\ outboxFaults \in Nat /\ outboxFaults' \in Nat
  BY Numbers, NumbersAfter DEF Destination
<1>b. /\ IsFiniteSet(Bridging(e)) /\ Cardinality(Bridging(e)) \in Nat
      /\ IsFiniteSet(Bridging(e)') /\ Cardinality(Bridging(e)') \in Nat
  BY BridgesFinite
<1>1. PICK B : B = Bridging(e)
  OBVIOUS
<1>2. IsFiniteSet(B \cup {w}) /\ Cardinality(B \cup {w}) <= Cardinality(B) + 1
  <2>1. IsFiniteSet(B) /\ Cardinality(B) \in Nat
    BY <1>1, <1>b
  <2>2. /\ IsFiniteSet(B \cup {w})
        /\ \/ Cardinality(B \cup {w}) = Cardinality(B)
           \/ Cardinality(B \cup {w}) = Cardinality(B) + 1
    BY <2>1, FS_AddElement
  <2>3. QED
    BY <2>1, <2>2
<1>3. Bridging(e)' \subseteq Bridging(e) \cup {w} => Cardinality(Bridging(e)') <= Cardinality(Bridging(e) \cup {w})
  BY <1>1, <1>2, FS_Subset
<1>4. Bridging(e)' \subseteq Bridging(e) => Cardinality(Bridging(e)') <= Cardinality(Bridging(e))
  BY <1>b, FS_Subset
<1>5. Cardinality(Bridging(e) \cup {w}) \in Nat
  BY <1>1, <1>2, FS_CardinalityType
<1>6. QED
  BY <1>1, <1>2, <1>3, <1>4, <1>5, <1>a, <1>b DEF CortexFits

\* The Oracle is not reached by this step.
LEMMA OracleStays ==
  ASSUME OutboxTypes, OutboxTypes', NEW e \in OutboxEvent, OracleFits(e),
         outlasted \subseteq outlasted',
         taken'[<<e, "integrity_sdk">>] = taken[<<e, "integrity_sdk">>],
         calls'[e] >= calls[e], outboxFaults' >= outboxFaults,
         <<e, "integrity_sdk">> \notin outlasted' /\ Open(<<e, "integrity_sdk">>)' =>
             \/ Open(<<e, "integrity_sdk">>)
             \/ calls'[e] + outboxFaults' > calls[e] + outboxFaults
  PROVE  OracleFits(e)'
<1>a. /\ taken[<<e, "integrity_sdk">>] \in Nat /\ taken'[<<e, "integrity_sdk">>] \in Nat
      /\ calls[e] \in Nat /\ calls'[e] \in Nat /\ outboxFaults \in Nat /\ outboxFaults' \in Nat
  BY Numbers, NumbersAfter DEF Destination
<1> QED
  BY <1>a DEF OracleFits

\* The step reaches it, which its being open paid for.
LEMMA OracleReached ==
  ASSUME OutboxTypes, OutboxTypes', NEW e \in OutboxEvent, OracleFits(e),
         outlasted' = outlasted,
         taken'[<<e, "integrity_sdk">>] = taken[<<e, "integrity_sdk">>] + 1,
         calls'[e] = calls[e],
         <<e, "integrity_sdk">> \notin outlasted => Open(<<e, "integrity_sdk">>),
         \/ outboxFaults' = outboxFaults + 1
         \/ outboxFaults' = outboxFaults /\ ~ Open(<<e, "integrity_sdk">>)'
  PROVE  OracleFits(e)'
<1>a. /\ taken[<<e, "integrity_sdk">>] \in Nat /\ taken'[<<e, "integrity_sdk">>] \in Nat
      /\ calls[e] \in Nat /\ calls'[e] \in Nat /\ outboxFaults \in Nat /\ outboxFaults' \in Nat
  BY Numbers, NumbersAfter DEF Destination
<1> QED
  BY <1>a DEF OracleFits

LEMMA SameRoles ==
  ASSUME deployment' = deployment
  PROVE  /\ \A w : Role[w]' = Role[w] /\ ServesTarget(w)' = ServesTarget(w)
         /\ \A w, e : Row(w, e)' = Row(w, e)
BY DEF Role, ServesTarget, Row

\* Nothing about the workers changes, whatever the queue does.
LEMMA SameWork ==
  ASSUME deployment' = deployment, UNCHANGED workerState
  PROVE  /\ \A w, r : HasClaim(w, r)' <=> HasClaim(w, r)
         /\ \A w, e : Working(w, e)' <=> Working(w, e)
         /\ \A r : Accepting(r)' <=> Accepting(r)
         /\ \A e : Bridging(e)' = Bridging(e)
         /\ WorkersFit <=> WorkersFit'
BY SameRoles DEF workerState, HasClaim, Working, Accepting, Bridging, WorkersFit

\* What enqueue leaves: rows of its event that were not there are pending.
LEMMA Enqueued ==
  ASSUME OutboxTypes, NEW e \in OutboxEvent, Call(e), InsertEvent(e) \/ UNCHANGED queue
  PROVE  /\ calls' \in [OutboxEvent -> Nat] /\ calls'[e] = calls[e] + 1 /\ calls'[e] >= 1
         /\ \A e2 \in OutboxEvent : e2 # e => calls'[e2] = calls[e2]
         /\ \A e2 \in OutboxEvent : calls'[e2] >= calls[e2]
         /\ delivery' \in [Delivery -> Unsettled \cup OutboxTerminal \cup {"none"}]
         /\ deliveryAttempts' \in [Delivery -> Nat]
         /\ outboxOver' \subseteq {r \in Delivery : delivery'[r] = "in_flight"}
         /\ outboxOver' = outboxOver
         /\ \A r \in Delivery : \/ delivery'[r] = delivery[r]
                                \/ r[1] = e /\ delivery[r] = "none" /\ delivery'[r] = "pending"
<1>1. /\ calls \in [OutboxEvent -> Nat] /\ calls' = [calls EXCEPT ![e] = calls[e] + 1]
      /\ calls[e] \in Nat /\ \A e2 \in OutboxEvent : calls[e2] \in Nat
  BY DEF OutboxTypes, Call
<1>2. /\ calls' \in [OutboxEvent -> Nat] /\ calls'[e] = calls[e] + 1 /\ calls'[e] >= 1
      /\ \A e2 \in OutboxEvent : e2 # e => calls'[e2] = calls[e2]
      /\ \A e2 \in OutboxEvent : calls'[e2] >= calls[e2]
  BY <1>1
<1>3. CASE InsertEvent(e)
  BY <1>2, <1>3 DEF InsertEvent, OutboxTypes, Unsettled
<1>4. CASE UNCHANGED queue
  BY <1>2, <1>4 DEF queue, OutboxTypes
<1>5. QED
  BY <1>3, <1>4

\* After it, what was paid for the calls so far still is, for every event.
LEMMA EnqueuePays ==
  ASSUME OutboxInv, OutboxTypes', deployment' = deployment,
         NEW e \in OutboxEvent, Call(e), InsertEvent(e) \/ UNCHANGED queue, UNCHANGED faults,
         \A r : Accepting(r)' <=> Accepting(r),
         \A e2 \in OutboxEvent : /\ taken'[<<e2, "observer">>] = taken[<<e2, "observer">>]
                                 /\ taken'[<<e2, "integrity_sdk">>] = taken[<<e2, "integrity_sdk">>]
  PROVE  \A e2 \in OutboxEvent : ObserverFits(e2)' /\ OracleFits(e2)'
<1> SUFFICES ASSUME NEW e2 \in OutboxEvent PROVE ObserverFits(e2)' /\ OracleFits(e2)'
  OBVIOUS
<1>1. OutboxTypes /\ ObserverFits(e2) /\ OracleFits(e2)
  BY CoverParts DEF OutboxInv
<1>2. /\ calls'[e2] >= calls[e2] /\ calls'[e] = calls[e] + 1
      /\ \A r \in Delivery : \/ delivery'[r] = delivery[r]
                             \/ r[1] = e /\ delivery[r] = "none" /\ delivery'[r] = "pending"
  BY <1>1, Enqueued
<1>3. ObserverFits(e2)'
  <2>0. taken'[<<e2, "observer">>] = taken[<<e2, "observer">>]
    OBVIOUS
  <2>1. taken[<<e2, "observer">>] \in Nat /\ calls[e2] \in Nat /\ calls'[e2] \in Nat
    BY <1>1, Numbers, NumbersAfter DEF Destination
  <2>2. QED
    BY <1>1, <1>2, <2>0, <2>1 DEF ObserverFits
<1>4. OracleFits(e2)'
  <2>1. /\ outlasted' = outlasted /\ outboxFaults' = outboxFaults /\ outboxFaults \in Nat
        /\ calls[e2] \in Nat /\ calls[e] \in Nat
    BY <1>1 DEF faults, OutboxTypes
  <2>2. <<e2, "integrity_sdk">> \in Delivery /\ <<e2, "integrity_sdk">>[1] = e2
    BY Rows DEF Destination
  <2>3. Open(<<e2, "integrity_sdk">>)' => Open(<<e2, "integrity_sdk">>) \/ calls'[e2] + outboxFaults' > calls[e2] + outboxFaults
    BY <1>2, <2>1, <2>2 DEF Open
  <2>4. taken'[<<e2, "integrity_sdk">>] = taken[<<e2, "integrity_sdk">>]
    OBVIOUS
  <2>5. outlasted \subseteq outlasted' /\ outboxFaults' >= outboxFaults
    BY <2>1
  <2>6. QED
    BY <1>1, <1>2, <2>3, <2>4, <2>5, OracleStays
<1>5. QED
  BY <1>3, <1>4

\* The claims of before, which a call of enqueue leaves in flight.
LEMMA EnqueueLeavesClaims ==
  ASSUME OutboxInv, deployment' = deployment,
         NEW e \in OutboxEvent, Call(e), InsertEvent(e) \/ UNCHANGED queue, UNCHANGED <<faults, outboxBatch>>,
         \A w \in OutboxWorker, e2 \in OutboxEvent : Working(w, e2)' => Working(w, e2)
  PROVE  ClaimsExclusive'
<1>1. OutboxTypes /\ ClaimsExclusive /\ outlasted' = outlasted
  BY DEF OutboxInv, faults
<1>2. /\ outboxOver' = outboxOver
      /\ \A r \in Delivery : delivery[r] # "none" => delivery'[r] = delivery[r]
  BY <1>1, Enqueued
<1>3. \A r \in Delivery \ outlasted', w \in OutboxWorker : HasClaim(w, r)' =>
            /\ HasClaim(w, r)
            /\ delivery'[r] = "in_flight" /\ r \notin outboxOver'
            /\ ~ (r[1] \in outboxBatch'[w] /\ Working(w, r[1])')
  BY <1>1, <1>2, SameRoles, Rows DEF HasClaim, ClaimsExclusive
<1>4. QED
  BY <1>1, <1>3, ClaimsLetGo

LEMMA CaptureKeeps ==
  ASSUME OutboxInv, deployment' = deployment, NEW e \in OutboxEvent, CaptureEvent(e)
  PROVE  OutboxInv'
<1>1. /\ OutboxTypes /\ WorkersFit /\ Call(e)
      /\ (InsertEvent(e) \/ UNCHANGED queue)
  BY DEF OutboxInv, CaptureEvent
<1>2. UNCHANGED <<workerState, taken, faults>>
  BY DEF CaptureEvent
<1>3. OutboxTypes'
  BY <1>1, <1>2, Enqueued DEF OutboxTypes, workerState, faults
<1>4. WorkersFit'
  BY <1>1, <1>2, SameWork
<1>5. ClaimsExclusive'
  BY <1>1, <1>2, SameWork, EnqueueLeavesClaims DEF workerState
<1>6. EventsCalled'
  BY <1>1, <1>2, <1>3, Enqueued, CallsOnly DEF workerState
<1>7. TicketsCover'
  <2>1. \A e2 \in OutboxEvent : ObserverFits(e2)' /\ OracleFits(e2)'
    BY <1>1, <1>2, <1>3, SameWork, EnqueuePays
  <2>2. \A e2 \in OutboxEvent : CortexFits(e2)'
    BY <1>1, <1>2, <1>3, SameWork, Enqueued, CortexStays, CoverParts DEF OutboxInv
  <2>3. QED
    BY <2>1, <2>2, CoverParts
<1>8. QED
  BY <1>3, <1>4, <1>5, <1>6, <1>7 DEF OutboxInv

\* A bridge before it has queued its event has nothing in hand.
LEMMA IdleBridge ==
  ASSUME OutboxInv, NEW w \in OutboxWorker, outboxStage[w] = "idle"
  PROVE  /\ current[w] = NoOutboxEvent
         /\ \A e \in OutboxEvent : current[w] # e /\ ~ Working(w, e)
BY OutboxAssumption DEF OutboxInv, WorkersFit, Working

LEMMA BridgeEnqueueKeeps ==
  ASSUME OutboxInv, deployment' = deployment, NEW w \in OutboxWorker, NEW e \in OutboxEvent, BridgeEnqueue(w, e)
  PROVE  OutboxInv'
<1>1. OutboxTypes /\ WorkersFit /\ Call(e) /\ InsertEvent(e)
  BY DEF OutboxInv, BridgeEnqueue
<1>2. /\ Role[w] = "bridge" /\ outboxStage[w] = "idle" /\ outboxBatch[w] = {}
      /\ current' = [current EXCEPT ![w] = e] /\ outboxStage' = [outboxStage EXCEPT ![w] = "queued"]
      /\ outboxBatch' = outboxBatch /\ seen' = seen /\ taken' = taken /\ faults' = faults
  BY DEF BridgeEnqueue
<1>3. /\ current \in [OutboxWorker -> OutboxEvent \cup {NoOutboxEvent}]
      /\ outboxStage \in [OutboxWorker -> {"idle", "queued", "delivered", "failed", "failing"}]
  BY <1>1 DEF OutboxTypes
<1>4. /\ current'[w] = e /\ outboxStage'[w] = "queued"
      /\ \A v \in OutboxWorker : v # w => current'[v] = current[v] /\ outboxStage'[v] = outboxStage[v]
  BY <1>2, <1>3
<1>5. OutboxTypes'
  BY <1>1, <1>2, <1>3, Enqueued DEF OutboxTypes, faults
<1>6. WorkersFit'
  BY <1>1, <1>2, <1>4, SameRoles, OutboxAssumption DEF WorkersFit
<1>7. ClaimsExclusive'
  <2>1. \A v \in OutboxWorker, e2 \in OutboxEvent : Working(v, e2)' => Working(v, e2)
    BY <1>4 DEF Working
  <2>2. QED
    BY <1>1, <1>2, <2>1, EnqueueLeavesClaims
<1>8. EventsCalled'
  <2>1. \A v \in OutboxWorker, e2 \in OutboxEvent :
            e2 \in outboxBatch'[v] \cup {current'[v]} =>
               \/ e2 \in outboxBatch[v] \cup {current[v]}
               \/ calls'[e2] >= 1
    BY <1>1, <1>2, <1>4, Enqueued
  <2>2. QED
    BY <1>1, <1>5, <2>1, Enqueued, CallsOnly
<1>9. \A r : Accepting(r)' <=> Accepting(r)
  BY <1>2, <1>4, SameRoles DEF Accepting
<1>10. \A e2 \in OutboxEvent : CortexFits(e2)'
  <2> SUFFICES ASSUME NEW e2 \in OutboxEvent PROVE CortexFits(e2)'
    OBVIOUS
  <2>1. CortexFits(e2) /\ taken'[<<e2, "cortex">>] = taken[<<e2, "cortex">>] /\ calls'[e2] >= calls[e2]
    BY <1>1, <1>2, Enqueued, CoverParts DEF OutboxInv
  <2>2. CASE e2 = e
    <3>1. Bridging(e)' \subseteq Bridging(e) \cup {w}
      BY <1>2, <1>4, SameRoles DEF Bridging
    <3>2. calls'[e] = calls[e] + 1
      BY <1>1, Enqueued
    <3>3. QED
      BY <1>1, <1>5, <2>1, <2>2, <3>1, <3>2, CortexCalled
  <2>3. CASE e2 # e
    <3>1. Bridging(e2)' \subseteq Bridging(e2)
      BY <1>2, <1>4, <2>3, SameRoles DEF Bridging
    <3>2. QED
      BY <1>1, <1>5, <2>1, <3>1, CortexStays
  <2>4. QED
    BY <2>2, <2>3
<1>11. \A e2 \in OutboxEvent : ObserverFits(e2)' /\ OracleFits(e2)'
  BY <1>1, <1>2, <1>5, <1>9, EnqueuePays
<1>12. QED
  BY <1>5, <1>6, <1>7, <1>8, <1>10, <1>11, CoverParts DEF OutboxInv

LEMMA BridgeUnqueuedKeeps ==
  ASSUME OutboxInv, deployment' = deployment, NEW w \in OutboxWorker, NEW e \in OutboxEvent, BridgeUnqueued(w, e)
  PROVE  OutboxInv'
<1>1. OutboxTypes /\ WorkersFit /\ Call(e) /\ UNCHANGED queue
  BY DEF OutboxInv, BridgeUnqueued
<1>2. UNCHANGED <<workerState, faults>> /\ taken' = [taken EXCEPT ![Row(w, e)] = taken[Row(w, e)] + 1]
  BY DEF BridgeUnqueued
<1>3. Row(w, e) = <<e, "cortex">> /\ Row(w, e) \in Delivery
  BY <1>1, Kinds, WorkersRow DEF Row, BridgeUnqueued
<1>4. /\ taken \in [Delivery -> Nat] /\ taken' \in [Delivery -> Nat]
      /\ taken'[<<e, "cortex">>] = taken[<<e, "cortex">>] + 1
      /\ \A r \in Delivery : r # <<e, "cortex">> => taken'[r] = taken[r]
  BY <1>1, <1>2, <1>3 DEF OutboxTypes
<1>5. OutboxTypes'
  BY <1>1, <1>2, <1>4, Enqueued DEF OutboxTypes, workerState, faults
<1>6. WorkersFit'
  BY <1>1, <1>2, SameWork
<1>7. ClaimsExclusive'
  BY <1>1, <1>2, SameWork, EnqueueLeavesClaims DEF workerState
<1>8. EventsCalled'
  BY <1>1, <1>2, <1>5, Enqueued, CallsOnly DEF workerState
<1>9. TicketsCover'
  <2>1. \A e2 \in OutboxEvent : /\ taken'[<<e2, "observer">>] = taken[<<e2, "observer">>]
                                /\ taken'[<<e2, "integrity_sdk">>] = taken[<<e2, "integrity_sdk">>]
                                /\ e2 # e => taken'[<<e2, "cortex">>] = taken[<<e2, "cortex">>]
    BY <1>4, Rows DEF Destination
  <2>2. \A e2 \in OutboxEvent : ObserverFits(e2)' /\ OracleFits(e2)'
    BY <1>1, <1>2, <1>5, <2>1, SameWork, EnqueuePays
  <2>3. \A e2 \in OutboxEvent : CortexFits(e2)'
    <3> SUFFICES ASSUME NEW e2 \in OutboxEvent PROVE CortexFits(e2)'
      OBVIOUS
    <3>1. CortexFits(e2) /\ Bridging(e2)' \subseteq Bridging(e2) /\ calls'[e2] >= calls[e2]
      BY <1>1, <1>2, SameWork, Enqueued, CoverParts DEF OutboxInv
    <3>2. calls'[e] = calls[e] + 1
      BY <1>1, Enqueued
    <3>3. CASE e2 = e
      BY <1>1, <1>4, <1>5, <3>1, <3>2, <3>3, CortexCalled
    <3>4. CASE e2 # e
      BY <1>1, <1>5, <2>1, <3>1, <3>4, CortexStays
    <3>5. QED
      BY <3>3, <3>4
  <2>4. QED
    BY <2>2, <2>3, CoverParts
<1>10. QED
  BY <1>5, <1>6, <1>7, <1>8, <1>9 DEF OutboxInv

-----------------------------------------------------------------------------
(* Claims *)

\* A lease takes rows that nobody holds, or that somebody outlasted.
LEMMA Unheld ==
  ASSUME OutboxInv, NEW r \in Delivery \ outlasted, Deliverable(r)
  PROVE  \A v \in OutboxWorker : ~ HasClaim(v, r)
BY DEF OutboxInv, ClaimsExclusive, Deliverable

LEMMA LeaseTakes ==
  ASSUME OutboxTypes, NEW w \in OutboxWorker, NEW B \in SUBSET OutboxEvent,
         \A e \in B : Deliverable(Row(w, e)), Lease(w, B)
  PROVE  /\ delivery' \in [Delivery -> Unsettled \cup OutboxTerminal \cup {"none"}]
         /\ deliveryAttempts' \in [Delivery -> Nat]
         /\ outboxOver' \subseteq {r \in Delivery : delivery'[r] = "in_flight"}
         /\ outboxOver' \subseteq outboxOver
         /\ \A r \in Delivery :
               IF r[2] = ServesTarget(w) /\ r[1] \in B
               THEN delivery'[r] = "in_flight" /\ r \notin outboxOver'
                    /\ delivery[r] \in Unsettled /\ Deliverable(r)
               ELSE delivery'[r] = delivery[r]
<1>1. PICK rows : rows = {Row(w, e) : e \in B}
  OBVIOUS
<1>2. \A r \in Delivery : r \in rows <=> r[2] = ServesTarget(w) /\ r[1] \in B
  BY <1>1, Rows, WorkersRow DEF Row
<1>3. /\ delivery' = [r \in Delivery |-> IF r \in rows THEN "in_flight" ELSE delivery[r]]
      /\ deliveryAttempts' = [r \in Delivery |-> IF r \in rows THEN deliveryAttempts[r] + 1 ELSE deliveryAttempts[r]]
      /\ outboxOver' = outboxOver \ rows
  BY <1>1 DEF Lease
<1>4. delivery' \in [Delivery -> Unsettled \cup OutboxTerminal \cup {"none"}]
  BY <1>3 DEF OutboxTypes, Unsettled
<1>5. deliveryAttempts' \in [Delivery -> Nat]
  BY <1>3 DEF OutboxTypes
<1>6. outboxOver' \subseteq {r \in Delivery : delivery'[r] = "in_flight"} /\ outboxOver' \subseteq outboxOver
  BY <1>3 DEF OutboxTypes
<1>7. \A r \in rows : Deliverable(r)
  BY <1>1
<1>8. \A r \in Delivery : Deliverable(r) => delivery[r] \in Unsettled
  BY DEF Deliverable, OutboxTypes, Unsettled
<1>9. \A r \in Delivery : IF r \in rows
                          THEN delivery'[r] = "in_flight" /\ r \notin outboxOver'
                               /\ delivery[r] \in Unsettled /\ Deliverable(r)
                          ELSE delivery'[r] = delivery[r]
  BY <1>3, <1>7, <1>8
<1>10. QED
  BY <1>2, <1>4, <1>5, <1>6, <1>9

\* A worker that claims has the batch in hand, and everything else stays.
LEMMA LeaseKeeps ==
  ASSUME OutboxInv, OutboxTypes', deployment' = deployment,
         NEW w \in OutboxWorker, NEW B \in SUBSET OutboxEvent, outboxBatch[w] = {},
         \A e \in B : Deliverable(Row(w, e)), Lease(w, B),
         outboxBatch' = [outboxBatch EXCEPT ![w] = B], UNCHANGED <<taken, calls, faults>>,
         \A v \in OutboxWorker : current'[v] \in {current[v], NoOutboxEvent},
         \A v \in OutboxWorker, e \in OutboxEvent : Working(v, e)' => Working(v, e),
         \A r : Accepting(r)' <=> Accepting(r)
  PROVE  /\ ClaimsExclusive' /\ EventsCalled'
         /\ \A e \in OutboxEvent : ObserverFits(e)' /\ OracleFits(e)'
<1>1. /\ OutboxTypes /\ ClaimsExclusive /\ EventsCalled /\ outlasted' = outlasted /\ outboxFaults' = outboxFaults
      /\ outboxBatch \in [OutboxWorker -> SUBSET OutboxEvent]
  BY DEF OutboxInv, OutboxTypes, faults
<1>2. /\ outboxBatch'[w] = B
      /\ \A v \in OutboxWorker : v # w => outboxBatch'[v] = outboxBatch[v]
  BY <1>1
<1>3. /\ outboxOver' \subseteq outboxOver
      /\ \A r \in Delivery :
               IF r[2] = ServesTarget(w) /\ r[1] \in B
               THEN delivery'[r] = "in_flight" /\ r \notin outboxOver'
                    /\ delivery[r] \in Unsettled /\ Deliverable(r)
               ELSE delivery'[r] = delivery[r]
  BY <1>1, LeaseTakes
<1>4. ClaimsExclusive'
  <2>1. \A r \in Delivery \ outlasted, v \in OutboxWorker : HasClaim(v, r)' =>
            \/ v = w /\ r[2] = ServesTarget(w) /\ r[1] \in B
            \/ HasClaim(v, r)
    BY <1>2, SameRoles, Rows DEF HasClaim
  <2>2. \A r \in Delivery \ outlasted : r[2] = ServesTarget(w) /\ r[1] \in B =>
            \A v \in OutboxWorker : ~ HasClaim(v, r)
    BY <1>3, Unheld
  <2>3. \A r \in Delivery \ outlasted, v \in OutboxWorker : HasClaim(v, r)' =>
            delivery'[r] = "in_flight" /\ r \notin outboxOver'
    BY <1>1, <1>3, <2>1, <2>2 DEF ClaimsExclusive
  <2>4. \A r \in Delivery \ outlasted, v \in OutboxWorker :
            HasClaim(v, r)' => ~ (r[1] \in outboxBatch'[v] /\ Working(v, r[1])')
    <3> SUFFICES ASSUME NEW r \in Delivery \ outlasted, NEW v \in OutboxWorker, HasClaim(v, r)',
                        r[1] \in outboxBatch'[v], Working(v, r[1])'
                 PROVE  FALSE
      OBVIOUS
    <3>1. Working(v, r[1]) /\ r[2] = ServesTarget(v)
      BY SameRoles, Rows DEF HasClaim
    <3>2. HasClaim(v, r)
      BY <3>1 DEF HasClaim
    <3>3. CASE v = w
      BY <1>2, <2>2, <3>1, <3>2, <3>3
    <3>4. CASE v # w
      BY <1>1, <1>2, <3>1, <3>2, <3>4 DEF ClaimsExclusive
    <3>5. QED
      BY <3>3, <3>4
  <2>5. \A r \in Delivery \ outlasted : \A u, v \in OutboxWorker : HasClaim(u, r)' /\ HasClaim(v, r)' => u = v
    BY <1>1, <2>1, <2>2 DEF ClaimsExclusive
  <2>6. QED
    BY <1>1, <2>3, <2>4, <2>5 DEF ClaimsExclusive
<1>5. EventsCalled'
  <2>1. \A e \in OutboxEvent : calls[e] \in Nat /\ NoOutboxEvent # e
    BY <1>1, OutboxAssumption DEF OutboxTypes
  <2>2. \A r \in Delivery : delivery'[r] # "none" => delivery[r] # "none"
    BY <1>3 DEF Unsettled
  <2>3. \A v \in OutboxWorker, e \in OutboxEvent :
            e \in outboxBatch'[v] \cup {current'[v]} => e \in outboxBatch[v] \cup {current[v]} \/ calls'[e] >= 1
    <3> SUFFICES ASSUME NEW v \in OutboxWorker, NEW e \in OutboxEvent,
                        e \in outboxBatch'[v] \cup {current'[v]}
                 PROVE  e \in outboxBatch[v] \cup {current[v]} \/ calls'[e] >= 1
      OBVIOUS
    <3>1. CASE v = w /\ e \in B
      <4>1. Row(w, e) \in Delivery /\ Row(w, e)[1] = e /\ Row(w, e)[2] = ServesTarget(w)
        BY <1>1, WorkersRow
      <4>2. delivery[Row(w, e)] # "none"
        BY <1>3, <3>1, <4>1 DEF Unsettled
      <4>3. QED
        BY <1>1, <4>1, <4>2 DEF EventsCalled
    <3>2. CASE ~ (v = w /\ e \in B)
      BY <1>2, <2>1, <3>2
    <3>3. QED
      BY <3>1, <3>2
  <2>4. QED
    BY <2>1, <2>2, <2>3, CallsOnly
<1>6. \A e \in OutboxEvent : ObserverFits(e)' /\ OracleFits(e)'
  <2> SUFFICES ASSUME NEW e \in OutboxEvent PROVE ObserverFits(e)' /\ OracleFits(e)'
    OBVIOUS
  <2>1. ObserverFits(e) /\ OracleFits(e)
    BY CoverParts DEF OutboxInv
  <2>2. ObserverFits(e)'
    BY <2>1 DEF ObserverFits
  <2>3. <<e, "integrity_sdk">> \in Delivery
    BY Rows DEF Destination
  <2>4. Open(<<e, "integrity_sdk">>)' => Open(<<e, "integrity_sdk">>)
    BY <1>3, <2>3 DEF Open
  <2>5. /\ taken'[<<e, "integrity_sdk">>] = taken[<<e, "integrity_sdk">>] /\ calls'[e] >= calls[e]
        /\ outboxFaults' >= outboxFaults
    BY <1>1 DEF OutboxTypes
  <2>6. QED
    BY <1>1, <2>1, <2>2, <2>4, <2>5, OracleStays
<1>7. QED
  BY <1>4, <1>5, <1>6

LEMMA ClaimKeeps ==
  ASSUME OutboxInv, deployment' = deployment, NEW w \in OutboxWorker, ClaimDelivery(w)
  PROVE  OutboxInv'
<1>1. OutboxTypes /\ WorkersFit
  BY DEF OutboxInv
<1>2. PICK B \in OutboxBatches(w) : Lease(w, B) /\ outboxBatch' = [outboxBatch EXCEPT ![w] = B]
  BY DEF ClaimDelivery
<1>3. B \in SUBSET OutboxEvent /\ \A e \in B : Deliverable(Row(w, e))
  BY <1>2 DEF OutboxBatches
<1>4. /\ Role[w] # "bridge" /\ outboxStage[w] = "idle" /\ outboxBatch[w] = {}
      /\ UNCHANGED <<current, outboxStage, seen, taken, calls, faults>>
  BY DEF ClaimDelivery
<1>5. OutboxTypes'
  BY <1>1, <1>2, <1>3, <1>4, LeaseTakes DEF OutboxTypes, faults
<1>6. /\ outboxBatch'[w] = B
      /\ \A v \in OutboxWorker : v # w => outboxBatch'[v] = outboxBatch[v]
  BY <1>1, <1>2, <1>3 DEF OutboxTypes
<1>7. WorkersFit'
  BY <1>1, <1>4, <1>6, SameRoles DEF WorkersFit
<1>8. /\ \A v \in OutboxWorker : current'[v] \in {current[v], NoOutboxEvent}
      /\ \A v \in OutboxWorker, e \in OutboxEvent : Working(v, e)' => Working(v, e)
      /\ \A r : Accepting(r)' <=> Accepting(r)
  BY <1>4, SameRoles DEF Working, Accepting
<1>9. /\ ClaimsExclusive' /\ EventsCalled'
      /\ \A e \in OutboxEvent : ObserverFits(e)' /\ OracleFits(e)'
  BY <1>2, <1>3, <1>4, <1>5, <1>8, LeaseKeeps
<1>10. \A e \in OutboxEvent : CortexFits(e)'
  <2> SUFFICES ASSUME NEW e \in OutboxEvent PROVE CortexFits(e)'
    OBVIOUS
  <2>1. Bridging(e)' \subseteq Bridging(e)
    BY <1>4, <1>6, SameRoles DEF Bridging
  <2>2. CortexFits(e) /\ taken'[<<e, "cortex">>] = taken[<<e, "cortex">>] /\ calls'[e] >= calls[e]
    BY <1>1, <1>4, CoverParts DEF OutboxInv, OutboxTypes
  <2>3. QED
    BY <1>1, <1>5, <2>1, <2>2, CortexStays
<1>11. QED
  BY <1>5, <1>7, <1>9, <1>10, CoverParts DEF OutboxInv

LEMMA BridgeClaimKeeps ==
  ASSUME OutboxInv, deployment' = deployment, NEW w \in OutboxWorker, BridgeClaim(w)
  PROVE  OutboxInv'
<1>1. OutboxTypes /\ WorkersFit
  BY DEF OutboxInv
<1>2. PICK e : e = current[w]
  OBVIOUS
<1>3. /\ outboxStage[w] = "queued" /\ Role[w] = "bridge" /\ outboxBatch[w] = {} /\ e \in OutboxEvent
      /\ Row(w, e) = <<e, "cortex">> /\ <<e, "cortex">> \in Delivery /\ ServesTarget(w) = "cortex"
  BY <1>1, <1>2, AtEvent, Kinds DEF BridgeClaim, WorkersFit, Row
<1>4. /\ current' = [current EXCEPT ![w] = NoOutboxEvent] /\ outboxStage' = [outboxStage EXCEPT ![w] = "idle"]
      /\ UNCHANGED <<seen, calls, faults>>
  BY DEF BridgeClaim
<1>5. /\ current'[w] = NoOutboxEvent /\ outboxStage'[w] = "idle"
      /\ \A v \in OutboxWorker : v # w => current'[v] = current[v] /\ outboxStage'[v] = outboxStage[v]
      /\ \A e2 \in OutboxEvent : e2 # NoOutboxEvent
  BY <1>1, <1>4, OutboxAssumption DEF OutboxTypes
<1>6. /\ \A v \in OutboxWorker : current'[v] \in {current[v], NoOutboxEvent}
      /\ \A v \in OutboxWorker, e2 \in OutboxEvent : Working(v, e2)' => Working(v, e2)
      /\ \A r : Accepting(r)' <=> Accepting(r)
  BY <1>3, <1>5, SameRoles DEF Working, Accepting
<1>7. CASE Deliverable(Row(w, e))
  <2>1. Lease(w, {e}) /\ outboxBatch' = [outboxBatch EXCEPT ![w] = {e}] /\ taken' = taken
    BY <1>2, <1>7 DEF BridgeClaim
  <2>2. /\ {e} \in SUBSET OutboxEvent /\ \A e2 \in {e} : Deliverable(Row(w, e2))
    BY <1>3, <1>7
  <2>3. OutboxTypes'
    BY <1>1, <1>4, <2>1, <2>2, LeaseTakes DEF OutboxTypes, faults
  <2>4. /\ outboxBatch'[w] = {e}
        /\ \A v \in OutboxWorker : v # w => outboxBatch'[v] = outboxBatch[v]
    BY <1>1, <2>1 DEF OutboxTypes
  <2>5. WorkersFit'
    BY <1>1, <1>5, <2>4, SameRoles DEF WorkersFit
  <2>6. /\ ClaimsExclusive' /\ EventsCalled'
        /\ \A e2 \in OutboxEvent : ObserverFits(e2)' /\ OracleFits(e2)'
    BY <1>3, <1>4, <1>6, <2>1, <2>2, <2>3, LeaseKeeps
  <2>7. \A e2 \in OutboxEvent : CortexFits(e2)'
    <3> SUFFICES ASSUME NEW e2 \in OutboxEvent PROVE CortexFits(e2)'
      OBVIOUS
    <3>1. Bridging(e2)' \subseteq Bridging(e2)
      BY <1>2, <1>3, <1>5, <2>4, SameRoles DEF Bridging
    <3>2. CortexFits(e2) /\ taken'[<<e2, "cortex">>] = taken[<<e2, "cortex">>] /\ calls'[e2] >= calls[e2]
      BY <1>1, <1>4, <2>1, CoverParts DEF OutboxInv, OutboxTypes
    <3>3. QED
      BY <1>1, <2>3, <3>1, <3>2, CortexStays
  <2>8. QED
    BY <2>3, <2>5, <2>6, <2>7, CoverParts DEF OutboxInv
<1>8. CASE ~ Deliverable(Row(w, e))
  <2>1. /\ taken' = [taken EXCEPT ![<<e, "cortex">>] = taken[<<e, "cortex">>] + 1]
        /\ UNCHANGED <<queue, outboxBatch>>
    BY <1>2, <1>3, <1>8 DEF BridgeClaim
  <2>2. /\ taken' \in [Delivery -> Nat]
        /\ taken'[<<e, "cortex">>] = taken[<<e, "cortex">>] + 1
        /\ \A r \in Delivery : r # <<e, "cortex">> => taken'[r] = taken[r]
    BY <1>1, <1>3, <2>1 DEF OutboxTypes
  <2>3. OutboxTypes'
    BY <1>1, <1>4, <2>1, <2>2 DEF OutboxTypes, faults, queue
  <2>4. WorkersFit'
    BY <1>1, <1>3, <1>5, <2>1, SameRoles DEF WorkersFit
  <2>5. ClaimsExclusive'
    <3>1. \A r \in Delivery \ outlasted', v \in OutboxWorker : HasClaim(v, r)' => HasClaim(v, r)
      BY <1>4, <1>6, <2>1, SameRoles, Rows DEF HasClaim
    <3>2. \A r \in Delivery \ outlasted', v \in OutboxWorker : HasClaim(v, r)' =>
            /\ HasClaim(v, r)
            /\ delivery'[r] = "in_flight" /\ r \notin outboxOver'
            /\ ~ (r[1] \in outboxBatch'[v] /\ Working(v, r[1])')
      BY <1>4, <1>6, <2>1, <3>1, Rows DEF OutboxInv, ClaimsExclusive, queue, faults
    <3>3. QED
      BY <1>4, <3>2, ClaimsLetGo DEF faults
  <2>6. EventsCalled'
    BY <1>1, <1>4, <1>5, <1>6, <2>1, <2>3, CallsOnly DEF OutboxTypes, queue
  <2>7. \A e2 \in OutboxEvent : ObserverFits(e2)' /\ OracleFits(e2)' /\ CortexFits(e2)'
    <3> SUFFICES ASSUME NEW e2 \in OutboxEvent PROVE ObserverFits(e2)' /\ OracleFits(e2)' /\ CortexFits(e2)'
      OBVIOUS
    <3>1. ObserverFits(e2) /\ OracleFits(e2) /\ CortexFits(e2)
      BY CoverParts DEF OutboxInv
    <3>2. /\ taken'[<<e2, "observer">>] = taken[<<e2, "observer">>]
          /\ taken'[<<e2, "integrity_sdk">>] = taken[<<e2, "integrity_sdk">>]
          /\ e2 # e => taken'[<<e2, "cortex">>] = taken[<<e2, "cortex">>]
      BY <2>2, Rows DEF Destination
    <3>3. /\ calls' = calls /\ calls'[e2] >= calls[e2] /\ outboxFaults' = outboxFaults /\ outboxFaults' >= outboxFaults
          /\ outlasted' = outlasted
      BY <1>1, <1>4 DEF faults, OutboxTypes
    <3>4. ObserverFits(e2)'
      BY <3>1, <3>2, <3>3 DEF ObserverFits
    <3>5. Open(<<e2, "integrity_sdk">>)' => Open(<<e2, "integrity_sdk">>)
      BY <1>6, <2>1 DEF Open, queue
    <3>6. OracleFits(e2)'
      BY <1>1, <2>3, <3>1, <3>2, <3>3, <3>5, OracleStays
    <3>7. Bridging(e2)' \subseteq Bridging(e2)
      BY <1>5, <2>1, SameRoles DEF Bridging
    <3>8. CASE e2 = e
      <4>1. w \in Bridging(e) /\ Bridging(e)' \subseteq Bridging(e) \ {w}
        BY <1>2, <1>3, <1>5, <2>1, <3>7, <3>8, SameRoles DEF Bridging
      <4>2. QED
        BY <1>1, <2>2, <2>3, <3>1, <3>3, <3>4, <3>6, <3>8, <4>1, CortexServed
    <3>9. CASE e2 # e
      BY <1>1, <2>3, <3>1, <3>2, <3>3, <3>4, <3>6, <3>7, <3>9, CortexStays
    <3>10. QED
      BY <3>8, <3>9
  <2>8. QED
    BY <2>3, <2>4, <2>5, <2>6, <2>7, CoverParts DEF OutboxInv
<1>9. QED
  BY <1>7, <1>8

-----------------------------------------------------------------------------
(* A worker comes to an event *)

\* Whatever becomes of it, the claim stays and the worker is past its batch.
LEMMA BeginKeeps ==
  ASSUME OutboxInv, OutboxTypes', deployment' = deployment,
         NEW w \in OutboxWorker, NEW e \in OutboxEvent, Begin(w, e),
         NEW s \in {"delivered", "failed"}, outboxStage' = [outboxStage EXCEPT ![w] = s],
         outlasted' = outlasted
  PROVE  /\ WorkersFit' /\ ClaimsExclusive' /\ EventsCalled'
         /\ outboxStage'[w] = s /\ current'[w] = e
         /\ \A v \in OutboxWorker : v # w => outboxStage'[v] = outboxStage[v] /\ current'[v] = current[v]
         /\ \A e2 \in OutboxEvent : Bridging(e2)' \subseteq Bridging(e2)
         /\ Role[w] = "bridge" => w \in Bridging(e) /\ w \notin Bridging(e)'
         /\ Row(w, e) \notin outlasted => HasClaim(w, Row(w, e)) /\ Open(Row(w, e))
<1>1. /\ OutboxTypes /\ WorkersFit /\ ClaimsExclusive /\ EventsCalled
      /\ outboxBatch \in [OutboxWorker -> SUBSET OutboxEvent]
      /\ current \in [OutboxWorker -> OutboxEvent \cup {NoOutboxEvent}]
      /\ outboxStage \in [OutboxWorker -> {"idle", "queued", "delivered", "failed", "failing"}]
  BY DEF OutboxInv, OutboxTypes
<1>2. /\ outboxStage[w] = "idle" /\ e \in outboxBatch[w]
      /\ outboxBatch' = [outboxBatch EXCEPT ![w] = outboxBatch[w] \ {e}]
      /\ current' = [current EXCEPT ![w] = e] /\ UNCHANGED <<queue, seen, calls>>
  BY DEF Begin
<1>3. /\ outboxStage'[w] = s /\ current'[w] = e /\ outboxBatch'[w] = outboxBatch[w] \ {e}
      /\ \A v \in OutboxWorker : v # w => /\ outboxStage'[v] = outboxStage[v] /\ current'[v] = current[v]
                                          /\ outboxBatch'[v] = outboxBatch[v]
  BY <1>1, <1>2
<1>4. /\ current[w] = NoOutboxEvent /\ \A e2 \in OutboxEvent : current[w] # e2 /\ ~ Working(w, e2)
  BY <1>2, IdleBridge
<1>5. \A e2 \in OutboxEvent : Working(w, e2)' <=> e2 = e
  BY <1>3 DEF Working
<1>6. \A v \in OutboxWorker, e2 \in OutboxEvent : v # w => (Working(v, e2)' <=> Working(v, e2))
  BY <1>3 DEF Working
<1>7. /\ Row(w, e) \in Delivery /\ Row(w, e)[1] = e /\ Row(w, e)[2] = ServesTarget(w) /\ HasClaim(w, Row(w, e))
  BY <1>1, <1>2, WorkersRow DEF HasClaim
<1>8. \A r \in Delivery \ outlasted, v \in OutboxWorker : HasClaim(v, r)' => HasClaim(v, r)
  <2> SUFFICES ASSUME NEW r \in Delivery \ outlasted, NEW v \in OutboxWorker, HasClaim(v, r)'
               PROVE  HasClaim(v, r)
    OBVIOUS
  <2>1. ServesTarget(v) = r[2] /\ (r[1] \in outboxBatch'[v] \/ Working(v, r[1])')
    BY SameRoles DEF HasClaim
  <2>2. CASE v = w
    BY <1>2, <1>3, <1>5, <2>1, <2>2, Rows DEF HasClaim
  <2>3. CASE v # w
    BY <1>3, <1>6, <2>1, <2>3, Rows DEF HasClaim
  <2>4. QED
    BY <2>2, <2>3
<1>9. ClaimsExclusive'
  <2>1. \A r \in Delivery \ outlasted', v \in OutboxWorker : HasClaim(v, r)' =>
            /\ HasClaim(v, r)
            /\ delivery'[r] = "in_flight" /\ r \notin outboxOver'
            /\ ~ (r[1] \in outboxBatch'[v] /\ Working(v, r[1])')
    <3> SUFFICES ASSUME NEW r \in Delivery \ outlasted, NEW v \in OutboxWorker, HasClaim(v, r)'
                 PROVE  /\ HasClaim(v, r) /\ delivery'[r] = "in_flight" /\ r \notin outboxOver'
                        /\ ~ (r[1] \in outboxBatch'[v] /\ Working(v, r[1])')
      OBVIOUS
    <3>1. HasClaim(v, r) /\ delivery'[r] = "in_flight" /\ r \notin outboxOver' /\ r[1] \in OutboxEvent
          /\ ~ (r[1] \in outboxBatch[v] /\ Working(v, r[1]))
      BY <1>1, <1>2, <1>8, Rows DEF ClaimsExclusive, queue
    <3>2. ~ (r[1] \in outboxBatch'[v] /\ Working(v, r[1])')
      BY <1>3, <1>5, <1>6, <3>1
    <3>3. QED
      BY <3>1, <3>2
  <2>2. QED
    BY <2>1, ClaimsLetGo
<1>10. EventsCalled'
  <2>1. \A v \in OutboxWorker, e2 \in OutboxEvent :
            e2 \in outboxBatch'[v] \cup {current'[v]} => e2 \in outboxBatch[v] \cup {current[v]}
    BY <1>2, <1>3
  <2>2. QED
    BY <1>1, <1>2, <2>1, CallsOnly DEF OutboxTypes, queue
<1>11. WorkersFit'
  BY <1>1, <1>2, <1>3, SameRoles, OutboxAssumption DEF WorkersFit
<1>12. /\ \A e2 \in OutboxEvent : Bridging(e2)' \subseteq Bridging(e2)
       /\ Role[w] = "bridge" => w \in Bridging(e) /\ w \notin Bridging(e)'
  <2>1. \A v \in OutboxWorker, e2 \in OutboxEvent :
            v \in Bridging(e2)' => v \in Bridging(e2) /\ ~ (v = w /\ e2 = e)
    BY <1>2, <1>3, SameRoles DEF Bridging
  <2>2. Role[w] = "bridge" => w \in Bridging(e)
    BY <1>2 DEF Bridging
  <2>3. \A e2 : Bridging(e2)' \subseteq OutboxWorker
    BY DEF Bridging
  <2>4. QED
    BY <2>1, <2>2, <2>3
<1>13. Row(w, e) \notin outlasted => Open(Row(w, e))
  <2> SUFFICES ASSUME Row(w, e) \notin outlasted PROVE Open(Row(w, e))
    OBVIOUS
  <2>1. delivery[Row(w, e)] = "in_flight"
    BY <1>1, <1>7 DEF ClaimsExclusive
  <2>2. SUFFICES ASSUME NEW v \in OutboxWorker, ServesTarget(v) = ServesTarget(w), current[v] = e,
                        outboxStage[v] = "delivered"
                 PROVE  FALSE
    BY <1>7, <2>1 DEF Open, Accepting, Unsettled
  <2>3. Working(v, e) /\ HasClaim(v, Row(w, e))
    BY <1>7, <2>2 DEF Working, HasClaim
  <2>4. v = w
    BY <1>1, <1>7, <2>3 DEF ClaimsExclusive
  <2>5. QED
    BY <1>2, <2>2, <2>4
<1>14. QED
  BY <1>3, <1>7, <1>9, <1>10, <1>11, <1>12, <1>13

\* The destination accepts the event, at once or with an exception to follow.
LEMMA AcceptKeeps ==
  ASSUME OutboxInv, deployment' = deployment,
         NEW w \in OutboxWorker, NEW e \in OutboxEvent, Begin(w, e),
         NEW s \in {"delivered", "failed"}, outboxStage' = [outboxStage EXCEPT ![w] = s],
         outlasted' = outlasted,
         taken' = [taken EXCEPT ![Row(w, e)] = Accepted(w, Row(w, e))],
         \/ s = "delivered" /\ outboxFaults' = outboxFaults
         \/ Role[w] # "drain" /\ outboxFaults' = outboxFaults + 1
  PROVE  OutboxInv'
<1>1. OutboxTypes /\ WorkersFit /\ ClaimsExclusive /\ EventsCalled
  BY DEF OutboxInv
<1>2. PICK r : r = Row(w, e)
  OBVIOUS
<1>3. r \in Delivery /\ r[1] = e /\ r[2] = ServesTarget(w) /\ r = <<e, ServesTarget(w)>>
  BY <1>1, <1>2, WorkersRow DEF Row
<1>4. /\ taken \in [Delivery -> Nat] /\ taken[r] \in Nat /\ outboxFaults \in Nat
      /\ outboxFaults' \in Nat /\ outboxFaults' >= outboxFaults
      /\ calls' = calls /\ calls \in [OutboxEvent -> Nat]
      /\ \A e2 \in OutboxEvent : calls[e2] \in Nat /\ calls'[e2] >= calls[e2] /\ calls'[e2] = calls[e2]
  BY <1>1, <1>3 DEF OutboxTypes, Begin
<1>5. PICK n : n = Accepted(w, r)
  OBVIOUS
<1>6. n = (IF Role[w] = "drain" THEN 1 ELSE taken[r] + 1) /\ n \in Nat
  BY <1>4, <1>5 DEF Accepted
<1>7. /\ taken' \in [Delivery -> Nat] /\ taken'[r] = n
      /\ \A r2 \in Delivery : r2 # r => taken'[r2] = taken[r2]
  BY <1>2, <1>3, <1>4, <1>5, <1>6
<1>8. OutboxTypes'
  <2>1. /\ outboxBatch' = [outboxBatch EXCEPT ![w] = outboxBatch[w] \ {e}]
        /\ current' = [current EXCEPT ![w] = e] /\ UNCHANGED <<queue, seen, calls>>
    BY DEF Begin
  <2>2. QED
    BY <1>1, <1>4, <1>7, <2>1 DEF OutboxTypes, queue
<1>9. /\ WorkersFit' /\ ClaimsExclusive' /\ EventsCalled'
      /\ outboxStage'[w] = s /\ current'[w] = e
      /\ \A v \in OutboxWorker : v # w => outboxStage'[v] = outboxStage[v] /\ current'[v] = current[v]
      /\ \A e2 \in OutboxEvent : Bridging(e2)' \subseteq Bridging(e2)
      /\ Role[w] = "bridge" => w \in Bridging(e) /\ w \notin Bridging(e)'
      /\ r \notin outlasted => HasClaim(w, r) /\ Open(r)
  BY <1>2, <1>8, BeginKeeps
<1>10. TicketsCover'
  <2> SUFFICES ASSUME NEW e2 \in OutboxEvent PROVE ObserverFits(e2)' /\ OracleFits(e2)' /\ CortexFits(e2)'
    BY CoverParts
  <2>1. ObserverFits(e2) /\ OracleFits(e2) /\ CortexFits(e2)
    BY CoverParts DEF OutboxInv
  <2>2. /\ <<e2, "observer">> \in Delivery /\ <<e2, "integrity_sdk">> \in Delivery /\ <<e2, "cortex">> \in Delivery
    BY Rows DEF Destination
  <2>3. /\ Role[w] \in {"drain", "consumer", "bridge"}
        /\ r[2] = "observer" <=> Role[w] = "drain"
        /\ r[2] = "integrity_sdk" <=> Role[w] = "consumer"
        /\ r[2] = "cortex" <=> Role[w] = "bridge"
    BY <1>1, <1>3, Kinds
  <2>4. ObserverFits(e2)'
    <3>1. CASE r = <<e2, "observer">>
      <4>1. e2 = e /\ n = 1
        BY <1>3, <1>6, <2>3, <3>1
      <4>2. calls[e] >= 1
        BY <1>1 DEF EventsCalled, Begin
      <4>3. QED
        BY <1>4, <1>7, <3>1, <4>1, <4>2 DEF ObserverFits
    <3>2. CASE r # <<e2, "observer">>
      BY <1>4, <1>7, <2>1, <2>2, <3>2 DEF ObserverFits
    <3>3. QED
      BY <3>1, <3>2
  <2>5. OracleFits(e2)'
    <3>1. CASE r = <<e2, "integrity_sdk">>
      <4>1. e2 = e /\ n = taken[r] + 1 /\ Role[w] = "consumer"
        BY <1>3, <1>6, <2>3, <3>1
      <4>2. s = "delivered" => ~ Open(r)'
        BY <1>3, <1>9, SameRoles DEF Open, Accepting
      <4>3. \/ outboxFaults' = outboxFaults + 1
            \/ outboxFaults' = outboxFaults /\ ~ Open(r)'
        BY <4>2
      <4>4. r \notin outlasted => Open(r)
        BY <1>9
      <4>5. taken'[<<e2, "integrity_sdk">>] = taken[<<e2, "integrity_sdk">>] + 1
        BY <1>7, <3>1, <4>1
      <4>6. QED
        BY <1>1, <1>4, <1>8, <2>1, <3>1, <4>3, <4>4, <4>5, OracleReached
    <3>2. CASE r # <<e2, "integrity_sdk">>
      <4>1. taken'[<<e2, "integrity_sdk">>] = taken[<<e2, "integrity_sdk">>]
        BY <1>7, <2>2, <3>2
      <4>2. \A v \in OutboxWorker : ServesTarget(v) = "integrity_sdk" /\ current[v] = e2 /\ outboxStage[v] = "delivered" => v # w
        BY DEF Begin
      <4>3. Open(<<e2, "integrity_sdk">>)' => Open(<<e2, "integrity_sdk">>)
        BY <1>9, <4>2, SameRoles DEF Open, Accepting, Begin, queue
      <4>4. QED
        BY <1>1, <1>4, <1>8, <2>1, <4>1, <4>3, OracleStays
    <3>3. QED
      BY <3>1, <3>2
  <2>6. CortexFits(e2)'
    <3>1. CASE r = <<e2, "cortex">>
      <4>1. e2 = e /\ n = taken[r] + 1 /\ Role[w] = "bridge"
        BY <1>3, <1>6, <2>3, <3>1
      <4>2. w \in Bridging(e2) /\ Bridging(e2)' \subseteq Bridging(e2) \ {w}
        BY <1>9, <4>1
      <4>3. taken'[<<e2, "cortex">>] = taken[<<e2, "cortex">>] + 1
        BY <1>7, <3>1, <4>1
      <4>4. QED
        BY <1>1, <1>4, <1>8, <2>1, <4>2, <4>3, CortexServed
    <3>2. CASE r # <<e2, "cortex">>
      <4>1. taken'[<<e2, "cortex">>] = taken[<<e2, "cortex">>] /\ Bridging(e2)' \subseteq Bridging(e2)
        BY <1>7, <1>9, <2>2, <3>2
      <4>2. QED
        BY <1>1, <1>4, <1>8, <2>1, <4>1, CortexStays
    <3>3. QED
      BY <3>1, <3>2
  <2>7. QED
    BY <2>4, <2>5, <2>6
<1>11. QED
  BY <1>8, <1>9, <1>10 DEF OutboxInv

LEMMA DeliverKeeps ==
  ASSUME OutboxInv, deployment' = deployment, NEW w \in OutboxWorker, NEW e \in OutboxEvent,
         Deliver(w, e) \/ DeliveryFailsLate(w, e)
  PROVE  OutboxInv'
<1>1. Begin(w, e) /\ taken' = [taken EXCEPT ![Row(w, e)] = Accepted(w, Row(w, e))] /\ outlasted' = outlasted
  BY DEF Deliver, DeliveryFailsLate, faults
<1>2. CASE Deliver(w, e)
  BY <1>1, <1>2, AcceptKeeps DEF Deliver, faults
<1>3. CASE DeliveryFailsLate(w, e)
  BY <1>1, <1>3, AcceptKeeps DEF DeliveryFailsLate, OutboxFault
<1>4. QED
  BY <1>2, <1>3

-----------------------------------------------------------------------------
(* Steps that reach no destination *)

\* They keep what was paid for, if they open nothing that is not paid for again.
LEMMA QuietCovers ==
  ASSUME OutboxInv, OutboxTypes', outlasted \subseteq outlasted', UNCHANGED <<taken, calls>>,
         outboxFaults' >= outboxFaults,
         \A e \in OutboxEvent : Bridging(e)' \subseteq Bridging(e),
         \A r \in Delivery \ outlasted' :
             Open(r)' => Open(r) \/ outboxFaults' > outboxFaults
  PROVE  TicketsCover'
<1> SUFFICES ASSUME NEW e \in OutboxEvent PROVE ObserverFits(e)' /\ OracleFits(e)' /\ CortexFits(e)'
  BY CoverParts
<1>1. ObserverFits(e) /\ OracleFits(e) /\ CortexFits(e) /\ OutboxTypes
  BY CoverParts DEF OutboxInv
<1>2. /\ taken' = taken /\ calls' = calls /\ calls[e] \in Nat /\ calls'[e] >= calls[e]
      /\ outboxFaults \in Nat /\ outboxFaults' \in Nat /\ <<e, "integrity_sdk">> \in Delivery
  <2>1. calls[e] \in Nat /\ outboxFaults \in Nat /\ outboxFaults' \in Nat
    BY <1>1, Numbers, NumbersAfter DEF Destination
  <2>2. <<e, "integrity_sdk">> \in Delivery
    BY Rows DEF Destination
  <2>3. QED
    BY <2>1, <2>2
<1>3. ObserverFits(e)'
  BY <1>1, <1>2 DEF ObserverFits
<1>4. OracleFits(e)'
  <2>1. <<e, "integrity_sdk">> \notin outlasted' /\ Open(<<e, "integrity_sdk">>)' =>
             \/ Open(<<e, "integrity_sdk">>)
             \/ calls'[e] + outboxFaults' > calls[e] + outboxFaults
    BY <1>2
  <2>2. QED
    BY <1>1, <1>2, <2>1, OracleStays
<1>5. CortexFits(e)'
  BY <1>1, <1>2, CortexStays
<1>6. QED
  BY <1>3, <1>4, <1>5

LEMMA FailsKeeps ==
  ASSUME OutboxInv, deployment' = deployment, NEW w \in OutboxWorker, NEW e \in OutboxEvent, DeliveryFails(w, e)
  PROVE  OutboxInv'
<1>1. OutboxTypes
  BY DEF OutboxInv
<1>2. /\ Begin(w, e) /\ outboxStage' = [outboxStage EXCEPT ![w] = "failed"]
      /\ UNCHANGED <<taken, calls, outboxFaults, outlasted, queue, seen>>
      /\ outboxBatch' = [outboxBatch EXCEPT ![w] = outboxBatch[w] \ {e}]
      /\ current' = [current EXCEPT ![w] = e] /\ outboxStage[w] = "idle"
  BY DEF DeliveryFails, Begin, faults
<1>3. OutboxTypes'
  BY <1>1, <1>2 DEF OutboxTypes, queue
<1>4. /\ WorkersFit' /\ ClaimsExclusive' /\ EventsCalled'
      /\ \A v \in OutboxWorker : v # w => outboxStage'[v] = outboxStage[v] /\ current'[v] = current[v]
      /\ \A e2 \in OutboxEvent : Bridging(e2)' \subseteq Bridging(e2)
  BY <1>2, <1>3, BeginKeeps
<1>5. TicketsCover'
  <2>1. \A r \in Delivery : Open(r)' => Open(r)
    BY <1>2, <1>4, SameRoles DEF Open, Accepting, queue
  <2>2. outboxFaults' >= outboxFaults
    BY <1>1, <1>2 DEF OutboxTypes
  <2>3. QED
    BY <1>2, <1>3, <1>4, <2>1, <2>2, QuietCovers
<1>6. QED
  BY <1>3, <1>4, <1>5 DEF OutboxInv

\* Workers go on with their event, or let it go, and take no other.
LEMMA LetGoKeeps ==
  ASSUME OutboxInv, OutboxTypes', deployment' = deployment, outlasted' = outlasted, calls' = calls,
         \A v \in OutboxWorker : outboxBatch'[v] \subseteq outboxBatch[v],
         \A v \in OutboxWorker :
            \/ current'[v] = current[v] /\ outboxStage'[v] = outboxStage[v]
            \/ current'[v] = NoOutboxEvent /\ outboxStage'[v] = "idle"
            \/ /\ current'[v] = current[v] /\ outboxStage[v] \in {"delivered", "failed"}
               /\ outboxStage'[v] \in {"failed", "failing"},
         \A r \in Delivery \ outlasted, v \in OutboxWorker :
            HasClaim(v, r)' => delivery'[r] = delivery[r] /\ (r \in outboxOver' => r \in outboxOver),
         \A r \in Delivery : delivery'[r] # "none" => delivery[r] # "none"
  PROVE  /\ WorkersFit' /\ ClaimsExclusive' /\ EventsCalled'
         /\ \A e \in OutboxEvent : Bridging(e)' \subseteq Bridging(e)
<1>1. OutboxTypes /\ WorkersFit /\ ClaimsExclusive /\ EventsCalled
  BY DEF OutboxInv
<1>2. \A e \in OutboxEvent : e # NoOutboxEvent /\ calls[e] \in Nat
  BY <1>1, OutboxAssumption DEF OutboxTypes
<1>3. WorkersFit'
  BY <1>1, SameRoles DEF WorkersFit
<1>4. \A v \in OutboxWorker, e \in OutboxEvent : Working(v, e)' => Working(v, e)
  BY <1>2 DEF Working
<1>5. \A r \in Delivery, v \in OutboxWorker : HasClaim(v, r)' => HasClaim(v, r)
  BY <1>4, SameRoles, Rows DEF HasClaim
<1>6. \A r \in Delivery \ outlasted', v \in OutboxWorker : HasClaim(v, r)' =>
            /\ HasClaim(v, r)
            /\ delivery'[r] = "in_flight" /\ r \notin outboxOver'
            /\ ~ (r[1] \in outboxBatch'[v] /\ Working(v, r[1])')
  BY <1>1, <1>4, <1>5, Rows DEF ClaimsExclusive
<1>7. ClaimsExclusive'
  BY <1>6, ClaimsLetGo
<1>8. EventsCalled'
  <2>1. \A v \in OutboxWorker, e \in OutboxEvent :
            e \in outboxBatch'[v] \cup {current'[v]} => e \in outboxBatch[v] \cup {current[v]}
    BY <1>2
  <2>2. \A e \in OutboxEvent : calls'[e] >= calls[e]
    BY <1>2
  <2>3. QED
    BY <2>1, <2>2, CallsOnly
<1>9. \A e \in OutboxEvent : Bridging(e)' \subseteq Bridging(e)
  <2>1. \A v \in OutboxWorker, e \in OutboxEvent : v \in Bridging(e)' => v \in Bridging(e)
    BY <1>2, SameRoles DEF Bridging
  <2>2. \A e : Bridging(e)' \subseteq OutboxWorker
    BY DEF Bridging
  <2>3. QED
    BY <2>1, <2>2
<1>10. QED
  BY <1>3, <1>7, <1>8, <1>9

\* The claim that was let go: nobody else has it.
LEMMA Released ==
  ASSUME OutboxInv, deployment' = deployment, NEW w \in OutboxWorker,
         outboxStage[w] \in {"delivered", "failed", "failing"},
         NEW r \in Delivery \ outlasted, r = Row(w, current[w]),
         Settle(w), outboxBatch' = outboxBatch
  PROVE  \A v \in OutboxWorker : ~ HasClaim(v, r)'
<1>1. PICK e : e = current[w]
  OBVIOUS
<1>2. r = Row(w, e)
  BY <1>1
<1>3. /\ OutboxTypes /\ WorkersFit /\ ClaimsExclusive /\ e \in OutboxEvent
      /\ r \in Delivery /\ r[1] = e /\ r[2] = ServesTarget(w) /\ e # NoOutboxEvent
  BY <1>1, <1>2, AtEvent, WorkersRow, OutboxAssumption DEF OutboxInv
<1>4. HasClaim(w, r) /\ e \notin outboxBatch[w]
  BY <1>1, <1>2, <1>3, Holder
<1>5. \A v \in OutboxWorker : v # w => ~ HasClaim(v, r)
  BY <1>1, <1>2, <1>3, <1>4 DEF ClaimsExclusive
<1>6. /\ current'[w] = NoOutboxEvent
      /\ \A v \in OutboxWorker : v # w => current'[v] = current[v] /\ outboxStage'[v] = outboxStage[v]
  BY <1>3 DEF Settle, OutboxTypes
<1>7. QED
  BY <1>3, <1>4, <1>5, <1>6, SameRoles DEF HasClaim, Working

\* Nobody else is about to acknowledge what a worker has a claim of.
LEMMA NobodyElseAccepts ==
  ASSUME OutboxInv, NEW w \in OutboxWorker, outboxStage[w] \in {"failed", "failing"},
         Row(w, current[w]) \notin outlasted
  PROVE  Open(Row(w, current[w]))
<1>1. /\ OutboxTypes /\ WorkersFit /\ ClaimsExclusive /\ Row(w, current[w]) \in Delivery
      /\ Row(w, current[w])[1] = current[w] /\ Row(w, current[w])[2] = ServesTarget(w)
  BY AtEvent, WorkersRow DEF OutboxInv
<1>2. HasClaim(w, Row(w, current[w])) /\ delivery[Row(w, current[w])] = "in_flight"
  BY <1>1, Holder
<1>3. SUFFICES ASSUME NEW v \in OutboxWorker, ServesTarget(v) = ServesTarget(w), current[v] = current[w],
                      outboxStage[v] = "delivered"
               PROVE  FALSE
  BY <1>1, <1>2 DEF Open, Accepting, Unsettled
<1>4. HasClaim(v, Row(w, current[w]))
  BY <1>1, <1>3 DEF HasClaim, Working
<1>5. v = w
  BY <1>1, <1>2, <1>4 DEF ClaimsExclusive
<1>6. QED
  BY <1>3, <1>5

\* One worker moves: the events others are about to acknowledge stay theirs.
LEMMA OthersAccept ==
  ASSUME OutboxTypes, WorkersFit, deployment' = deployment, NEW w \in OutboxWorker,
         \A v \in OutboxWorker : v # w => current'[v] = current[v] /\ outboxStage'[v] = outboxStage[v]
  PROVE  /\ \A r \in Delivery : r # Row(w, current[w]) /\ Accepting(r) => Accepting(r)'
         /\ outboxStage[w] # "delivered" => \A r : Accepting(r) => Accepting(r)'
<1>1. \A r \in Delivery : r # Row(w, current[w]) => ~ (ServesTarget(w) = r[2] /\ current[w] = r[1])
  BY Rows DEF Row
<1>2. QED
  BY <1>1, SameRoles DEF Accepting

\* Settle, for the worker and the others.
LEMMA Settled ==
  ASSUME OutboxTypes, NEW w \in OutboxWorker, Settle(w)
  PROVE  /\ current'[w] = NoOutboxEvent /\ outboxStage'[w] = "idle"
         /\ \A v \in OutboxWorker : v # w => current'[v] = current[v] /\ outboxStage'[v] = outboxStage[v]
         /\ current' \in [OutboxWorker -> OutboxEvent \cup {NoOutboxEvent}]
         /\ outboxStage' \in [OutboxWorker -> {"idle", "queued", "delivered", "failed", "failing"}]
BY DEF Settle, OutboxTypes

\* ack, and the second statement of fail: the row of the worker's event is written.
LEMMA WriteRowKeeps ==
  ASSUME OutboxInv, deployment' = deployment, NEW w \in OutboxWorker,
         NEW d \in Unsettled \cup OutboxTerminal,
         \/ outboxStage[w] = "delivered" /\ delivery[Row(w, current[w])] = "in_flight" /\ d = "acked"
         \/ outboxStage[w] = "failing" /\ d # "in_flight",
         delivery' = [delivery EXCEPT ![Row(w, current[w])] = d],
         outboxOver' = outboxOver \ {Row(w, current[w])},
         Settle(w), seen' \in [OutboxWorker -> Nat],
         UNCHANGED <<deliveryAttempts, outboxBatch, taken, calls, faults>>
  PROVE  OutboxInv'
<1>1. PICK r : r = Row(w, current[w])
  OBVIOUS
<1>2. /\ OutboxTypes /\ WorkersFit /\ r \in Delivery /\ current[w] \in OutboxEvent
      /\ r[1] = current[w] /\ r[2] = ServesTarget(w) /\ EventsCalled
  BY <1>1, AtEvent, WorkersRow DEF OutboxInv
<1>3. /\ delivery' = [delivery EXCEPT ![r] = d] /\ outboxOver' = outboxOver \ {r}
      /\ delivery \in [Delivery -> Unsettled \cup OutboxTerminal \cup {"none"}]
      /\ outboxOver \subseteq {r2 \in Delivery : delivery[r2] = "in_flight"}
  BY <1>1, <1>2 DEF OutboxTypes
<1>4. /\ delivery'[r] = d /\ \A r2 \in Delivery : r2 # r => delivery'[r2] = delivery[r2]
      /\ delivery' \in [Delivery -> Unsettled \cup OutboxTerminal \cup {"none"}]
      /\ outboxOver' \subseteq {r2 \in Delivery : delivery'[r2] = "in_flight"} /\ outboxOver' \subseteq outboxOver
  <2>1. delivery'[r] = d /\ \A r2 \in Delivery : r2 # r => delivery'[r2] = delivery[r2]
    BY <1>2, <1>3
  <2>2. delivery' \in [Delivery -> Unsettled \cup OutboxTerminal \cup {"none"}]
    BY <1>2, <1>3
  <2>3. outboxOver' \subseteq {r2 \in Delivery : delivery'[r2] = "in_flight"} /\ outboxOver' \subseteq outboxOver
    BY <1>3, <2>1
  <2>4. QED
    BY <2>1, <2>2, <2>3
<1>5. /\ current'[w] = NoOutboxEvent /\ outboxStage'[w] = "idle"
      /\ \A v \in OutboxWorker : v # w => current'[v] = current[v] /\ outboxStage'[v] = outboxStage[v]
      /\ current' \in [OutboxWorker -> OutboxEvent \cup {NoOutboxEvent}]
      /\ outboxStage' \in [OutboxWorker -> {"idle", "queued", "delivered", "failed", "failing"}]
  BY <1>2, Settled
<1>6. OutboxTypes'
  BY <1>2, <1>4, <1>5 DEF OutboxTypes, faults
<1>7. calls' = calls /\ outlasted' = outlasted /\ taken' = taken /\ outboxFaults' = outboxFaults
      /\ outboxFaults \in Nat /\ outboxBatch' = outboxBatch
  BY <1>2 DEF faults, OutboxTypes
\* A row that was outlasted may have been given up: it stays one that was called for.
<1>8. r \notin outlasted => delivery[r] = "in_flight" /\ \A v \in OutboxWorker : ~ HasClaim(v, r)'
  <2> SUFFICES ASSUME r \notin outlasted
               PROVE  delivery[r] = "in_flight" /\ \A v \in OutboxWorker : ~ HasClaim(v, r)'
    OBVIOUS
  <2>1. delivery[r] = "in_flight"
    BY <1>1, <1>2, Holder DEF OutboxInv
  <2>2. \A v \in OutboxWorker : ~ HasClaim(v, r)'
    BY <1>1, <1>2, Released
  <2>3. QED
    BY <2>1, <2>2
<1>9. calls[r[1]] >= 1 /\ calls[r[1]] \in Nat
  BY <1>2 DEF EventsCalled, OutboxTypes
<1>10. ClaimsExclusive'
  <2>1. \A r2 \in Delivery \ outlasted', v \in OutboxWorker : HasClaim(v, r2)' =>
            /\ HasClaim(v, r2)
            /\ delivery'[r2] = "in_flight" /\ r2 \notin outboxOver'
            /\ ~ (r2[1] \in outboxBatch'[v] /\ Working(v, r2[1])')
    <3> SUFFICES ASSUME NEW r2 \in Delivery \ outlasted, NEW v \in OutboxWorker, HasClaim(v, r2)'
                 PROVE  /\ HasClaim(v, r2) /\ delivery'[r2] = "in_flight" /\ r2 \notin outboxOver'
                        /\ ~ (r2[1] \in outboxBatch'[v] /\ Working(v, r2[1])')
      BY <1>7
    <3>1. r2 # r /\ r2[1] \in OutboxEvent /\ r2[1] # NoOutboxEvent
      BY <1>8, Rows, OutboxAssumption
    <3>2. Working(v, r2[1])' => Working(v, r2[1])
      BY <1>5, <3>1 DEF Working
    <3>3. HasClaim(v, r2)
      BY <1>7, <3>2, SameRoles DEF HasClaim
    <3>4. QED
      BY <1>4, <1>7, <3>1, <3>2, <3>3 DEF OutboxInv, ClaimsExclusive
  <2>2. QED
    BY <1>7, <2>1, ClaimsLetGo
<1>11. WorkersFit'
  BY <1>2, <1>5, <1>7, SameRoles DEF WorkersFit
<1>12. EventsCalled'
  <2>1. \A e \in OutboxEvent : e # NoOutboxEvent /\ calls[e] \in Nat /\ calls'[e] >= calls[e]
    BY <1>2, <1>7, OutboxAssumption DEF OutboxTypes
  <2>2. \A v \in OutboxWorker, e \in OutboxEvent :
            e \in outboxBatch'[v] \cup {current'[v]} => e \in outboxBatch[v] \cup {current[v]}
    BY <1>5, <1>7, <2>1
  <2>3. \A r2 \in Delivery : delivery'[r2] # "none" => delivery[r2] # "none" \/ calls'[r2[1]] >= 1
    BY <1>4, <1>7, <1>9
  <2>4. QED
    BY <1>6, <2>1, <2>2, <2>3, CallsOnly
<1>13. TicketsCover'
  <2>1. \A e \in OutboxEvent : Bridging(e)' \subseteq Bridging(e)
    <3>1. \A v \in OutboxWorker, e \in OutboxEvent : v \in Bridging(e)' => v \in Bridging(e)
      BY <1>5, <1>7, SameRoles, OutboxAssumption DEF Bridging
    <3>2. \A e : Bridging(e)' \subseteq OutboxWorker
      BY DEF Bridging
    <3>3. QED
      BY <3>1, <3>2
  <2>2. \A r2 \in Delivery \ outlasted : Open(r2)' => Open(r2)
    <3> SUFFICES ASSUME NEW r2 \in Delivery \ outlasted, Open(r2)' PROVE Open(r2)
      OBVIOUS
    <3>1. CASE r2 = r
      <4>1. outboxStage[w] = "failing"
        BY <1>4, <3>1 DEF Open, Unsettled
      <4>2. QED
        BY <1>1, <3>1, <4>1, NobodyElseAccepts
    <3>2. CASE r2 # r
      BY <1>1, <1>2, <1>4, <1>5, <3>2, OthersAccept DEF Open
    <3>3. QED
      BY <3>1, <3>2
  <2>3. QED
    BY <1>6, <1>7, <2>1, <2>2, QuietCovers
<1>14. QED
  BY <1>6, <1>10, <1>11, <1>12, <1>13 DEF OutboxInv

LEMMA AckKeeps ==
  ASSUME OutboxInv, deployment' = deployment, NEW w \in OutboxWorker, Ack(w)
  PROVE  OutboxInv'
<1>1. PICK d \in Unsettled \cup OutboxTerminal : d = "acked"
  BY DEF OutboxTerminal
<1>2. seen' \in [OutboxWorker -> Nat]
  BY DEF Ack, OutboxInv, OutboxTypes
<1>3. QED
  BY <1>1, <1>2, WriteRowKeeps DEF Ack

LEMMA FailWriteKeeps ==
  ASSUME OutboxInv, deployment' = deployment, NEW w \in OutboxWorker, FailWrite(w)
  PROVE  OutboxInv'
<1>1. PICK d \in Unsettled \cup OutboxTerminal : d = Verdict(seen[w]) /\ d # "in_flight"
  BY DEF Verdict, OutboxTerminal, Unsettled
<1>2. seen' \in [OutboxWorker -> Nat]
  BY DEF FailWrite, OutboxInv, OutboxTypes
<1>3. QED
  BY <1>1, <1>2, WriteRowKeeps DEF FailWrite

\* A worker's own step beside the queue: it goes on with its event or lets it go.
LEMMA OwnStepKeeps ==
  ASSUME OutboxInv, OutboxTypes', deployment' = deployment, NEW w \in OutboxWorker,
         UNCHANGED <<queue, taken, calls, outlasted>>, outboxFaults' >= outboxFaults,
         \A v \in OutboxWorker : outboxBatch'[v] \subseteq outboxBatch[v],
         \A v \in OutboxWorker : v # w => current'[v] = current[v] /\ outboxStage'[v] = outboxStage[v],
         \/ current'[w] = NoOutboxEvent /\ outboxStage'[w] = "idle"
         \/ /\ current'[w] = current[w] /\ outboxStage[w] \in {"delivered", "failed"}
            /\ outboxStage'[w] \in {"failed", "failing"},
         \/ outboxFaults' > outboxFaults
         \/ outboxStage[w] # "delivered"
         \/ delivery[Row(w, current[w])] # "in_flight"
  PROVE  OutboxInv'
<1>1. OutboxTypes /\ WorkersFit
  BY DEF OutboxInv
<1>2. delivery' = delivery /\ outboxOver' = outboxOver /\ outlasted' = outlasted /\ calls' = calls /\ taken' = taken
  BY DEF queue
<1>3. /\ WorkersFit' /\ ClaimsExclusive' /\ EventsCalled'
      /\ \A e \in OutboxEvent : Bridging(e)' \subseteq Bridging(e)
  BY <1>2, LetGoKeeps
<1>4. \A r \in Delivery \ outlasted' : Open(r)' => Open(r) \/ outboxFaults' > outboxFaults
  <2> SUFFICES ASSUME NEW r \in Delivery \ outlasted, Open(r)', ~ (outboxFaults' > outboxFaults) PROVE Open(r)
    BY <1>2
  <2>1. CASE outboxStage[w] # "delivered"
    BY <1>1, <1>2, <2>1, OthersAccept DEF Open
  <2>2. CASE outboxStage[w] = "delivered"
    <3>1. r # Row(w, current[w])
      BY <1>1, <2>2, Holder DEF OutboxInv
    <3>2. QED
      BY <1>1, <1>2, <3>1, OthersAccept DEF Open
  <2>3. QED
    BY <2>1, <2>2
<1>5. TicketsCover'
  BY <1>2, <1>3, <1>4, QuietCovers
<1>6. QED
  BY <1>3, <1>5 DEF OutboxInv

LEMMA AckRefusedKeeps ==
  ASSUME OutboxInv, deployment' = deployment, NEW w \in OutboxWorker, AckRefused(w)
  PROVE  OutboxInv'
<1>1. OutboxTypes /\ outboxFaults \in Nat
  BY DEF OutboxInv, OutboxTypes
<1>2. /\ outboxStage[w] = "delivered" /\ delivery[Row(w, current[w])] # "in_flight"
      /\ UNCHANGED <<queue, outboxBatch, seen, taken, calls, outboxFaults, outlasted>>
  BY DEF AckRefused, faults
<1>3. /\ current' \in [OutboxWorker -> OutboxEvent \cup {NoOutboxEvent}]
      /\ outboxStage' \in [OutboxWorker -> {"idle", "queued", "delivered", "failed", "failing"}]
      /\ \A v \in OutboxWorker : v # w => current'[v] = current[v] /\ outboxStage'[v] = outboxStage[v]
      /\ \/ current'[w] = NoOutboxEvent /\ outboxStage'[w] = "idle"
         \/ current'[w] = current[w] /\ outboxStage'[w] = "failed"
  <2>1. CASE Settle(w)
    BY <1>1, <2>1, Settled
  <2>2. CASE outboxStage' = [outboxStage EXCEPT ![w] = "failed"] /\ current' = current
    BY <1>1, <2>2 DEF OutboxTypes
  <2>3. QED
    BY <2>1, <2>2 DEF AckRefused
<1>4. OutboxTypes'
  BY <1>1, <1>2, <1>3 DEF OutboxTypes, queue
<1>5. QED
  BY <1>1, <1>2, <1>3, <1>4, OwnStepKeeps

LEMMA FailReadKeeps ==
  ASSUME OutboxInv, deployment' = deployment, NEW w \in OutboxWorker, FailRead(w)
  PROVE  OutboxInv'
<1>1. OutboxTypes /\ WorkersFit /\ outboxFaults \in Nat
  BY DEF OutboxInv, OutboxTypes
<1>2. /\ outboxStage[w] = "failed" /\ outboxStage' = [outboxStage EXCEPT ![w] = "failing"]
      /\ seen' = [seen EXCEPT ![w] = deliveryAttempts[Row(w, current[w])]]
      /\ UNCHANGED <<queue, outboxBatch, current, taken, calls, outboxFaults, outlasted>>
  BY DEF FailRead, faults
<1>3. PICK n \in Nat : n = deliveryAttempts[Row(w, current[w])]
  BY <1>1, <1>2, AtEvent DEF OutboxTypes
<1>4. /\ outboxStage' \in [OutboxWorker -> {"idle", "queued", "delivered", "failed", "failing"}]
      /\ seen' \in [OutboxWorker -> Nat] /\ outboxStage'[w] = "failing"
      /\ \A v \in OutboxWorker : v # w => current'[v] = current[v] /\ outboxStage'[v] = outboxStage[v]
  BY <1>1, <1>2, <1>3 DEF OutboxTypes
<1>5. OutboxTypes'
  BY <1>1, <1>2, <1>4 DEF OutboxTypes, queue
<1>6. QED
  BY <1>1, <1>2, <1>4, <1>5, OwnStepKeeps

LEMMA FailRefusedKeeps ==
  ASSUME OutboxInv, deployment' = deployment, NEW w \in OutboxWorker, FailRefused(w)
  PROVE  OutboxInv'
<1>1. OutboxTypes /\ outboxFaults \in Nat
  BY DEF OutboxInv, OutboxTypes
<1>2. /\ outboxStage[w] = "failed" /\ Settle(w)
      /\ UNCHANGED <<queue, seen, taken, calls, outboxFaults, outlasted>>
  BY DEF FailRefused, faults
<1>3. /\ outboxBatch' \in [OutboxWorker -> SUBSET OutboxEvent]
      /\ \A v \in OutboxWorker : outboxBatch'[v] \subseteq outboxBatch[v]
  BY <1>1 DEF FailRefused, OutboxTypes
<1>4. /\ current'[w] = NoOutboxEvent /\ outboxStage'[w] = "idle"
      /\ \A v \in OutboxWorker : v # w => current'[v] = current[v] /\ outboxStage'[v] = outboxStage[v]
      /\ current' \in [OutboxWorker -> OutboxEvent \cup {NoOutboxEvent}]
      /\ outboxStage' \in [OutboxWorker -> {"idle", "queued", "delivered", "failed", "failing"}]
  BY <1>1, <1>2, Settled
<1>5. OutboxTypes'
  BY <1>1, <1>2, <1>3, <1>4 DEF OutboxTypes, queue
<1>6. QED
  BY <1>1, <1>2, <1>3, <1>4, <1>5, OwnStepKeeps

LEMMA CrashKeeps ==
  ASSUME OutboxInv, deployment' = deployment, NEW w \in OutboxWorker, Crash(w)
  PROVE  OutboxInv'
<1>1. OutboxTypes /\ outboxFaults \in Nat
  BY DEF OutboxInv, OutboxTypes
<1>2. /\ outboxFaults' = outboxFaults + 1 /\ Settle(w) /\ UNCHANGED <<queue, taken, calls, outlasted>>
      /\ outboxBatch' = [outboxBatch EXCEPT ![w] = {}] /\ seen' = [seen EXCEPT ![w] = 0]
  BY DEF Crash, OutboxFault
<1>3. /\ outboxBatch' \in [OutboxWorker -> SUBSET OutboxEvent] /\ seen' \in [OutboxWorker -> Nat]
      /\ \A v \in OutboxWorker : outboxBatch'[v] \subseteq outboxBatch[v]
      /\ outboxFaults' \in Nat /\ outboxFaults' > outboxFaults /\ outboxFaults' >= outboxFaults
  BY <1>1, <1>2 DEF OutboxTypes
<1>4. /\ current'[w] = NoOutboxEvent /\ outboxStage'[w] = "idle"
      /\ \A v \in OutboxWorker : v # w => current'[v] = current[v] /\ outboxStage'[v] = outboxStage[v]
      /\ current' \in [OutboxWorker -> OutboxEvent \cup {NoOutboxEvent}]
      /\ outboxStage' \in [OutboxWorker -> {"idle", "queued", "delivered", "failed", "failing"}]
  BY <1>1, <1>2, Settled
<1>5. OutboxTypes'
  BY <1>1, <1>2, <1>3, <1>4 DEF OutboxTypes, queue
<1>6. QED
  BY <1>1, <1>2, <1>3, <1>4, <1>5, OwnStepKeeps

-----------------------------------------------------------------------------
(* Time *)

\* Steps of the clock and of prune: the rows they write are nobody's.
LEMMA ClockKeeps ==
  ASSUME OutboxInv, OutboxTypes', deployment' = deployment, UNCHANGED workerState, UNCHANGED <<taken, calls>>,
         outlasted \subseteq outlasted', outboxFaults' >= outboxFaults,
         \A r \in Delivery : delivery'[r] \in {delivery[r], "none"},
         \A r \in Delivery \ outlasted', w \in OutboxWorker :
            HasClaim(w, r) => delivery'[r] = delivery[r] /\ (r \in outboxOver' => r \in outboxOver)
  PROVE  OutboxInv'
<1>1. OutboxTypes /\ WorkersFit /\ ClaimsExclusive /\ EventsCalled /\ outboxBatch' = outboxBatch /\ current' = current
  BY DEF OutboxInv, workerState
<1>2. WorkersFit'
  BY <1>1, SameWork
<1>3. ClaimsExclusive'
  <2>1. \A r \in Delivery \ outlasted', w \in OutboxWorker : HasClaim(w, r)' =>
            /\ HasClaim(w, r)
            /\ delivery'[r] = "in_flight" /\ r \notin outboxOver'
            /\ ~ (r[1] \in outboxBatch'[w] /\ Working(w, r[1])')
    BY <1>1, SameWork DEF ClaimsExclusive
  <2>2. QED
    BY <2>1, ClaimsLetGo
<1>4. EventsCalled'
  BY <1>1, CallsOnly DEF OutboxTypes
<1>5. TicketsCover'
  <2>1. \A r \in Delivery : Open(r)' => Open(r)
    BY SameWork DEF Open, Unsettled
  <2>2. \A e \in OutboxEvent : Bridging(e)' \subseteq Bridging(e)
    BY SameWork
  <2>3. QED
    BY <2>1, <2>2, QuietCovers
<1>6. QED
  BY <1>2, <1>3, <1>4, <1>5 DEF OutboxInv

LEMMA Holding ==
  ASSUME NEW r \in Delivery, NEW w \in OutboxWorker, HasClaim(w, r)
  PROVE  Busy(r)
BY DEF HasClaim, Working, Busy

LEMMA RunsOutKeeps ==
  ASSUME OutboxInv, deployment' = deployment, NEW r \in Delivery, DeliveryLeaseRunsOut(r)
  PROVE  OutboxInv'
<1>1. OutboxTypes /\ outboxFaults \in Nat
  BY DEF OutboxInv, OutboxTypes
<1>a. delivery[r] = "in_flight" /\ outboxOver' = outboxOver \cup {r}
  BY DEF DeliveryLeaseRunsOut
<1>b. UNCHANGED workerState
  BY DEF DeliveryLeaseRunsOut
<1>2. UNCHANGED <<delivery, deliveryAttempts, taken, calls, outboxBatch, current, outboxStage, seen>>
  BY DEF DeliveryLeaseRunsOut, workerState
<1>3. /\ Busy(r) => outboxFaults' = outboxFaults + 1 /\ outlasted' = outlasted \cup {r}
      /\ ~ Busy(r) => outboxFaults' = outboxFaults /\ outlasted' = outlasted
  BY DEF DeliveryLeaseRunsOut, OutboxFault, faults
<1>4. /\ outlasted \subseteq outlasted' /\ outboxFaults' >= outboxFaults /\ outboxFaults' \in Nat
      /\ outlasted' \subseteq Delivery
      /\ Busy(r) => r \in outlasted'
  BY <1>1, <1>3 DEF OutboxTypes
<1>5. OutboxTypes'
  <2>1. outboxOver' \subseteq {r2 \in Delivery : delivery'[r2] = "in_flight"}
    BY <1>1, <1>a, <1>2 DEF OutboxTypes
  <2>2. QED
    BY <1>1, <1>2, <1>4, <2>1 DEF OutboxTypes
<1>6. \A r2 \in Delivery \ outlasted', w \in OutboxWorker :
            HasClaim(w, r2) => delivery'[r2] = delivery[r2] /\ (r2 \in outboxOver' => r2 \in outboxOver)
  <2>1. \A r2 \in Delivery : r2 # r => (r2 \in outboxOver' => r2 \in outboxOver)
    BY <1>a
  <2>2. \A w \in OutboxWorker : r \notin outlasted' => ~ HasClaim(w, r)
    BY <1>4, Holding
  <2>3. QED
    BY <1>2, <2>1, <2>2
<1>7. QED
  BY <1>b, <1>2, <1>4, <1>5, <1>6, ClockKeeps

LEMMA PruneKeeps ==
  ASSUME OutboxInv, deployment' = deployment, NEW R \in SUBSET {r \in Delivery : Prunable(r)}, Prune(R)
  PROVE  OutboxInv'
<1>1. OutboxTypes /\ outboxFaults \in Nat
  BY DEF OutboxInv, OutboxTypes
<1>2. /\ delivery' = [r \in Delivery |-> IF r \in R THEN "none" ELSE delivery[r]]
      /\ UNCHANGED <<deliveryAttempts, outboxOver, workerState, taken, calls, outboxFaults, outlasted>>
  BY DEF Prune, faults
<1>3. /\ \A r \in Delivery : delivery'[r] \in {delivery[r], "none"}
      /\ \A r \in Delivery : r \notin R => delivery'[r] = delivery[r]
      /\ delivery' \in [Delivery -> Unsettled \cup OutboxTerminal \cup {"none"}]
  BY <1>1, <1>2 DEF OutboxTypes
<1>4. \A r \in R : delivery[r] # "in_flight" /\ ~ Busy(r)
  BY DEF Prunable, OutboxTerminal
<1>5. outboxOver' \subseteq {r \in Delivery : delivery'[r] = "in_flight"}
  BY <1>1, <1>2, <1>3, <1>4 DEF OutboxTypes
<1>6. OutboxTypes'
  BY <1>1, <1>2, <1>3, <1>5 DEF OutboxTypes, workerState
<1>7. \A r \in Delivery \ outlasted', w \in OutboxWorker :
            HasClaim(w, r) => delivery'[r] = delivery[r] /\ (r \in outboxOver' => r \in outboxOver)
  BY <1>2, <1>3, <1>4, Holding
<1>8. outlasted \subseteq outlasted' /\ outboxFaults' >= outboxFaults
  BY <1>1, <1>2
<1>9. QED
  BY <1>2, <1>3, <1>6, <1>7, <1>8, ClockKeeps

-----------------------------------------------------------------------------
(* The invariant and what it shows *)

LEMMA InitOutboxInv == OutboxInit => OutboxInv
<1> SUFFICES ASSUME OutboxInit PROVE OutboxInv
  OBVIOUS
<1>1. OutboxTypes
  BY DEF OutboxInit, OutboxTypes
<1>2. WorkersFit
  <2>1. \A w \in OutboxWorker : outboxBatch[w] = {} /\ current[w] = NoOutboxEvent /\ outboxStage[w] = "idle"
    BY DEF OutboxInit
  <2>2. QED
    BY <2>1 DEF WorkersFit
<1>3. \A w \in OutboxWorker, r \in Delivery : ~ HasClaim(w, r)
  <2>1. \A w \in OutboxWorker : outboxBatch[w] = {} /\ current[w] = NoOutboxEvent
    BY DEF OutboxInit
  <2>2. \A r \in Delivery : r[1] # NoOutboxEvent
    BY Rows, OutboxAssumption
  <2>3. QED
    BY <2>1, <2>2 DEF HasClaim, Working
<1>4. ClaimsExclusive
  BY <1>3 DEF ClaimsExclusive
<1>5. EventsCalled
  BY OutboxAssumption DEF OutboxInit, EventsCalled
<1>6. TicketsCover
  <2>1. \A e \in OutboxEvent : Bridging(e) = {}
    BY OutboxAssumption DEF OutboxInit, Bridging
  <2>2. Cardinality({}) = 0
    BY FS_EmptySet
  <2>3. \A e \in OutboxEvent : calls[e] = 0 /\ \A d \in Destination : taken[<<e, d>>] = 0 /\ ~ Open(<<e, d>>)
    BY Rows DEF OutboxInit, Open, Unsettled
  <2>4. outboxFaults = 0 /\ {"observer", "integrity_sdk", "cortex"} = Destination
    BY DEF OutboxInit, Destination
  <2>5. QED
    BY <2>1, <2>2, <2>3, <2>4 DEF TicketsCover
<1>7. QED
  BY <1>1, <1>2, <1>4, <1>5, <1>6 DEF OutboxInv

LEMMA StillOutboxInv == OutboxInv /\ UNCHANGED outboxVars => OutboxInv'
<1> SUFFICES ASSUME OutboxInv, UNCHANGED outboxVars PROVE OutboxInv'
  OBVIOUS
<1>1. /\ UNCHANGED <<delivery, deliveryAttempts, outboxOver, outboxBatch, current, outboxStage, seen, taken, calls,
                     outboxFaults, outlasted, deployment, workerState>>
  BY DEF outboxVars, state, queue, workerState, faults
<1>2. OutboxTypes'
  BY <1>1 DEF OutboxInv, OutboxTypes
<1>3. outlasted \subseteq outlasted' /\ outboxFaults' >= outboxFaults
  BY <1>1 DEF OutboxInv, OutboxTypes
<1>4. QED
  BY <1>1, <1>2, <1>3, ClockKeeps

LEMMA NextOutboxInv == OutboxInv /\ [OutboxNext]_outboxVars => OutboxInv'
<1> SUFFICES ASSUME OutboxInv, [OutboxNext]_outboxVars PROVE OutboxInv'
  OBVIOUS
<1>1. CASE UNCHANGED outboxVars
  BY <1>1, StillOutboxInv
<1>2. CASE Step /\ deployment' = deployment
  <2>1. CASE \E e \in OutboxEvent : \/ CaptureEvent(e)
                                    \/ \E w \in OutboxWorker : BridgeEnqueue(w, e) \/ BridgeUnqueued(w, e)
    BY <1>2, <2>1, CaptureKeeps, BridgeEnqueueKeeps, BridgeUnqueuedKeeps
  <2>2. CASE \E w \in OutboxWorker : ClaimDelivery(w) \/ Crash(w)
    BY <1>2, <2>2, ClaimKeeps, CrashKeeps
  <2>3. CASE \E w \in OutboxWorker : OutboxWork(w)
    BY <1>2, <2>3, BridgeClaimKeeps, AckKeeps, AckRefusedKeeps, FailReadKeeps, FailRefusedKeeps, FailWriteKeeps,
       DeliverKeeps, FailsKeeps DEF OutboxWork
  <2>4. CASE \E r \in Delivery : DeliveryLeaseRunsOut(r)
    BY <1>2, <2>4, RunsOutKeeps
  <2>5. CASE \E R \in SUBSET {r \in Delivery : Prunable(r)} : Prune(R)
    BY <1>2, <2>5, PruneKeeps
  <2>6. QED
    BY <1>2, <2>1, <2>2, <2>3, <2>4, <2>5 DEF Step
<1>3. QED
  BY <1>1, <1>2 DEF OutboxNext

LEMMA AlwaysOutboxInv == OutboxSpec => []OutboxInv
  BY InitOutboxInv, NextOutboxInv, PTL DEF OutboxSpec

(***************************************************************************)
(* A destination sees an event once per call of enqueue, and once more for *)
(* every crash and every late failure, however many workers, attempts and  *)
(* deployments there are, while nobody outlasts its lease on it (claim,    *)
(* ack and fail of telemetry_outbox.py).                                   *)
(***************************************************************************)
THEOREM RepeatsArePaidFor == OutboxSpec => []RepeatsNeedFaults
<1>1. OutboxInv => RepeatsNeedFaults
  <2> SUFFICES ASSUME OutboxInv, NEW r \in Delivery, r \notin outlasted
               PROVE  taken[r] <= calls[r[1]] + outboxFaults
    BY DEF RepeatsNeedFaults
  <2>1. PICK e \in OutboxEvent, d \in Destination : r = <<e, d>> /\ r[1] = e
    BY Rows
  <2>2. taken[<<e, d>>] \in Nat /\ calls[e] \in Nat /\ outboxFaults \in Nat
    BY Numbers DEF OutboxInv
  <2>3. ObserverFits(e) /\ OracleFits(e) /\ CortexFits(e)
    BY CoverParts DEF OutboxInv
  <2>4. CASE d = "observer"
    BY <2>1, <2>2, <2>3, <2>4 DEF ObserverFits
  <2>5. CASE d = "integrity_sdk"
    BY <2>1, <2>2, <2>3, <2>5 DEF OracleFits
  <2>6. CASE d = "cortex"
    BY <2>1, <2>2, <2>3, <2>6, BridgesFinite DEF CortexFits
  <2>7. QED
    BY <2>4, <2>5, <2>6 DEF Destination
<1>2. QED
  BY <1>1, AlwaysOutboxInv, PTL

-----------------------------------------------------------------------------
(* The rows and their events *)

\* A row belongs to an event that is there, and stays as long as somebody is at it.
RowsKept ==
    /\ events \subseteq OutboxEvent /\ IsFiniteSet(events)
    /\ Cardinality(events) <= deployment.max_events /\ outboxFaults <= MaxOutboxFaults
    /\ \A r \in Delivery : delivery[r] # "none" => r[1] \in events /\ r[2] \in Targets
    /\ \A w \in OutboxWorker, e \in OutboxEvent :
          e \in outboxBatch[w] \/ Working(w, e) => delivery[Row(w, e)] # "none"

\* Steps that delete nothing and take up only rows that are there.
LEMMA RowsStay ==
  ASSUME OutboxTypes, RowsKept, UNCHANGED <<deployment, events>>, outboxFaults' <= MaxOutboxFaults,
         \A r \in Delivery : delivery'[r] # "none" <=> delivery[r] # "none",
         \A w \in OutboxWorker, e \in OutboxEvent :
            e \in outboxBatch'[w] \/ Working(w, e)' =>
               e \in outboxBatch[w] \/ Working(w, e) \/ delivery[Row(w, e)] # "none"
  PROVE  RowsKept'
<1>1. \A w \in OutboxWorker, e \in OutboxEvent : Row(w, e) \in Delivery /\ Row(w, e)' = Row(w, e)
  BY WorkersRow, SameRoles
<1>2. \A w \in OutboxWorker, e \in OutboxEvent :
          e \in outboxBatch'[w] \/ Working(w, e)' => delivery'[Row(w, e)] # "none"
  BY <1>1 DEF RowsKept
<1>3. QED
  BY <1>1, <1>2 DEF RowsKept, Targets

LEMMA EnqueueRows ==
  ASSUME OutboxInv, RowsKept, deployment' = deployment, NEW e \in OutboxEvent, Call(e),
         \/ HasRoom(e) /\ InsertEvent(e)
         \/ UNCHANGED queue,
         outboxFaults' = outboxFaults, outboxBatch' = outboxBatch,
         \A w \in OutboxWorker, e2 \in OutboxEvent : Working(w, e2)' => Working(w, e2)
  PROVE  RowsKept'
<1>1. OutboxTypes
  BY DEF OutboxInv
<1>2. CASE UNCHANGED queue
  BY <1>1, <1>2, RowsStay DEF queue, RowsKept
<1>3. CASE HasRoom(e) /\ InsertEvent(e)
  <2>1. events' = events \cup {e} /\ OutboxTypes
    BY <1>1, <1>3 DEF InsertEvent, OutboxInv
  <2>2. PICK E : E = events
    OBVIOUS
  <2>3. IsFiniteSet(E) /\ Cardinality(E) \in Nat /\ E \subseteq OutboxEvent
    BY <2>2, FS_CardinalityType DEF RowsKept
  <2>4. IsFiniteSet(E \cup {e}) /\ Cardinality(E \cup {e}) = (IF e \in E THEN Cardinality(E) ELSE Cardinality(E) + 1)
    BY <2>3, FS_AddElement
  <2>5. deployment.max_events \in Nat
    BY <2>1, OutboxAssumption DEF OutboxTypes
  <2>6. events' \subseteq OutboxEvent /\ IsFiniteSet(events') /\ Cardinality(events') <= deployment'.max_events
    BY <1>3, <2>1, <2>2, <2>3, <2>4, <2>5 DEF HasRoom, RowsKept
  <2>7. \A r \in Delivery : \/ delivery'[r] = delivery[r]
                            \/ r[1] = e /\ delivery[r] = "none" /\ delivery'[r] = "pending"
    BY <1>3, <2>1, Enqueued
  <2>8. \A r \in Delivery : delivery'[r] # "none" => r[1] \in events' /\ r[2] \in Targets'
    <3>1. Targets' = Targets
      BY DEF Targets
    <3>2. \A r \in Delivery : \/ delivery'[r] = delivery[r]
                              \/ r[1] = e /\ r[2] \in Targets
      BY <1>3 DEF InsertEvent
    <3>3. QED
      BY <2>1, <3>1, <3>2 DEF RowsKept
  <2>9. \A w \in OutboxWorker, e2 \in OutboxEvent :
          e2 \in outboxBatch'[w] \/ Working(w, e2)' => delivery'[Row(w, e2)'] # "none"
    <3>1. \A w \in OutboxWorker, e2 \in OutboxEvent : Row(w, e2) \in Delivery /\ Row(w, e2)' = Row(w, e2)
      BY <2>1, WorkersRow, SameRoles
    <3>2. QED
      BY <2>7, <3>1 DEF RowsKept
  <2>10. outboxFaults' <= MaxOutboxFaults
    BY DEF RowsKept
  <2>11. QED
    BY <2>6, <2>8, <2>9, <2>10 DEF RowsKept
<1>4. QED
  BY <1>2, <1>3

LEMMA LeaseRows ==
  ASSUME OutboxInv, RowsKept, deployment' = deployment, NEW w \in OutboxWorker, NEW B \in SUBSET OutboxEvent,
         \A e \in B : Deliverable(Row(w, e)), Lease(w, B), UNCHANGED outboxFaults,
         outboxBatch' = [outboxBatch EXCEPT ![w] = B],
         \A v \in OutboxWorker, e \in OutboxEvent : Working(v, e)' => Working(v, e)
  PROVE  RowsKept'
<1>1. OutboxTypes /\ events' = events
  BY DEF OutboxInv, Lease
<1>2. \A r \in Delivery :
               IF r[2] = ServesTarget(w) /\ r[1] \in B
               THEN delivery'[r] = "in_flight" /\ delivery[r] \in Unsettled
               ELSE delivery'[r] = delivery[r]
  BY <1>1, LeaseTakes
<1>3. \A r \in Delivery : delivery'[r] # "none" <=> delivery[r] # "none"
  BY <1>2 DEF Unsettled
<1>4. \A e \in B : delivery[Row(w, e)] # "none"
  BY <1>1, <1>2, WorkersRow DEF Unsettled
<1>5. \A v \in OutboxWorker, e \in OutboxEvent :
            e \in outboxBatch'[v] \/ Working(v, e)' =>
               e \in outboxBatch[v] \/ Working(v, e) \/ delivery[Row(v, e)] # "none"
  BY <1>1, <1>4 DEF OutboxTypes
<1>6. QED
  BY <1>1, <1>3, <1>5, RowsStay DEF RowsKept

\* A worker's step writes at most the row it is at.
LEMMA WorkRows ==
  ASSUME OutboxInv, RowsKept, deployment' = deployment, NEW w \in OutboxWorker, OutboxWork(w)
  PROVE  RowsKept'
<1>1. OutboxTypes /\ WorkersFit
  BY DEF OutboxInv
<1>2. \A e \in OutboxEvent : e # NoOutboxEvent
  BY OutboxAssumption
<1>3. CASE BridgeClaim(w)
  <2>1. current[w] \in OutboxEvent /\ outboxStage[w] = "queued" /\ UNCHANGED faults
        /\ Settle(w)
    BY <1>1, <1>3, AtEvent DEF BridgeClaim, Settle
  <2>2. \A v \in OutboxWorker, e \in OutboxEvent : Working(v, e)' => Working(v, e)
    BY <1>1, <1>2, <2>1, Settled DEF Working
  <2>3. CASE Deliverable(Row(w, current[w]))
    <3>1. PICK e \in OutboxEvent : e = current[w]
      BY <2>1
    <3>2. Lease(w, {e}) /\ outboxBatch' = [outboxBatch EXCEPT ![w] = {e}]
      BY <1>3, <2>3, <3>1 DEF BridgeClaim
    <3>3. {e} \in SUBSET OutboxEvent /\ \A e2 \in {e} : Deliverable(Row(w, e2))
      BY <2>3, <3>1
    <3>4. QED
      BY <2>1, <2>2, <3>2, <3>3, LeaseRows DEF faults
  <2>4. CASE ~ Deliverable(Row(w, current[w]))
    <3>1. UNCHANGED <<events, delivery, outboxBatch, outboxFaults>>
      BY <1>3, <2>1, <2>4 DEF BridgeClaim, queue, faults
    <3>2. QED
      BY <1>1, <2>2, <3>1, RowsStay DEF RowsKept
  <2>5. QED
    BY <2>3, <2>4
<1>4. ASSUME NEW e \in OutboxEvent, Begin(w, e), outboxFaults' <= MaxOutboxFaults,
             NEW s, outboxStage' = [outboxStage EXCEPT ![w] = s]
      PROVE  RowsKept'
  <2>1. /\ UNCHANGED <<events, delivery>> /\ e \in outboxBatch[w]
        /\ outboxBatch' = [outboxBatch EXCEPT ![w] = outboxBatch[w] \ {e}]
        /\ current' = [current EXCEPT ![w] = e]
    BY <1>4 DEF Begin, queue
  <2>2. \A v \in OutboxWorker, e2 \in OutboxEvent :
            e2 \in outboxBatch'[v] \/ Working(v, e2)' => e2 \in outboxBatch[v] \/ Working(v, e2)
    BY <1>1, <1>4, <2>1 DEF OutboxTypes, Working
  <2>3. QED
    BY <1>1, <1>4, <2>1, <2>2, RowsStay
<1>5. CASE \E e \in OutboxEvent : Deliver(w, e) \/ DeliveryFails(w, e) \/ DeliveryFailsLate(w, e)
  <2>1. PICK e \in OutboxEvent : Deliver(w, e) \/ DeliveryFails(w, e) \/ DeliveryFailsLate(w, e)
    BY <1>5
  <2>2. outboxFaults \in Nat /\ MaxOutboxFaults \in Nat
    BY <1>1, OutboxAssumption DEF OutboxTypes
  <2>3. outboxFaults' <= MaxOutboxFaults
    BY <2>1, <2>2 DEF Deliver, DeliveryFails, DeliveryFailsLate, faults, OutboxFault, RowsKept
  <2>4. QED
    BY <1>4, <2>1, <2>3 DEF Deliver, DeliveryFails, DeliveryFailsLate
<1>6. CASE Ack(w) \/ AckRefused(w) \/ FailRead(w) \/ FailRefused(w) \/ FailWrite(w)
  <2>1. /\ UNCHANGED <<events, outboxFaults>> /\ outboxFaults' <= MaxOutboxFaults
        /\ outboxStage[w] \in {"delivered", "failed", "failing"}
    BY <1>6 DEF Ack, AckRefused, FailRead, FailRefused, FailWrite, faults, queue, RowsKept
  <2>2. /\ current[w] \in OutboxEvent /\ Row(w, current[w]) \in Delivery
        /\ delivery[Row(w, current[w])] # "none"
    BY <1>1, <2>1, AtEvent DEF RowsKept, Working
  <2>3. \/ delivery' = delivery
        \/ \E d \in {"acked", "dead_letter", "retry"} : delivery' = [delivery EXCEPT ![Row(w, current[w])] = d]
    BY <1>6 DEF Ack, AckRefused, FailRead, FailRefused, FailWrite, queue, Verdict
  <2>4. \A r \in Delivery : delivery'[r] # "none" <=> delivery[r] # "none"
    BY <1>1, <2>2, <2>3 DEF OutboxTypes
  <2>5. \A v \in OutboxWorker : outboxBatch'[v] \subseteq outboxBatch[v]
    BY <1>1, <1>6 DEF Ack, AckRefused, FailRead, FailRefused, FailWrite, OutboxTypes
  <2>6. \A v \in OutboxWorker, e \in OutboxEvent : Working(v, e)' => Working(v, e)
    <3>1. CASE Settle(w)
      BY <1>1, <1>2, <3>1, Settled DEF Working
    <3>2. CASE ~ Settle(w)
      BY <1>1, <1>6, <2>1, <3>2 DEF Ack, AckRefused, FailRead, FailRefused, FailWrite, Working, OutboxTypes
    <3>3. QED
      BY <3>1, <3>2
  <2>7. QED
    BY <1>1, <2>1, <2>4, <2>5, <2>6, RowsStay
<1>7. QED
  BY <1>3, <1>5, <1>6 DEF OutboxWork

LEMMA NextRows == OutboxInv /\ RowsKept /\ [OutboxNext]_outboxVars => RowsKept'
<1> SUFFICES ASSUME OutboxInv, RowsKept, [OutboxNext]_outboxVars PROVE RowsKept'
  OBVIOUS
<1>1. OutboxTypes /\ outboxFaults \in Nat /\ MaxOutboxFaults \in Nat
  BY OutboxAssumption DEF OutboxInv, OutboxTypes
<1>2. CASE UNCHANGED outboxVars
  <2>1. UNCHANGED <<deployment, events, delivery, outboxBatch, current, outboxStage, outboxFaults>>
    BY <1>2 DEF outboxVars, state, queue, workerState, faults
  <2>2. QED
    BY <1>1, <2>1, RowsStay DEF RowsKept, Working
<1>3. CASE Step /\ deployment' = deployment
  <2>1. ASSUME NEW e \in OutboxEvent, CaptureEvent(e) PROVE RowsKept'
    <3>1. Call(e) /\ UNCHANGED <<workerState, faults>>
      BY <2>1 DEF CaptureEvent
    <3>2. \/ HasRoom(e) /\ InsertEvent(e)
          \/ UNCHANGED queue
      BY <2>1 DEF CaptureEvent
    <3>3. QED
      BY <1>3, <3>1, <3>2, SameWork, EnqueueRows DEF workerState, faults
  <2>2. ASSUME NEW w \in OutboxWorker, NEW e \in OutboxEvent, BridgeEnqueue(w, e) PROVE RowsKept'
    <3>1. /\ Call(e) /\ HasRoom(e) /\ InsertEvent(e) /\ outboxFaults' = outboxFaults
          /\ outboxBatch' = outboxBatch
      BY <2>2 DEF BridgeEnqueue, faults
    <3>2. \A v \in OutboxWorker, e2 \in OutboxEvent : Working(v, e2)' => Working(v, e2)
      BY <1>1, <2>2 DEF BridgeEnqueue, Working, OutboxTypes
    <3>3. QED
      BY <1>3, <3>1, <3>2, EnqueueRows
  <2>3. ASSUME NEW w \in OutboxWorker, NEW e \in OutboxEvent, BridgeUnqueued(w, e) PROVE RowsKept'
    <3>1. Call(e) /\ UNCHANGED queue /\ UNCHANGED workerState /\ outboxFaults' = outboxFaults
      BY <2>3 DEF BridgeUnqueued, faults
    <3>2. QED
      BY <1>3, <3>1, SameWork, EnqueueRows DEF workerState
  <2>4. ASSUME NEW w \in OutboxWorker, ClaimDelivery(w) PROVE RowsKept'
    <3>1. PICK B \in OutboxBatches(w) : Lease(w, B) /\ outboxBatch' = [outboxBatch EXCEPT ![w] = B]
      BY <2>4 DEF ClaimDelivery
    <3>2. B \in SUBSET OutboxEvent /\ \A e \in B : Deliverable(Row(w, e))
      BY <3>1 DEF OutboxBatches
    <3>3. \A v \in OutboxWorker, e \in OutboxEvent : Working(v, e)' => Working(v, e)
      BY <2>4 DEF ClaimDelivery, Working
    <3>4. QED
      BY <1>3, <2>4, <3>1, <3>2, <3>3, LeaseRows DEF ClaimDelivery, faults
  <2>5. ASSUME NEW w \in OutboxWorker, Crash(w) PROVE RowsKept'
    <3>1. UNCHANGED <<events, delivery>> /\ outboxFaults' <= MaxOutboxFaults /\ Settle(w)
          /\ outboxBatch' = [outboxBatch EXCEPT ![w] = {}]
      BY <1>1, <2>5 DEF Crash, queue, OutboxFault
    <3>2. \A v \in OutboxWorker, e \in OutboxEvent :
            e \in outboxBatch'[v] \/ Working(v, e)' => e \in outboxBatch[v] \/ Working(v, e)
      BY <1>1, <3>1, Settled, OutboxAssumption DEF Working, OutboxTypes
    <3>3. QED
      BY <1>1, <1>3, <3>1, <3>2, RowsStay
  <2>6. ASSUME NEW r \in Delivery, DeliveryLeaseRunsOut(r) PROVE RowsKept'
    <3>1. UNCHANGED <<events, delivery>> /\ UNCHANGED workerState
      BY <2>6 DEF DeliveryLeaseRunsOut
    <3>2. outboxFaults' <= MaxOutboxFaults
      BY <1>1, <2>6 DEF DeliveryLeaseRunsOut, OutboxFault, faults, RowsKept
    <3>3. QED
      BY <1>1, <1>3, <3>1, <3>2, SameWork, RowsStay DEF workerState
  <2>7. ASSUME NEW R \in SUBSET {r \in Delivery : Prunable(r)}, Prune(R) PROVE RowsKept'
    <3>1. /\ events' = {e \in events : \E d \in Targets : delivery'[<<e, d>>] # "none"}
          /\ delivery' = [r \in Delivery |-> IF r \in R THEN "none" ELSE delivery[r]]
          /\ UNCHANGED workerState /\ outboxFaults' = outboxFaults
      BY <2>7 DEF Prune, faults
    <3>2. Targets' = Targets /\ Targets \subseteq Destination
      BY <1>1, <1>3, OutboxAssumption DEF Targets, OutboxTypes
    <3>3. \A r \in Delivery : delivery'[r] # "none" => r \notin R /\ delivery[r] # "none"
      BY <3>1
    <3>4. \A r \in Delivery : r \notin R => delivery'[r] = delivery[r]
      BY <3>1
    <3>5. \A r \in Delivery : delivery'[r] # "none" => r[1] \in events' /\ r[2] \in Targets'
      BY <3>1, <3>2, <3>3, Rows DEF RowsKept
    <3>6. events' \subseteq events
      BY <3>1
    <3>7. PICK E : E = events
      OBVIOUS
    <3>8. IsFiniteSet(events') /\ Cardinality(events') <= Cardinality(E)
      BY <3>6, <3>7, FS_Subset DEF RowsKept
    <3>9. Cardinality(events') \in Nat /\ Cardinality(E) \in Nat /\ deployment.max_events \in Nat
      BY <1>1, <3>7, <3>8, FS_CardinalityType, OutboxAssumption DEF RowsKept, OutboxTypes
    <3>10. Cardinality(events') <= deployment'.max_events
      BY <1>3, <3>7, <3>8, <3>9 DEF RowsKept
    <3>11. \A w \in OutboxWorker, e \in OutboxEvent :
          e \in outboxBatch'[w] \/ Working(w, e)' => delivery'[Row(w, e)'] # "none"
      <4> SUFFICES ASSUME NEW w \in OutboxWorker, NEW e \in OutboxEvent, e \in outboxBatch[w] \/ Working(w, e)
                   PROVE  delivery'[Row(w, e)] # "none"
        BY <1>3, <3>1, SameWork, SameRoles DEF workerState
      <4>1. Row(w, e) \in Delivery /\ HasClaim(w, Row(w, e)) /\ delivery[Row(w, e)] # "none"
        BY <1>1, WorkersRow DEF HasClaim, RowsKept
      <4>2. Row(w, e) \notin R
        BY <4>1, Holding DEF Prunable
      <4>3. QED
        BY <3>4, <4>1, <4>2
    <3>12. QED
      BY <3>1, <3>5, <3>6, <3>8, <3>10, <3>11 DEF RowsKept
  <2>8. QED
    BY <1>3, <2>1, <2>2, <2>3, <2>4, <2>5, <2>6, <2>7, WorkRows DEF Step
<1>4. QED
  BY <1>2, <1>3 DEF OutboxNext

LEMMA InitRows == OutboxInit => RowsKept
<1> SUFFICES ASSUME OutboxInit PROVE RowsKept
  OBVIOUS
<1>1. deployment.max_events \in Nat /\ MaxOutboxFaults \in Nat
  BY OutboxAssumption DEF OutboxInit
<1>2. IsFiniteSet({}) /\ Cardinality({}) = 0
  BY FS_EmptySet
<1>3. \A w \in OutboxWorker, e \in OutboxEvent : e \notin outboxBatch[w] /\ ~ Working(w, e)
  <2>1. \A w \in OutboxWorker : outboxBatch[w] = {} /\ current[w] = NoOutboxEvent
    BY DEF OutboxInit
  <2>2. QED
    BY <2>1, OutboxAssumption DEF Working
<1>4. QED
  BY <1>1, <1>2, <1>3 DEF OutboxInit, RowsKept

(***************************************************************************)
(* The rows, their events and the workers keep their types: a row has its  *)
(* event, the queue stays within max_events, and only a worker that has an *)
(* event is at one (enqueue, prune_terminal, claim).                       *)
(***************************************************************************)
THEOREM OutboxTyped == OutboxSpec => []OutboxTypeOK
<1>1. OutboxInit => OutboxInv /\ RowsKept
  BY InitOutboxInv, InitRows
<1>2. OutboxInv /\ RowsKept /\ [OutboxNext]_outboxVars => (OutboxInv /\ RowsKept)'
  BY NextOutboxInv, NextRows
<1>3. OutboxInv /\ RowsKept => OutboxTypeOK
  <2> SUFFICES ASSUME OutboxInv, RowsKept PROVE OutboxTypeOK
    OBVIOUS
  <2>1. outboxFaults \in 0 .. MaxOutboxFaults
    BY OutboxAssumption DEF OutboxInv, OutboxTypes, RowsKept
  <2>2. QED
    BY <2>1 DEF OutboxInv, OutboxTypes, WorkersFit, RowsKept, OutboxTypeOK
<1>4. QED
  BY <1>1, <1>2, <1>3, PTL DEF OutboxSpec

(***************************************************************************)
(* A delivery that nobody outlasted has one worker at most that claimed it *)
(* and has not let it go, and is in flight for as long as it has (claim).  *)
(***************************************************************************)
THEOREM OneWorkerPerDelivery == OutboxSpec => []ClaimsExclusive
<1>1. OutboxInv => ClaimsExclusive
  BY DEF OutboxInv
<1>2. QED
  BY <1>1, AlwaysOutboxInv, PTL

-----------------------------------------------------------------------------
(* Turns and outbox side by side *)

LEMMA WritesParts == FairWritesSpec => TurnsSpec /\ OutboxSpec
<1>1. WritesInit => TurnsInit /\ OutboxInit
  BY DEF WritesInit
<1>2. [WritesNext]_WritesVars => [TurnsNext]_turnsVars /\ [OutboxNext]_outboxVars
  BY DEF WritesNext, WritesVars
<1>3. QED
  BY <1>1, <1>2, PTL DEF FairWritesSpec, TurnsSpec, OutboxSpec

(***************************************************************************)
(* The turns with their transactions, and the outbox with its workers,     *)
(* keep their types when they are run beside each other.                   *)
(***************************************************************************)
THEOREM WritesTyped == FairWritesSpec => []WritesTypeOK
<1>1. TurnsTypeOK /\ OutboxTypeOK => WritesTypeOK
  BY DEF WritesTypeOK
<1>2. QED
  BY <1>1, WritesParts, TurnsTyped, OutboxTyped, PTL
=============================================================================
