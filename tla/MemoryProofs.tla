----------------------------- MODULE MemoryProofs -----------------------------
(***************************************************************************)
(* Proofs about MemoryLifecycle, for any number of stores, callers and     *)
(* embedding workers, and bundles in any number: what the chains of events *)
(* say of the memories, and that a retired memory stays retired.           *)
(***************************************************************************)
EXTENDS MemoryLifecycle, SequenceTheorems, FiniteSetTheorems, WellFoundedInduction, TLAPS

EntryType == {"create", "quarantine", "contradict", "supersede", "forget"}
EntryRow  == [type : EntryType, other : Memory \cup {NoMemory}]
Node      == Seq(EntryRow) \ {<<>>}
DataRow   == [rows : Seq(Memory), status : [Memory -> Status], key : [Memory -> Key \cup {NoKey}],
              supersedes : [Memory -> Memory \cup {NoMemory}], events : [Memory -> Seq(Node)]]

\* A chain has one root, and every other node has its parent in an earlier row.
Resolves(c) ==
    /\ \A i, j \in DOMAIN c : c[i] = c[j] => i = j
    /\ \A i \in DOMAIN c : \/ i = 1 /\ Front(c[i]) = <<>>
                           \/ \E j \in 1 .. (i - 1) : Front(c[i]) = c[j]
Linear(c) == \A i \in DOMAIN c : Front(c[i]) = IF i = 1 THEN <<>> ELSE c[i - 1]

\* The chain of m is a line, and its last event says what the status is.
Sound(d, m) == Linear(d.events[m]) /\ Implies(Last(d.events[m]), d.status[m])
Linked(d) == \A n \in Ids(d) : LET o == d.supersedes[n] IN
    o # NoMemory => \E i \in DOMAIN d.events[o] : Last(d.events[o][i]) = Entry("supersede", n)

\* A store has the rows, and only the rows, of the memories it knows.
WellFormed(d) ==
    /\ d \in DataRow
    /\ \A i, j \in DOMAIN d.rows : d.rows[i] = d.rows[j] => i = j
    /\ \A m \in Memory :
         /\ m \in Ids(d) <=> d.status[m] # "none"
         /\ m \in Ids(d) <=> d.events[m] # <<>>
         /\ m \notin Ids(d) => d.supersedes[m] = NoMemory
         /\ Resolves(d.events[m])

SameRoot(c1, c2) == c1 # <<>> /\ c2 # <<>> => c1[1] = c2[1]

StoresFormed ==
    /\ db \in [Store -> DataRow] /\ embedded \in [Store -> SUBSET Memory]
    /\ merged \in [Store -> SUBSET Memory] /\ partial \subseteq Store
    /\ \A s \in Store :
         /\ WellFormed(db[s])
         /\ embedded[s] \cup merged[s] \subseteq Ids(db[s])
         /\ \A m \in Ids(db[s]) \ merged[s] : Sound(db[s], m)
         /\ s \notin partial => Linked(db[s])
    /\ \A s, t \in Store, m \in Memory : SameRoot(db[s].events[m], db[t].events[m])

Forgets(n) == \E i \in DOMAIN n : n[i].type = "forget"

\* What a caller holds between two transactions.
Holds(c) ==
    /\ memoryStage[c] \in {"idle", "linking", "forgetting", "receipt", "exporting"}
    /\ memoryStage[c] # "idle" => at[c] \in Store
    /\ memoryStage[c] = "linking" => {old[c], new[c]} \subseteq Ids(db[at[c]])
    /\ memoryStage[c] \in {"forgetting", "receipt"} => memoryTodo[c] \subseteq Ids(db[at[c]])
    /\ memoryStage[c] = "receipt" =>
         /\ old[c] \in Ids(db[at[c]])
         /\ old[c] \notin merged[at[c]] => Forgets(Last(db[at[c]].events[old[c]]))

Process == Caller \cup Worker
Stage   == {"idle", "linking", "forgetting", "receipt", "scanned", "writing", "exporting"}
ProcessesHold ==
    /\ memoryStage \in [Process -> Stage]
    /\ DOMAIN at = Process /\ DOMAIN memoryTodo = Process
    /\ DOMAIN old = Process /\ DOMAIN new = Process
    /\ \A c \in Caller : Holds(c)
    /\ \A w \in Worker : memoryStage[w] \in {"idle", "scanned", "writing"}
    /\ \A c, e \in Caller : memoryStage[c] = "exporting" /\ memoryStage[e] = "exporting" => c = e

\* What an open export has read is of the past of the store it reads.
ReadFrom(s) ==
    /\ ~bundle.done
    /\ Ids(bundle.data) \subseteq Ids(db[s])
    /\ \A m \in Ids(bundle.data) \ merged[s] : Sound(bundle.data, m)
    /\ s \notin partial => Linked(bundle.data)
    /\ \A m \in Memory : ToSet(bundle.data.events[m]) \subseteq ToSet(db[s].events[m])
\* What a bundle that is complete may be imported for.
FileHolds ==
    /\ \A m \in Memory :
         /\ Resolves(bundle.data.events[m])
         /\ m \in Ids(bundle.data) => bundle.data.events[m] # <<>>
         /\ bundle.data.events[m] # <<>> => m \notin Fresh
         /\ \A s \in Store : SameRoot(bundle.data.events[m], db[s].events[m])
    /\ \A m \in Ids(bundle.data) \ bundle.tainted : Sound(bundle.data, m)
    /\ bundle.complete => Linked(bundle.data)
BundleHolds ==
    /\ bundle \in [from : Store \cup {NoMemory}, done : BOOLEAN, complete : BOOLEAN,
                   data : DataRow, tainted : SUBSET Memory]
    /\ \A i, j \in DOMAIN bundle.data.rows : bundle.data.rows[i] = bundle.data.rows[j] => i = j
    /\ \A m \in Ids(bundle.data) : bundle.data.status[m] # "none"
    /\ bundle.done => FileHolds
    /\ \A c \in Caller : memoryStage[c] = "exporting" => ReadFrom(at[c])

MemoryInv == StoresFormed /\ ProcessesHold /\ BundleHolds

-----------------------------------------------------------------------------
(* Sequences *)

\* Induction over the numbers up to n, for a property given as a set.
LEMMA UpTo ==
    ASSUME NEW T, NEW n \in Nat, 0 \in T, \A i \in 0 .. (n - 1) : i \in T => i + 1 \in T
    PROVE  \A i \in 0 .. n : i \in T
<1> DEFINE Bad == {i \in 0 .. n : i \notin T}
<1>1. SUFFICES ASSUME Bad # {} PROVE FALSE
  OBVIOUS
<1>2. Bad \subseteq Nat
  OBVIOUS
<1>3. PICK i \in Bad : \A j \in Bad : ~(<<j, i>> \in OpToRel(<, Nat))
  BY <1>1, <1>2, NatLessThanWellFounded, WFMin
<1>4. \A j \in Bad : ~(j < i)
  BY <1>2, <1>3 DEF OpToRel
<1>5. i # 0 /\ i - 1 \in 0 .. (n - 1) /\ (i - 1) + 1 = i
  OBVIOUS
<1>6. i - 1 \in Bad
  BY <1>5
<1>7. QED
  BY <1>2, <1>4, <1>5, <1>6

\* The items of q are those of s that are not in the set, each from its place
\* h[i] in s, in the order of the places.
Picked(q, s, K) ==
    \E h \in [1 .. Len(q) -> 1 .. Len(s)] :
        /\ \A i \in 1 .. Len(q) : q[i] = s[h[i]] /\ s[h[i]] \notin K
        /\ \A i, j \in 1 .. Len(q) : i < j => h[i] < h[j]
        /\ \A k \in 1 .. Len(s) : s[k] \notin K => \E i \in 1 .. Len(q) : h[i] = k

LEMMA WithoutItems ==
    ASSUME NEW S, NEW s \in Seq(S), NEW K
    PROVE  Without(s, K) \in Seq(S) /\ Picked(Without(s, K), s, K)
<1> DEFINE Step(g, i) == IF i = 0 THEN <<>>
                         ELSE IF s[i] \in K THEN g[i - 1] ELSE Append(g[i - 1], s[i])
           Table(g, n) == g = [i \in 0 .. n |-> Step(g, i)]
           F == CHOOSE g : Table(g, Len(s))
           Made == {n \in 0 .. Len(s) : \E g : Table(g, n)}
<1>1. Len(s) \in Nat
  OBVIOUS
<1>2. 0 \in Made
  <2>1. Table([i \in 0 .. 0 |-> <<>>], 0)
    OBVIOUS
  <2> HIDE DEF Table
  <2>2. QED
    BY <1>1, <2>1
<1>3. ASSUME NEW n \in 0 .. (Len(s) - 1), n \in Made
      PROVE  n + 1 \in Made
  <2>1. PICK g : Table(g, n)
    BY <1>3
  <2> DEFINE g2 == [i \in 0 .. (n + 1) |-> IF i = n + 1 THEN Step(g, n + 1) ELSE g[i]]
  <2>2. ASSUME NEW i \in 0 .. (n + 1) PROVE g2[i] = Step(g2, i)
    <3>1. i - 1 \in 0 .. n => g2[i - 1] = g[i - 1]
      BY <1>1
    <3>2. CASE i = n + 1
      BY <3>1, <3>2, <1>1
    <3>3. CASE i # n + 1
      <4>1. i \in 0 .. n /\ (i # 0 => i - 1 \in 0 .. n)
        BY <1>1, <3>3
      <4>2. g[i] = Step(g, i)
        BY <2>1, <4>1
      <4>3. g2[i] = g[i]
        BY <3>3
      <4>4. QED
        BY <3>1, <4>1, <4>2, <4>3
    <3>4. QED
      BY <3>2, <3>3
  <2>3. Table(g2, n + 1)
    <3>1. g2 = [i \in 0 .. (n + 1) |-> g2[i]]
      OBVIOUS
    <3> HIDE DEF g2, Step
    <3>2. QED
      BY <2>2, <3>1
  <2>4. n + 1 \in 0 .. Len(s)
    BY <1>1
  <2> HIDE DEF g2, Table
  <2>5. QED
    BY <2>3, <2>4
<1>4. Table(F, Len(s))
  <2>1. Len(s) \in Made
    <3> HIDE DEF Made
    <3>1. \A i \in 0 .. Len(s) : i \in Made
      BY <1>1, <1>2, <1>3, UpTo
    <3>2. QED
      BY <1>1, <3>1
  <2>2. \E g : Table(g, Len(s))
    BY <2>1
  <2> HIDE DEF Table
  <2>3. QED
    BY <2>2 DEF F
<1>5. Without(s, K) = F[Len(s)]
  BY Zenon DEF Without
<1> DEFINE Picks(q, n, h) ==
               /\ h \in [1 .. Len(q) -> 1 .. n]
               /\ \A i \in 1 .. Len(q) : q[i] = s[h[i]] /\ s[h[i]] \notin K
               /\ \A i, j \in 1 .. Len(q) : i < j => h[i] < h[j]
               /\ \A k \in 1 .. n : s[k] \notin K => \E i \in 1 .. Len(q) : h[i] = k
           Good == {n \in 0 .. Len(s) : F[n] \in Seq(S) /\ \E h : Picks(F[n], n, h)}
<1>6. F[0] = <<>> /\ \A n \in 0 .. (Len(s) - 1) :
          F[n + 1] = IF s[n + 1] \in K THEN F[n] ELSE Append(F[n], s[n + 1])
  <2> HIDE DEF F
  <2>1. 0 \in 0 .. Len(s) /\ \A n \in 0 .. (Len(s) - 1) : n + 1 \in 0 .. Len(s) /\ n + 1 # 0 /\ (n + 1) - 1 = n
    BY <1>1
  <2>2. \A i \in 0 .. Len(s) : F[i] = Step(F, i)
    BY <1>4
  <2>3. QED
    BY <2>1, <2>2
<1> HIDE DEF F, Step, Table
<1>7. 0 \in Good
  <2>1. Picks(<<>>, 0, <<>>)
    OBVIOUS
  <2>2. <<>> \in Seq(S)
    OBVIOUS
  <2> HIDE DEF Picks
  <2>3. \E h : Picks(F[0], 0, h)
    BY <1>6, <2>1, Zenon
  <2>4. 0 \in 0 .. Len(s) /\ F[0] \in Seq(S)
    BY <1>1, <1>6, <2>2
  <2>5. QED
    BY <2>3, <2>4, Zenon
<1>8. ASSUME NEW n \in 0 .. (Len(s) - 1), n \in Good
      PROVE  n + 1 \in Good
  <2> DEFINE q == F[n]
             q2 == F[n + 1]
  <2>1. n + 1 \in 1 .. Len(s) /\ n + 1 \in 0 .. Len(s) /\ n \in Nat /\ s[n + 1] \in S
    BY <1>1
  <2>2. PICK h : Picks(q, n, h)
    BY <1>8
  <2>3. q \in Seq(S) /\ Len(q) \in Nat
    BY <1>8
  <2>4. q2 = IF s[n + 1] \in K THEN q ELSE Append(q, s[n + 1])
    BY <1>6
  <2> HIDE DEF q, q2
  <2>5. CASE s[n + 1] \in K
    <3>1. q2 = q
      BY <2>4, <2>5
    <3>2. h \in [1 .. Len(q) -> 1 .. (n + 1)]
      BY <2>1, <2>2
    <3>3. ASSUME NEW k \in 1 .. (n + 1), s[k] \notin K
          PROVE  \E i \in 1 .. Len(q) : h[i] = k
      <4>1. k \in 1 .. n
        BY <2>1, <2>5, <3>3
      <4>2. QED
        BY <2>2, <3>3, <4>1
    <3>4. Picks(q2, n + 1, h)
      BY <2>2, <3>1, <3>2, <3>3
    <3> HIDE DEF Picks
    <3>5. QED
      BY <2>1, <2>3, <3>1, <3>4 DEF q2
  <2>6. CASE s[n + 1] \notin K
    <3> DEFINE h2 == [i \in 1 .. (Len(q) + 1) |-> IF i = Len(q) + 1 THEN n + 1 ELSE h[i]]
    <3>1. q2 = Append(q, s[n + 1]) /\ Len(q2) = Len(q) + 1 /\ q2 \in Seq(S)
      BY <2>1, <2>3, <2>4, <2>6
    <3>2. q2[Len(q) + 1] = s[n + 1] /\ \A i \in 1 .. Len(q) : q2[i] = q[i]
      BY <2>1, <2>3, <3>1
    <3>3. \A i \in 1 .. Len(q) : h[i] \in 1 .. n /\ h2[i] = h[i]
      <4>1. \A i \in 1 .. Len(q) : i \in 1 .. (Len(q) + 1) /\ i # Len(q) + 1
        BY <2>3
      <4>2. \A i \in 1 .. Len(q) : h[i] \in 1 .. n
        BY <2>2
      <4>3. QED
        BY <4>1, <4>2
    <3>4. h2[Len(q) + 1] = n + 1 /\ h2 \in [1 .. Len(q2) -> 1 .. (n + 1)]
      <4>1. Len(q) + 1 \in 1 .. (Len(q) + 1) /\ n + 1 \in 1 .. (n + 1) /\ 1 .. n \subseteq 1 .. (n + 1)
        BY <2>1, <2>3
      <4>2. \A i \in 1 .. (Len(q) + 1) : i = Len(q) + 1 \/ i \in 1 .. Len(q)
        BY <2>3
      <4>3. \A i \in 1 .. (Len(q) + 1) : h2[i] \in 1 .. (n + 1)
        BY <3>3, <4>1, <4>2
      <4>4. h2 \in [1 .. (Len(q) + 1) -> 1 .. (n + 1)]
        BY <4>3
      <4>5. QED
        BY <3>1, <4>1, <4>4
    <3>5. \A i \in 1 .. Len(q2) : i \in 1 .. Len(q) \/ i = Len(q) + 1
      BY <2>3, <3>1
    <3> HIDE DEF h2
    <3>6. \A i \in 1 .. Len(q2) : q2[i] = s[h2[i]] /\ s[h2[i]] \notin K
      BY <2>2, <2>6, <3>2, <3>3, <3>4, <3>5
    <3>7. ASSUME NEW i \in 1 .. Len(q2), NEW j \in 1 .. Len(q2), i < j
          PROVE  h2[i] < h2[j]
      <4>1. i \in 1 .. Len(q)
        BY <2>3, <3>1, <3>7
      <4>2. CASE j \in 1 .. Len(q)
        BY <2>2, <3>3, <3>7, <4>1, <4>2
      <4>3. CASE j = Len(q) + 1
        BY <2>1, <3>3, <3>4, <4>1, <4>3
      <4>4. QED
        BY <3>5, <4>2, <4>3
    <3>8. ASSUME NEW k \in 1 .. (n + 1), s[k] \notin K
          PROVE  \E i \in 1 .. Len(q2) : h2[i] = k
      <4>1. CASE k \in 1 .. n
        <5>1. PICK i \in 1 .. Len(q) : h[i] = k
          BY <2>2, <3>8, <4>1
        <5>2. i \in 1 .. Len(q2)
          BY <2>3, <3>1
        <5>3. QED
          BY <3>3, <5>1, <5>2
      <4>2. CASE k = n + 1
        <5>1. Len(q) + 1 \in 1 .. Len(q2)
          BY <2>3, <3>1
        <5>2. QED
          BY <3>4, <4>2, <5>1
      <4>3. QED
        BY <2>1, <4>1, <4>2
    <3>9. Picks(q2, n + 1, h2)
      BY <3>4, <3>6, <3>7, <3>8
    <3> HIDE DEF Picks
    <3>10. QED
      BY <2>1, <3>1, <3>9 DEF q2
  <2>7. QED
    BY <2>5, <2>6
<1>9. \A n \in 0 .. Len(s) : n \in Good
  <2> HIDE DEF Good
  <2>1. QED
    BY <1>1, <1>7, <1>8, UpTo
<1>10. F[Len(s)] \in Seq(S) /\ \E h : Picks(F[Len(s)], Len(s), h)
  <2> HIDE DEF Picks
  <2>1. Len(s) \in Good
    <3> HIDE DEF Good
    <3>1. QED
      BY <1>1, <1>9
  <2>2. QED
    BY <2>1
<1>11. Picked(F[Len(s)], s, K)
  BY <1>10, Zenon DEF Picked
<1>12. QED
  BY <1>5, <1>10, <1>11

\* What the library says of a sequence, and the set of its items.
LEMMA Items ==
    ASSUME NEW S, NEW s \in Seq(S)
    PROVE  /\ Len(s) \in Nat /\ DOMAIN s = 1 .. Len(s)
           /\ ToSet(s) \subseteq S
           /\ \A x \in ToSet(s) : \E i \in 1 .. Len(s) : s[i] = x
           /\ \A i \in 1 .. Len(s) : s[i] \in ToSet(s)
           /\ s = <<>> <=> Len(s) = 0
           /\ s = <<>> <=> ToSet(s) = {}
  BY DEF ToSet

LEMMA AppendItems ==
    ASSUME NEW S, NEW s \in Seq(S), NEW x \in S
    PROVE  /\ Append(s, x) \in Seq(S) /\ Len(Append(s, x)) = Len(s) + 1
           /\ ToSet(Append(s, x)) = ToSet(s) \cup {x}
           /\ \A i \in 1 .. Len(s) : Append(s, x)[i] = s[i]
           /\ Append(s, x)[Len(s) + 1] = x /\ Last(Append(s, x)) = x
           /\ Append(s, x) # <<>>
<1>1. /\ Append(s, x) \in Seq(S) /\ Len(Append(s, x)) = Len(s) + 1 /\ Append(s, x) # <<>>
      /\ \A i \in 1 .. Len(s) : Append(s, x)[i] = s[i]
      /\ Append(s, x)[Len(s) + 1] = x /\ Len(s) \in Nat
  BY AppendProperties
<1>2. DOMAIN Append(s, x) = 1 .. (Len(s) + 1) /\ DOMAIN s = 1 .. Len(s)
  BY <1>1
<1>3. \A i \in 1 .. (Len(s) + 1) : i \in 1 .. Len(s) \/ i = Len(s) + 1
  BY <1>1
<1>4. 1 .. Len(s) \subseteq 1 .. (Len(s) + 1) /\ Len(s) + 1 \in 1 .. (Len(s) + 1)
  BY <1>1
<1>5. ToSet(Append(s, x)) = ToSet(s) \cup {x}
  <2>1. \A y \in ToSet(Append(s, x)) : y \in ToSet(s) \cup {x}
    BY <1>1, <1>2, <1>3 DEF ToSet
  <2>2. \A y \in ToSet(s) \cup {x} : y \in ToSet(Append(s, x))
    BY <1>1, <1>2, <1>4 DEF ToSet
  <2>3. QED
    BY <2>1, <2>2
<1>6. QED
  BY <1>1, <1>5 DEF Last

\* The parent of a node that was made from another by one more event.
LEMMA FrontOfAppend ==
    ASSUME NEW S, NEW s \in Seq(S), NEW x \in S
    PROVE  Front(Append(s, x)) = s
<1>1. Len(s) \in Nat /\ Append(s, x) \in Seq(S) /\ Len(Append(s, x)) = Len(s) + 1
      /\ \A i \in 1 .. Len(s) : Append(s, x)[i] = s[i]
  BY AppendItems, Items
<1>2. PICK q : q = Append(s, x)
  OBVIOUS
<1>3. Len(s) + 1 - 1 = Len(s)
  BY <1>1
<1>4. Front(q) = SubSeq(q, 1, Len(s))
  BY <1>1, <1>2, <1>3 DEF Front
<1>5. \A i \in 1 .. Len(s) : q[i] \in S
  BY <1>1, <1>2
<1>6. /\ SubSeq(q, 1, Len(s)) \in Seq(S)
      /\ Len(SubSeq(q, 1, Len(s))) = IF 1 <= Len(s) THEN Len(s) - 1 + 1 ELSE 0
      /\ \A i \in 1 .. Len(s) - 1 + 1 : SubSeq(q, 1, Len(s))[i] = q[1 + i - 1]
  BY <1>1, <1>5, SubSeqProperties
<1>7. Len(Front(q)) = Len(s) /\ \A i \in 1 .. Len(s) : Front(q)[i] = s[i]
  BY <1>1, <1>2, <1>4, <1>6
<1>8. QED
  BY <1>2, <1>4, <1>6, <1>7, SeqEqual

LEMMA WithoutSet ==
    ASSUME NEW S, NEW s \in Seq(S), NEW K
    PROVE  ToSet(Without(s, K)) = ToSet(s) \ K
<1>1. PICK q : q = Without(s, K)
  OBVIOUS
<1>2. PICK h \in [1 .. Len(q) -> 1 .. Len(s)] :
         /\ \A i \in 1 .. Len(q) : q[i] = s[h[i]] /\ s[h[i]] \notin K
         /\ \A k \in 1 .. Len(s) : s[k] \notin K => \E i \in 1 .. Len(q) : h[i] = k
  <2>1. Picked(q, s, K)
    BY <1>1, WithoutItems
  <2>2. QED
    BY <2>1 DEF Picked
<1>3. q \in Seq(S)
  BY <1>1, WithoutItems
<1>4. ASSUME NEW x \in ToSet(q) PROVE x \in ToSet(s) \ K
  <2>1. PICK i \in 1 .. Len(q) : q[i] = x
    BY <1>3, Items
  <2>2. x = s[h[i]] /\ x \notin K /\ h[i] \in 1 .. Len(s)
    BY <1>2, <2>1
  <2>3. QED
    BY <2>2, Items
<1>5. ASSUME NEW x \in ToSet(s), x \notin K PROVE x \in ToSet(q)
  <2>1. PICK k \in 1 .. Len(s) : s[k] = x
    BY Items
  <2>2. PICK i \in 1 .. Len(q) : h[i] = k
    BY <1>2, <1>5, <2>1
  <2>3. q[i] = x
    BY <1>2, <2>1, <2>2
  <2>4. QED
    BY <1>3, <2>2, <2>3, Items
<1>6. QED
  BY <1>1, <1>4, <1>5

LEMMA WithoutInjective ==
    ASSUME NEW S, NEW s \in Seq(S), NEW K, \A i, j \in DOMAIN s : s[i] = s[j] => i = j
    PROVE  \A i, j \in DOMAIN Without(s, K) : Without(s, K)[i] = Without(s, K)[j] => i = j
<1>1. PICK q : q = Without(s, K)
  OBVIOUS
<1>2. PICK h \in [1 .. Len(q) -> 1 .. Len(s)] :
         /\ \A i \in 1 .. Len(q) : q[i] = s[h[i]]
         /\ \A i, j \in 1 .. Len(q) : i < j => h[i] < h[j]
  <2>1. Picked(q, s, K)
    BY <1>1, WithoutItems
  <2>2. QED
    BY <2>1 DEF Picked
<1>3. q \in Seq(S) /\ DOMAIN q = 1 .. Len(q) /\ Len(q) \in Nat /\ Len(s) \in Nat /\ DOMAIN s = 1 .. Len(s)
  BY <1>1, WithoutItems, Items
<1>4. ASSUME NEW i \in 1 .. Len(q), NEW j \in 1 .. Len(q), q[i] = q[j]
      PROVE  i = j
  <2>1. h[i] = h[j] /\ h[i] \in Nat
    BY <1>2, <1>3, <1>4
  <2>2. ~(i < j) /\ ~(j < i)
    BY <1>2, <2>1
  <2>3. QED
    BY <1>3, <2>2
<1>5. QED
  BY <1>1, <1>3, <1>4

\* What is left of a list whose rows differ is a list whose rows differ.
LEMMA WithoutRows ==
    ASSUME NEW S, NEW s \in Seq(S), NEW K, \A i, j \in DOMAIN s : s[i] = s[j] => i = j
    PROVE  /\ Without(s, K) \in Seq(S) /\ ToSet(Without(s, K)) = ToSet(s) \ K
           /\ \A i, j \in DOMAIN Without(s, K) : Without(s, K)[i] = Without(s, K)[j] => i = j
<1>1. Without(s, K) \in Seq(S)
  BY WithoutItems
<1>2. ToSet(Without(s, K)) = ToSet(s) \ K
  BY WithoutSet
<1>3. \A i, j \in DOMAIN Without(s, K) : Without(s, K)[i] = Without(s, K)[j] => i = j
  BY WithoutInjective
<1>4. QED
  BY <1>1, <1>2, <1>3

\* Nothing is left out when nothing is known.
LEMMA WithoutNone ==
    ASSUME NEW S, NEW s \in Seq(S), NEW K, ToSet(s) \cap K = {}
    PROVE  Without(s, K) = s
<1>1. PICK q : q = Without(s, K)
  OBVIOUS
<1>2. PICK h \in [1 .. Len(q) -> 1 .. Len(s)] :
         /\ \A i \in 1 .. Len(q) : q[i] = s[h[i]]
         /\ \A i, j \in 1 .. Len(q) : i < j => h[i] < h[j]
         /\ \A k \in 1 .. Len(s) : s[k] \notin K => \E i \in 1 .. Len(q) : h[i] = k
  <2>1. Picked(q, s, K)
    BY <1>1, WithoutItems
  <2>2. QED
    BY <2>1 DEF Picked
<1>3. q \in Seq(S) /\ Len(q) \in Nat /\ Len(s) \in Nat
  BY <1>1, WithoutItems, Items
<1>4. \A k \in 1 .. Len(s) : \E i \in 1 .. Len(q) : h[i] = k
  BY <1>2, Items
<1> DEFINE Fixed == {n \in 0 .. Len(s) : n <= Len(q) /\ \A j \in 1 .. n : h[j] = j}
<1>5. 0 \in Fixed
  BY <1>3
<1>6. ASSUME NEW n \in 0 .. (Len(s) - 1), n \in Fixed
      PROVE  n + 1 \in Fixed
  <2>1. n + 1 \in 1 .. Len(s) /\ n \in Nat
    BY <1>3
  <2>2. PICK k \in 1 .. Len(q) : h[k] = n + 1
    BY <1>4, <2>1
  <2>3. n <= Len(q) /\ \A j \in 1 .. n : h[j] = j
    BY <1>6
  <2>4. ~(k <= n)
    BY <2>1, <2>2, <2>3
  <2>5. n + 1 \in 1 .. Len(q) /\ n + 1 <= k
    BY <1>3, <2>1, <2>4
  <2>6. h[n + 1] \in Nat /\ h[n + 1] <= n + 1 /\ h[n + 1] >= 1
    <3>1. CASE k = n + 1
      BY <2>1, <2>2, <3>1
    <3>2. CASE n + 1 < k
      <4>1. h[n + 1] < h[k]
        BY <1>2, <2>5, <3>2
      <4>2. h[n + 1] \in 1 .. Len(s)
        BY <1>2, <2>5
      <4>3. QED
        BY <1>3, <2>1, <2>2, <4>1, <4>2
    <3>3. QED
      BY <1>3, <2>1, <2>5, <3>1, <3>2
  <2>7. ASSUME h[n + 1] # n + 1 PROVE FALSE
    <3>1. h[n + 1] \in 1 .. n
      BY <2>1, <2>6, <2>7
    <3>2. h[h[n + 1]] = h[n + 1]
      BY <2>3, <3>1
    <3>3. h[n + 1] < n + 1 /\ h[n + 1] \in 1 .. Len(q)
      BY <1>3, <2>1, <2>3, <3>1
    <3>4. h[h[n + 1]] < h[n + 1]
      BY <1>2, <2>5, <3>3
    <3>5. QED
      BY <2>6, <3>2, <3>4
  <2>8. \A j \in 1 .. (n + 1) : j \in 1 .. n \/ j = n + 1
    BY <2>1
  <2>9. QED
    BY <1>3, <2>1, <2>3, <2>5, <2>7, <2>8
<1>7. Len(s) <= Len(q) /\ \A j \in 1 .. Len(s) : h[j] = j
  <2> HIDE DEF Fixed
  <2>1. \A i \in 0 .. Len(s) : i \in Fixed
    BY <1>3, <1>5, <1>6, UpTo
  <2>2. Len(s) \in Fixed
    BY <1>3, <2>1
  <2>3. QED
    BY <2>2 DEF Fixed
<1>8. Len(q) = Len(s)
  <2>1. SUFFICES ASSUME Len(s) < Len(q) PROVE FALSE
    BY <1>3, <1>7
  <2>2. Len(s) + 1 \in 1 .. Len(q)
    BY <1>3, <2>1
  <2>3. h[Len(s) + 1] \in 1 .. Len(s)
    BY <1>2, <2>2
  <2>4. h[h[Len(s) + 1]] = h[Len(s) + 1] /\ h[Len(s) + 1] < Len(s) + 1 /\ h[Len(s) + 1] \in 1 .. Len(q)
    BY <1>3, <1>7, <2>1, <2>3
  <2>5. h[h[Len(s) + 1]] < h[Len(s) + 1]
    BY <1>2, <2>2, <2>4
  <2>6. QED
    BY <1>3, <2>3, <2>4, <2>5
<1>9. \A i \in 1 .. Len(q) : q[i] = s[i]
  BY <1>2, <1>7, <1>8
<1>10. QED
  BY <1>1, <1>3, <1>8, <1>9, SeqEqual

LEMMA Enumerates ==
    ASSUME NEW S, IsFiniteSet(S)
    PROVE  /\ SetToSeq(S) \in Seq(S) /\ ToSet(SetToSeq(S)) = S
           /\ \A i, j \in DOMAIN SetToSeq(S) : SetToSeq(S)[i] = SetToSeq(S)[j] => i = j
<1>1. Cardinality(S) \in Nat /\ ExistsBijection(1 .. Cardinality(S), S)
  BY FS_CardinalityType
<1>2. PICK n \in Nat : n = Cardinality(S)
  BY <1>1
<1>3. \E f \in [1 .. n -> S] : IsInjective(f)
  BY <1>1, <1>2 DEF ExistsBijection, Bijection, Injection
<1>4. SetToSeq(S) \in [1 .. n -> S] /\ IsInjective(SetToSeq(S))
  BY <1>2, <1>3 DEF SetToSeq
<1>5. PICK f : f = SetToSeq(S)
  OBVIOUS
<1>6. f \in Injection(1 .. n, S) /\ Cardinality(1 .. n) = n
  BY <1>4, <1>5, FS_Interval DEF Injection
<1>7. f \in Surjection(1 .. n, S)
  BY <1>2, <1>6, FS_Injection
<1>8. f \in Seq(S) /\ DOMAIN f = 1 .. n
  BY <1>4, <1>5
<1>9. ToSet(f) = S
  BY <1>4, <1>5, <1>7, <1>8 DEF Surjection, ToSet
<1>10. QED
  BY <1>4, <1>5, <1>8, <1>9 DEF IsInjective

-----------------------------------------------------------------------------
(* Rows and chains of one store *)

\* The parts of a row set, and what an identifier is.
LEMMA DataFacts ==
    ASSUME NEW d \in DataRow
    PROVE  /\ d.rows \in Seq(Memory) /\ Ids(d) \subseteq Memory /\ Ids(d) = ToSet(d.rows)
           /\ d.status \in [Memory -> Status] /\ d.key \in [Memory -> Key \cup {NoKey}]
           /\ d.supersedes \in [Memory -> Memory \cup {NoMemory}]
           /\ d.events \in [Memory -> Seq(Node)]
           /\ \A m \in Memory : d.events[m] \in Seq(Node) /\ d.status[m] \in Status
  BY Items DEF DataRow, Ids

\* A chain grows by a node whose parent is its last row, or that begins it.
Grown(c, e) == Append(c, Append(IF c = <<>> THEN <<>> ELSE Last(c), e))

LEMMA GrownItems ==
    ASSUME NEW c \in Seq(Node), NEW e \in EntryRow
    PROVE  LET n == Append(IF c = <<>> THEN <<>> ELSE Last(c), e)
           IN  /\ n \in Node /\ Grown(c, e) = Append(c, n) /\ Grown(c, e) \in Seq(Node)
               /\ Front(n) = (IF c = <<>> THEN <<>> ELSE Last(c)) /\ Last(n) = e
               /\ Last(Grown(c, e)) = n /\ Grown(c, e) # <<>>
               /\ ToSet(Grown(c, e)) = ToSet(c) \cup {n}
               /\ Len(Grown(c, e)) = Len(c) + 1 /\ Grown(c, e)[Len(c) + 1] = n
               /\ \A i \in 1 .. Len(c) : Grown(c, e)[i] = c[i]
               /\ c # <<>> => Last(c) = c[Len(c)] /\ Last(c) \in Node /\ Len(c) \in 1 .. Len(c)
<1> DEFINE p == IF c = <<>> THEN <<>> ELSE Last(c)
           n == Append(p, e)
<1>1. c # <<>> => Last(c) = c[Len(c)] /\ Last(c) \in Node /\ Len(c) \in 1 .. Len(c)
  BY Items DEF Last
<1>2. p \in Seq(EntryRow)
  BY <1>1 DEF Node
<1> HIDE DEF p
<1>3. n \in Node /\ Last(n) = e /\ Front(n) = p
  <2>1. n \in Seq(EntryRow) /\ n # <<>> /\ Last(n) = e
    BY <1>2, AppendItems
  <2>2. Front(n) = p
    BY <1>2, FrontOfAppend
  <2>3. QED
    BY <2>1, <2>2 DEF Node
<1>4. Grown(c, e) = Append(c, n)
  BY DEF Grown, p
<1> HIDE DEF n
<1>5. /\ Append(c, n) \in Seq(Node) /\ Last(Append(c, n)) = n /\ Append(c, n) # <<>>
      /\ ToSet(Append(c, n)) = ToSet(c) \cup {n}
      /\ Len(Append(c, n)) = Len(c) + 1 /\ Append(c, n)[Len(c) + 1] = n
      /\ \A i \in 1 .. Len(c) : Append(c, n)[i] = c[i]
  BY <1>3, AppendItems
<1>6. QED
  BY <1>1, <1>3, <1>4, <1>5 DEF n, p

\* The new node is no child of an earlier row: those are before their children.
LEMMA GrownResolves ==
    ASSUME NEW c \in Seq(Node), NEW e \in EntryRow, Resolves(c)
    PROVE  Resolves(Grown(c, e))
<1> DEFINE p == IF c = <<>> THEN <<>> ELSE Last(c)
           n == Append(p, e)
           c2 == Grown(c, e)
<1>1. /\ n \in Node /\ c2 \in Seq(Node) /\ Front(n) = p
      /\ Len(c2) = Len(c) + 1 /\ c2[Len(c) + 1] = n
      /\ \A i \in 1 .. Len(c) : c2[i] = c[i]
      /\ c # <<>> => Last(c) = c[Len(c)] /\ Last(c) \in Node /\ Len(c) \in 1 .. Len(c)
  BY GrownItems
<1>2. Len(c) \in Nat /\ DOMAIN c = 1 .. Len(c) /\ DOMAIN c2 = 1 .. (Len(c) + 1)
      /\ (c = <<>> <=> Len(c) = 0) /\ \A i \in 1 .. Len(c) : c[i] \in Node
  BY <1>1, Items
<1>3. c # <<>> => p = c[Len(c)] /\ p # <<>>
  BY <1>1 DEF Node
<1>4. c = <<>> => p = <<>>
  OBVIOUS
<1> HIDE DEF p, n, c2
<1>5. \A i \in 1 .. Len(c) : c[i] # n
  <2>1. SUFFICES ASSUME NEW i \in 1 .. Len(c), c[i] = n PROVE FALSE
    OBVIOUS
  <2>2. c # <<>> /\ Front(c[i]) = c[Len(c)] /\ Front(c[i]) # <<>>
    <3>1. c # <<>>
      BY <1>2
    <3>2. Front(c[i]) = p
      BY <1>1, <2>1
    <3>3. QED
      BY <1>3, <3>1, <3>2
  <2>3. PICK j \in 1 .. (i - 1) : c[Len(c)] = c[j]
    <3>1. \E j \in 1 .. (i - 1) : Front(c[i]) = c[j]
      BY <1>2, <2>2 DEF Resolves
    <3>2. QED
      BY <2>2, <3>1, Zenon
  <2>4. j \in DOMAIN c /\ Len(c) \in DOMAIN c /\ j # Len(c)
    <3>1. Len(c) \in Nat
      BY <1>2
    <3>2. j \in 1 .. Len(c) /\ Len(c) \in 1 .. Len(c) /\ j # Len(c)
      BY <3>1
    <3>3. QED
      BY <1>2, <3>2
  <2>5. QED
    BY <2>3, <2>4 DEF Resolves
<1>6. \A i \in 1 .. (Len(c) + 1) : i \in 1 .. Len(c) \/ i = Len(c) + 1
  BY <1>2
<1>7. ASSUME NEW i \in DOMAIN c2, NEW j \in DOMAIN c2, c2[i] = c2[j]
      PROVE  i = j
  <2>1. CASE i \in 1 .. Len(c) /\ j \in 1 .. Len(c)
    BY <1>1, <1>2, <1>7, <2>1 DEF Resolves
  <2>2. CASE i = Len(c) + 1 \/ j = Len(c) + 1
    BY <1>1, <1>2, <1>5, <1>6, <1>7, <2>2
  <2>3. QED
    BY <1>2, <1>6, <2>1, <2>2
<1>8. ASSUME NEW i \in DOMAIN c2
      PROVE  \/ i = 1 /\ Front(c2[i]) = <<>>
             \/ \E j \in 1 .. (i - 1) : Front(c2[i]) = c2[j]
  <2>1. CASE i \in 1 .. Len(c)
    <3>1. 1 .. (i - 1) \subseteq 1 .. Len(c)
      BY <1>2, <2>1
    <3>2. QED
      BY <1>1, <1>2, <2>1, <3>1 DEF Resolves
  <2>2. CASE i = Len(c) + 1
    <3>1. CASE c = <<>>
      BY <1>1, <1>2, <1>4, <2>2, <3>1
    <3>2. CASE c # <<>>
      <4>1. Len(c) \in 1 .. (i - 1) /\ Len(c) \in 1 .. Len(c)
        BY <1>2, <2>2, <3>2
      <4>2. Front(c2[i]) = c2[Len(c)]
        BY <1>1, <1>3, <2>2, <3>2, <4>1
      <4>3. QED
        BY <4>1, <4>2
    <3>3. QED
      BY <3>1, <3>2
  <2>3. QED
    BY <1>2, <1>6, <2>1, <2>2
<1>9. Resolves(c2)
  BY <1>7, <1>8 DEF Resolves
<1>10. QED
  BY <1>9 DEF c2

\* A line stays a line.
LEMMA GrownLinear ==
    ASSUME NEW c \in Seq(Node), NEW e \in EntryRow, Linear(c)
    PROVE  Linear(Grown(c, e))
<1> DEFINE p == IF c = <<>> THEN <<>> ELSE Last(c)
           n == Append(p, e)
           c2 == Grown(c, e)
<1>1. /\ n \in Node /\ c2 \in Seq(Node) /\ Front(n) = p
      /\ Len(c2) = Len(c) + 1 /\ c2[Len(c) + 1] = n
      /\ \A i \in 1 .. Len(c) : c2[i] = c[i]
      /\ c # <<>> => p = c[Len(c)]
  BY GrownItems
<1>2. Len(c) \in Nat /\ DOMAIN c = 1 .. Len(c) /\ DOMAIN c2 = 1 .. (Len(c) + 1)
      /\ (c = <<>> <=> Len(c) = 0)
  BY <1>1, Items
<1>3. c = <<>> => p = <<>>
  OBVIOUS
<1> HIDE DEF p, n, c2
<1>4. ASSUME NEW i \in DOMAIN c2
      PROVE  Front(c2[i]) = IF i = 1 THEN <<>> ELSE c2[i - 1]
  <2>1. CASE i \in 1 .. Len(c)
    <3>1. i # 1 => i - 1 \in 1 .. Len(c)
      BY <1>2, <2>1
    <3>2. QED
      BY <1>1, <1>2, <2>1, <3>1 DEF Linear
  <2>2. CASE i = Len(c) + 1
    <3>1. CASE c = <<>>
      BY <1>1, <1>2, <1>3, <2>2, <3>1
    <3>2. CASE c # <<>>
      <4>1. i - 1 = Len(c) /\ i # 1 /\ Len(c) \in 1 .. Len(c)
        BY <1>2, <2>2, <3>2
      <4>2. QED
        BY <1>1, <2>2, <3>2, <4>1
    <3>3. QED
      BY <3>1, <3>2
  <2>3. QED
    BY <1>2, <2>1, <2>2
<1>5. Linear(c2)
  BY <1>4 DEF Linear
<1>6. QED
  BY <1>5 DEF c2

\* The last deciding event of a history is the new one, or the one before.
LEMMA AppendImplies ==
    ASSUME NEW n \in Seq(EntryRow), NEW e \in EntryRow, NEW status
    PROVE  /\ e.type \in DOMAIN Deciding /\ status \in Deciding[e.type] => Implies(Append(n, e), status)
           /\ e.type \notin DOMAIN Deciding /\ Implies(n, status) => Implies(Append(n, e), status)
<1>1. PICK q : q = Append(n, e)
  OBVIOUS
<1>2. /\ Len(n) \in Nat /\ DOMAIN n = 1 .. Len(n) /\ DOMAIN q = 1 .. (Len(n) + 1)
      /\ q[Len(n) + 1] = e /\ \A i \in 1 .. Len(n) : q[i] = n[i]
  BY <1>1, AppendItems, Items
<1>3. \A i \in 1 .. (Len(n) + 1) : i \in 1 .. Len(n) \/ i = Len(n) + 1
  BY <1>2
<1>4. Len(n) + 1 \in 1 .. (Len(n) + 1) /\ ~\E j \in 1 .. (Len(n) + 1) : j > Len(n) + 1
  BY <1>2
<1>5. ASSUME e.type \in DOMAIN Deciding, status \in Deciding[e.type] PROVE Implies(q, status)
  BY <1>2, <1>4, <1>5 DEF Implies
<1>6. ASSUME e.type \notin DOMAIN Deciding, Implies(n, status) PROVE Implies(q, status)
  <2>1. PICK i \in 1 .. Len(n) :
          /\ n[i].type \in DOMAIN Deciding /\ status \in Deciding[n[i].type]
          /\ \A j \in 1 .. Len(n) : j > i => n[j].type \notin DOMAIN Deciding
    BY <1>2, <1>6 DEF Implies
  <2>2. q[i] = n[i] /\ i \in DOMAIN q
    BY <1>2
  <2>3. \A j \in DOMAIN q : j > i => q[j].type \notin DOMAIN Deciding
    BY <1>2, <1>3, <1>6, <2>1
  <2>4. QED
    BY <2>1, <2>2, <2>3 DEF Implies
<1>7. QED
  BY <1>1, <1>5, <1>6

LEMMA EventAppended ==
    ASSUME NEW d \in DataRow, NEW m \in Memory, NEW e \in EntryRow
    PROVE  LET d2 == AppendEvent(d, m, e)
           IN  /\ d2 \in DataRow /\ d2.rows = d.rows /\ d2.status = d.status /\ d2.key = d.key
               /\ d2.supersedes = d.supersedes
               /\ d2.events = [d.events EXCEPT ![m] = Grown(d.events[m], e)]
<1> DEFINE d2 == AppendEvent(d, m, e)
           g == [d.events EXCEPT ![m] = Grown(d.events[m], e)]
<1>1. d.events \in [Memory -> Seq(Node)] /\ Grown(d.events[m], e) \in Seq(Node)
  BY DataFacts, GrownItems
<1>2. g \in [Memory -> Seq(Node)]
  BY <1>1
<1>3. d2 = [d EXCEPT !.events = g]
  BY <1>1 DEF AppendEvent, Head0, Grown, DataRow
<1> HIDE DEF g, d2
<1>4. d2 \in DataRow /\ d2.rows = d.rows /\ d2.status = d.status /\ d2.key = d.key
      /\ d2.supersedes = d.supersedes /\ d2.events = g
  BY <1>2, <1>3 DEF DataRow
<1>5. QED
  BY <1>4 DEF g, d2

Retired == {"superseded", "forgotten", "quarantined"}

\* What a transaction of a caller may do to the rows of a store.
Advances(d, d2) ==
    /\ WellFormed(d2) /\ Ids(d) \subseteq Ids(d2)
    /\ \A m \in Memory : ToSet(d.events[m]) \subseteq ToSet(d2.events[m])
    /\ \A m \in Ids(d) : /\ d2.events[m][1] = d.events[m][1]
                         /\ Sound(d, m) => Sound(d2, m)
                         /\ Forgets(Last(d.events[m])) => Forgets(Last(d2.events[m]))
                         /\ d.status[m] \in Retired => d2.status[m] \in Retired
    /\ \A m \in Ids(d2) \ Ids(d) : Sound(d2, m) /\ m \in Fresh
    /\ Linked(d) => Linked(d2)

LEMMA AdvancesTwice ==
    ASSUME NEW d, NEW d1, NEW d2, Advances(d, d1), Advances(d1, d2)
    PROVE  Advances(d, d2)
  BY DEF Advances

\* An event is added to the chain of a memory, whose status is what the event
\* says, and links of known memories may change with it.
EventStep(d, d2, m, e) ==
    /\ d2 \in DataRow /\ d2.rows = d.rows
    /\ \/ d2.status = d.status
       \/ \E st \in Retired : d2.status = [d.status EXCEPT ![m] = st]
    /\ \A n \in Memory \ Ids(d) : d2.supersedes[n] = NoMemory
    /\ \A n \in Ids(d) : \/ d2.supersedes[n] = d.supersedes[n]
                         \/ d2.supersedes[n] = m /\ e = Entry("supersede", n)
    /\ d2.events = [d.events EXCEPT ![m] = Grown(d.events[m], e)]
    /\ IF e.type \in DOMAIN Deciding THEN d2.status[m] \in Deciding[e.type]
                                     ELSE d2.status = d.status

LEMMA EventAdvances ==
    ASSUME NEW d, WellFormed(d), NEW m \in Ids(d), NEW e \in EntryRow, NEW d2,
           EventStep(d, d2, m, e)
    PROVE  Advances(d, d2) /\ Ids(d2) = Ids(d)
           /\ Last(d2.events[m]) = Append(Last(d.events[m]), e)
<1>0. /\ d2 \in DataRow /\ d2.rows = d.rows
      /\ \/ d2.status = d.status
         \/ \E st \in Retired : d2.status = [d.status EXCEPT ![m] = st]
      /\ \A n \in Memory \ Ids(d) : d2.supersedes[n] = NoMemory
      /\ \A n \in Ids(d) : \/ d2.supersedes[n] = d.supersedes[n]
                           \/ d2.supersedes[n] = m /\ e = Entry("supersede", n)
      /\ d2.events = [d.events EXCEPT ![m] = Grown(d.events[m], e)]
      /\ IF e.type \in DOMAIN Deciding THEN d2.status[m] \in Deciding[e.type]
                                       ELSE d2.status = d.status
  BY DEF EventStep
<1>1. /\ d \in DataRow /\ m \in Memory /\ Ids(d) \subseteq Memory /\ Ids(d2) = Ids(d)
      /\ d.events \in [Memory -> Seq(Node)] /\ d.status \in [Memory -> Status]
  BY <1>0, DataFacts DEF WellFormed, Ids
<1>2. PICK c : c = d.events[m]
  OBVIOUS
<1>3. c \in Seq(Node) /\ c # <<>> /\ Resolves(c)
  BY <1>1, <1>2 DEF WellFormed
<1>4. d2.events[m] = Grown(c, e) /\ \A x \in Memory : x # m => d2.events[x] = d.events[x]
  BY <1>0, <1>1, <1>2
<1>5. \A x \in Memory : x # m => d2.status[x] = d.status[x]
  BY <1>0, <1>1
<1>6. /\ Grown(c, e) # <<>> /\ ToSet(c) \subseteq ToSet(Grown(c, e))
      /\ Last(Grown(c, e)) = Append(Last(c), e) /\ Last(c) \in Node
      /\ Last(Grown(c, e)) \in ToSet(Grown(c, e)) /\ Last(Last(Grown(c, e))) = e
      /\ Grown(c, e)[1] = c[1]
  <2>1. Len(c) \in Nat /\ 1 \in 1 .. Len(c)
    BY <1>3, Items
  <2>2. PICK n : n = Append(Last(c), e)
    OBVIOUS
  <2>3. /\ Last(n) = e /\ Last(Grown(c, e)) = n /\ Grown(c, e) # <<>>
        /\ ToSet(Grown(c, e)) = ToSet(c) \cup {n} /\ Last(c) \in Node
    BY <1>3, <2>2, GrownItems
  <2>4. Grown(c, e)[1] = c[1]
    BY <1>3, <2>1, GrownItems
  <2>5. QED
    BY <2>2, <2>3, <2>4
<1>7. d2.status[m] # "none" /\ d.status[m] # "none"
  BY <1>0, <1>1 DEF WellFormed, Retired
<1>8. WellFormed(d2)
  <2>1. Resolves(Grown(c, e))
    BY <1>3, GrownResolves
  <2>2. ASSUME NEW x \in Memory
        PROVE  /\ x \in Ids(d2) <=> d2.status[x] # "none"
               /\ x \in Ids(d2) <=> d2.events[x] # <<>>
               /\ x \notin Ids(d2) => d2.supersedes[x] = NoMemory
               /\ Resolves(d2.events[x])
    <3>1. CASE x = m
      BY <1>0, <1>1, <1>4, <1>6, <1>7, <2>1, <3>1
    <3>2. CASE x # m
      BY <1>0, <1>1, <1>4, <1>5, <3>2 DEF WellFormed
    <3>3. QED
      BY <3>1, <3>2
  <2>3. \A i, j \in DOMAIN d2.rows : d2.rows[i] = d2.rows[j] => i = j
    BY <1>0 DEF WellFormed
  <2>4. QED
    BY <1>0, <2>2, <2>3 DEF WellFormed
<1>9. \A x \in Memory : ToSet(d.events[x]) \subseteq ToSet(d2.events[x])
  BY <1>0, <1>2, <1>4, <1>6
<1>10. ASSUME NEW x \in Ids(d), Sound(d, x) PROVE Sound(d2, x)
  <2>1. CASE x = m
    <3>1. Linear(c) /\ Implies(Last(c), d.status[m])
      BY <1>2, <1>10, <2>1 DEF Sound
    <3>2. Implies(Append(Last(c), e), d2.status[m])
      BY <1>0, <1>6, <3>1, AppendImplies DEF Node
    <3>3. Linear(Grown(c, e))
      BY <1>3, <3>1, GrownLinear
    <3>4. QED
      BY <1>4, <1>6, <2>1, <3>2, <3>3 DEF Sound
  <2>2. CASE x # m
    BY <1>1, <1>4, <1>5, <1>10, <2>2 DEF Sound
  <2>3. QED
    BY <2>1, <2>2
<1>11. ASSUME NEW x \in Ids(d), Forgets(Last(d.events[x])) PROVE Forgets(Last(d2.events[x]))
  <2>1. CASE x = m
    <3>1. PICK n \in Seq(EntryRow) : n = Last(c)
      BY <1>6 DEF Node
    <3>2. PICK i \in DOMAIN n : n[i].type = "forget"
      BY <1>2, <1>11, <2>1, <3>1 DEF Forgets
    <3>3. /\ DOMAIN n = 1 .. Len(n) /\ Len(n) \in Nat /\ DOMAIN Append(n, e) = 1 .. (Len(n) + 1)
          /\ \A j \in 1 .. Len(n) : Append(n, e)[j] = n[j]
      BY AppendItems, Items
    <3>4. i \in DOMAIN Append(n, e) /\ Append(n, e)[i] = n[i]
      BY <3>3
    <3>5. Forgets(Append(n, e))
      BY <3>2, <3>4 DEF Forgets
    <3>6. QED
      BY <1>4, <1>6, <2>1, <3>1, <3>5
  <2>2. CASE x # m
    BY <1>1, <1>4, <1>11, <2>2
  <2>3. QED
    BY <2>1, <2>2
<1>12. ASSUME Linked(d) PROVE Linked(d2)
  <2>1. SUFFICES ASSUME NEW n \in Ids(d), NEW o, o = d2.supersedes[n], o # NoMemory
                 PROVE  \E i \in DOMAIN d2.events[o] : Last(d2.events[o][i]) = Entry("supersede", n)
    BY <1>0, <1>1 DEF Linked
  <2>2. o \in Memory
    BY <1>0, <1>1, <2>1, DataFacts
  <2>3. \E x \in ToSet(d2.events[o]) : Last(x) = Entry("supersede", n)
    <3>1. CASE o = d.supersedes[n]
      <4>1. PICK i \in DOMAIN d.events[o] : Last(d.events[o][i]) = Entry("supersede", n)
        BY <1>12, <2>1, <3>1 DEF Linked
      <4>2. d.events[o][i] \in ToSet(d.events[o])
        BY DEF ToSet
      <4>3. QED
        BY <1>9, <2>2, <4>1, <4>2
    <3>2. CASE o = m /\ e = Entry("supersede", n)
      BY <1>4, <1>6, <3>2
    <3>3. QED
      BY <1>0, <2>1, <3>1, <3>2
  <2>4. QED
    BY <2>3 DEF ToSet
<1>13. \A x \in Ids(d) : d2.events[x][1] = d.events[x][1]
  BY <1>1, <1>2, <1>4, <1>6
<1>14. \A x \in Ids(d) : d.status[x] \in Retired => d2.status[x] \in Retired
  BY <1>0, <1>1
<1>15. QED
  BY <1>1, <1>2, <1>4, <1>6, <1>8, <1>9, <1>10, <1>11, <1>12, <1>13, <1>14 DEF Advances

LEMMA DecidingTypes ==
    /\ DOMAIN Deciding = {"create", "quarantine", "supersede", "forget"}
    /\ Deciding["create"] = Given \cup {"confirmed"} /\ Deciding["quarantine"] = {"quarantined"}
    /\ Deciding["supersede"] = {"superseded"} /\ Deciding["forget"] = {"forgotten"}
  BY DEF Deciding

LEMMA EntryTyped ==
    ASSUME NEW t \in EntryType, NEW m \in Memory \cup {NoMemory}
    PROVE  Entry(t, m) \in EntryRow /\ Entry(t, m).type = t /\ Entry(t, m).other = m
  BY DEF Entry, EntryRow

\* _mark_contradiction_locked, for one side.
LEMMA ContradictAdvances ==
    ASSUME NEW d, WellFormed(d), NEW m \in Ids(d), NEW other \in Memory
    PROVE  Advances(d, AppendEvent(d, m, Entry("contradict", other)))
           /\ Ids(AppendEvent(d, m, Entry("contradict", other))) = Ids(d)
<1>1. d \in DataRow /\ m \in Memory
  BY DataFacts DEF WellFormed
<1>2. PICK e \in EntryRow : e = Entry("contradict", other) /\ e.type = "contradict"
  BY EntryTyped DEF EntryType
<1>3. PICK d2 \in DataRow : /\ d2 = AppendEvent(d, m, e)
                            /\ d2.rows = d.rows /\ d2.status = d.status
                            /\ d2.supersedes = d.supersedes
                            /\ d2.events = [d.events EXCEPT ![m] = Grown(d.events[m], e)]
  BY <1>1, EventAppended
<1>4. e.type \notin DOMAIN Deciding
  BY <1>2, DecidingTypes
<1>5. EventStep(d, d2, m, e)
  BY <1>3, <1>4 DEF EventStep, WellFormed
<1>6. Advances(d, d2) /\ Ids(d2) = Ids(d)
  BY <1>5, EventAdvances
<1>7. QED
  BY <1>2, <1>3, <1>6

LEMMA ForgottenAdvances ==
    ASSUME NEW d, WellFormed(d), NEW m \in Ids(d)
    PROVE  /\ Advances(d, Forgotten(d, m)) /\ Ids(Forgotten(d, m)) = Ids(d)
           /\ Forgets(Last(Forgotten(d, m).events[m]))
<1>1. d \in DataRow /\ m \in Memory /\ d.status \in [Memory -> Status] /\ d.events[m] \in Seq(Node)
  BY DataFacts DEF WellFormed
<1>2. PICK e \in EntryRow : e = Entry("forget", NoMemory) /\ e.type = "forget"
  BY EntryTyped DEF EntryType
<1>3. PICK st : st = [d.status EXCEPT ![m] = "forgotten"]
  OBVIOUS
<1>4. st \in [Memory -> Status] /\ st[m] = "forgotten"
  BY <1>1, <1>3 DEF Status
<1>5. PICK d1 : d1 = [d EXCEPT !.status = st]
  OBVIOUS
<1>6. /\ d1 \in DataRow /\ d1.rows = d.rows /\ d1.status = st /\ d1.supersedes = d.supersedes
      /\ d1.events = d.events
  BY <1>1, <1>4, <1>5 DEF DataRow
<1>7. Forgotten(d, m) = AppendEvent(d1, m, e)
  BY <1>1, <1>2, <1>3, <1>5 DEF Forgotten, DataRow
<1>8. PICK d2 \in DataRow : /\ d2 = AppendEvent(d1, m, e)
                            /\ d2.rows = d.rows /\ d2.status = st
                            /\ d2.supersedes = d.supersedes
                            /\ d2.events = [d.events EXCEPT ![m] = Grown(d.events[m], e)]
  BY <1>1, <1>6, EventAppended
<1>9. e.type \in DOMAIN Deciding /\ d2.status[m] \in Deciding[e.type]
  BY <1>2, <1>4, <1>8, DecidingTypes
<1>10. \A n \in Memory \ Ids(d) : d2.supersedes[n] = NoMemory
  BY <1>8 DEF WellFormed
<1>11. \E s \in Retired : d2.status = [d.status EXCEPT ![m] = s]
  BY <1>3, <1>8 DEF Retired
<1>12. Advances(d, d2) /\ Ids(d2) = Ids(d) /\ Last(d2.events[m]) = Append(Last(d.events[m]), e)
  <2>1. EventStep(d, d2, m, e)
    BY <1>8, <1>9, <1>10, <1>11 DEF EventStep
  <2>2. QED
    BY <2>1, EventAdvances
<1>13. Forgets(Last(d2.events[m]))
  <2>1. PICK n \in Seq(EntryRow) : n = Last(d.events[m])
    BY <1>1, GrownItems DEF WellFormed, Node
  <2>2. PICK n2 : n2 = Append(n, e)
    OBVIOUS
  <2>3. Len(n) \in Nat /\ DOMAIN n2 = 1 .. (Len(n) + 1) /\ n2[Len(n) + 1] = e
    BY <2>2, AppendItems, Items
  <2>4. Len(n) + 1 \in DOMAIN n2
    BY <2>3
  <2>5. QED
    BY <1>2, <1>12, <2>1, <2>2, <2>3, <2>4 DEF Forgets
<1>14. QED
  BY <1>7, <1>8, <1>12, <1>13

\* The second transaction of supersede_memory.
LEMMA ReplacedAdvances ==
    ASSUME NEW d, WellFormed(d), NEW o \in Ids(d), NEW n \in Ids(d)
    PROVE  Advances(d, Replaced(d, o, n)) /\ Ids(Replaced(d, o, n)) = Ids(d)
<1>1. d \in DataRow /\ o \in Memory /\ n \in Memory /\ d.status \in [Memory -> Status]
      /\ d.supersedes \in [Memory -> Memory \cup {NoMemory}]
  BY DataFacts DEF WellFormed
<1>2. PICK e \in EntryRow : e = Entry("supersede", n) /\ e.type = "supersede"
  BY <1>1, EntryTyped DEF EntryType
<1>3. PICK st, sup : st = [d.status EXCEPT ![o] = "superseded"] /\ sup = [d.supersedes EXCEPT ![n] = o]
  OBVIOUS
<1>4. st \in [Memory -> Status] /\ st[o] = "superseded" /\ sup \in [Memory -> Memory \cup {NoMemory}]
  BY <1>1, <1>3 DEF Status
<1>5. PICK d1 : d1 = [d EXCEPT !.status = st, !.supersedes = sup]
  OBVIOUS
<1>6. /\ d1 \in DataRow /\ d1.rows = d.rows /\ d1.status = st /\ d1.supersedes = sup
      /\ d1.events = d.events
  BY <1>1, <1>4, <1>5 DEF DataRow
<1>7. Replaced(d, o, n) = AppendEvent(d1, o, e)
  BY <1>1, <1>2, <1>3, <1>5 DEF Replaced, DataRow
<1>8. PICK d2 \in DataRow : /\ d2 = AppendEvent(d1, o, e)
                            /\ d2.rows = d.rows /\ d2.status = st /\ d2.supersedes = sup
                            /\ d2.events = [d.events EXCEPT ![o] = Grown(d.events[o], e)]
  BY <1>1, <1>6, EventAppended
<1>9. e.type \in DOMAIN Deciding /\ d2.status[o] \in Deciding[e.type]
  BY <1>2, <1>4, <1>8, DecidingTypes
<1>10. \A x \in Memory \ Ids(d) : d2.supersedes[x] = NoMemory
  BY <1>1, <1>3, <1>8 DEF WellFormed
<1>11. \E s \in Retired : d2.status = [d.status EXCEPT ![o] = s]
  BY <1>3, <1>8 DEF Retired
<1>12. \A x \in Ids(d) : \/ d2.supersedes[x] = d.supersedes[x]
                         \/ d2.supersedes[x] = o /\ e = Entry("supersede", x)
  <2>1. \A x \in Ids(d) : x \in Memory
    BY <1>1, DataFacts
  <2>2. sup[n] = o /\ \A x \in Memory : x # n => sup[x] = d.supersedes[x]
    BY <1>1, <1>3
  <2>3. QED
    BY <1>2, <1>8, <2>1, <2>2
<1>13. Advances(d, d2) /\ Ids(d2) = Ids(d)
  <2>1. EventStep(d, d2, o, e)
    BY <1>8, <1>9, <1>10, <1>11, <1>12 DEF EventStep
  <2>2. QED
    BY <2>1, EventAdvances
<1>14. QED
  BY <1>7, <1>8, <1>13

\* store_memory, of a memory that no store has.
LEMMA CreatedAdvances ==
    ASSUME NEW d, WellFormed(d), NEW m \in Fresh, m \notin Ids(d),
           NEW s \in Given \cup {"quarantined"}, NEW k \in Key \cup {NoKey}
    PROVE  Advances(d, Created(d, m, s, k)) /\ m \in Ids(Created(d, m, s, k))
<1>1. /\ d \in DataRow /\ m \in Memory /\ d.status \in [Memory -> Status] /\ Ids(d) = ToSet(d.rows)
      /\ d.rows \in Seq(Memory) /\ d.key \in [Memory -> Key \cup {NoKey}]
      /\ d.events \in [Memory -> Seq(Node)]
  BY DataFacts DEF WellFormed, Fresh
<1>2. d.events[m] = <<>> /\ d.supersedes[m] = NoMemory
  BY <1>1 DEF WellFormed
<1>3. PICK e \in EntryRow :
        /\ e = Entry(IF s = "quarantined" THEN "quarantine" ELSE "create", NoMemory)
        /\ e.type = IF s = "quarantined" THEN "quarantine" ELSE "create"
  BY EntryTyped DEF EntryType
<1>4. PICK st, ky, rs : /\ st = [d.status EXCEPT ![m] = s] /\ ky = [d.key EXCEPT ![m] = k]
                        /\ rs = Append(d.rows, m)
  OBVIOUS
<1>5. /\ st \in [Memory -> Status] /\ st[m] = s /\ ky \in [Memory -> Key \cup {NoKey}]
      /\ rs \in Seq(Memory) /\ ToSet(rs) = Ids(d) \cup {m} /\ s # "none"
      /\ \A x \in Memory : x # m => st[x] = d.status[x]
  BY <1>1, <1>4, AppendItems, LifecycleAssumption DEF Status, Live
<1>6. PICK d1 : d1 = [d EXCEPT !.rows = rs, !.status = st, !.key = ky]
  OBVIOUS
<1>7. /\ d1 \in DataRow /\ d1.rows = rs /\ d1.status = st /\ d1.supersedes = d.supersedes
      /\ d1.events = d.events
  BY <1>1, <1>5, <1>6 DEF DataRow
<1>8. Created(d, m, s, k) = AppendEvent(d1, m, e)
  BY <1>1, <1>3, <1>4, <1>6 DEF Created, DataRow
<1>9. PICK d2 \in DataRow : /\ d2 = AppendEvent(d1, m, e)
                            /\ d2.rows = rs /\ d2.status = st /\ d2.supersedes = d.supersedes
                            /\ d2.events = [d.events EXCEPT ![m] = Grown(d.events[m], e)]
  BY <1>1, <1>7, EventAppended
<1>10. /\ d2.events[m] = Grown(<<>>, e) /\ \A x \in Memory : x # m => d2.events[x] = d.events[x]
       /\ Ids(d2) = Ids(d) \cup {m}
  BY <1>1, <1>2, <1>5, <1>9, DataFacts
<1>11. PICK c \in Seq(Node) : c = <<>> /\ c \in Seq(EntryRow)
  <2>1. <<>> \in Seq(Node) /\ <<>> \in Seq(EntryRow)
    OBVIOUS
  <2>2. QED
    BY <2>1, Zenon
<1>12. Grown(c, e) # <<>> /\ Last(Grown(c, e)) = Append(c, e)
  BY <1>11, GrownItems
<1>13. Resolves(Grown(c, e)) /\ Linear(Grown(c, e))
  <2>1. Resolves(c) /\ Linear(c)
    BY <1>11 DEF Resolves, Linear
  <2>2. QED
    BY <2>1, GrownResolves, GrownLinear
<1>14. Implies(Append(c, e), s)
  <2>1. e.type \in DOMAIN Deciding /\ s \in Deciding[e.type]
    BY <1>3, DecidingTypes
  <2>2. QED
    BY <1>11, <2>1, AppendImplies
<1>15. Sound(d2, m)
  BY <1>5, <1>9, <1>10, <1>11, <1>12, <1>13, <1>14 DEF Sound
<1>16. WellFormed(d2)
  <2>1. ASSUME NEW i \in DOMAIN rs, NEW j \in DOMAIN rs, rs[i] = rs[j]
        PROVE  i = j
    <3>1. /\ Len(d.rows) \in Nat /\ DOMAIN d.rows = 1 .. Len(d.rows) /\ rs[Len(d.rows) + 1] = m
          /\ DOMAIN rs = 1 .. (Len(d.rows) + 1)
          /\ \A x \in 1 .. Len(d.rows) : rs[x] = d.rows[x] /\ rs[x] # m
      BY <1>1, <1>4, AppendItems, Items
    <3>2. \A x \in DOMAIN rs : x \in 1 .. Len(d.rows) \/ x = Len(d.rows) + 1
      BY <3>1
    <3>3. CASE i \in 1 .. Len(d.rows) /\ j \in 1 .. Len(d.rows)
      BY <2>1, <3>1, <3>3 DEF WellFormed
    <3>4. CASE ~(i \in 1 .. Len(d.rows) /\ j \in 1 .. Len(d.rows))
      BY <2>1, <3>1, <3>2, <3>4
    <3>5. QED
      BY <3>3, <3>4
  <2>2. ASSUME NEW x \in Memory
        PROVE  /\ x \in Ids(d2) <=> d2.status[x] # "none"
               /\ x \in Ids(d2) <=> d2.events[x] # <<>>
               /\ x \notin Ids(d2) => d2.supersedes[x] = NoMemory
               /\ Resolves(d2.events[x])
    <3>1. CASE x = m
      BY <1>5, <1>9, <1>10, <1>11, <1>12, <1>13, <3>1
    <3>2. CASE x # m
      BY <1>5, <1>9, <1>10, <3>2 DEF WellFormed
    <3>3. QED
      BY <3>1, <3>2
  <2>3. QED
    BY <1>9, <2>1, <2>2 DEF WellFormed
<1>17. \A x \in Memory : ToSet(d.events[x]) \subseteq ToSet(d2.events[x])
  <2>1. ToSet(<<>>) = {}
    BY DEF ToSet
  <2>2. QED
    BY <1>2, <1>10, <2>1
<1>18. \A x \in Ids(d) : x \in Memory /\ x # m
  BY <1>1, DataFacts
<1>19. \A x \in Ids(d) : /\ d2.events[x] = d.events[x] /\ d2.status[x] = d.status[x]
  BY <1>5, <1>9, <1>10, <1>18
<1>20. \A x \in Ids(d) : Sound(d, x) => Sound(d2, x)
  BY <1>19 DEF Sound
<1>21. ASSUME Linked(d) PROVE Linked(d2)
  <2>1. SUFFICES ASSUME NEW n \in Ids(d2), NEW o, o = d2.supersedes[n], o # NoMemory
                 PROVE  \E i \in DOMAIN d2.events[o] : Last(d2.events[o][i]) = Entry("supersede", n)
    BY DEF Linked
  <2>2. n \in Ids(d) /\ o = d.supersedes[n] /\ n \in Memory /\ o \in Memory
    BY <1>1, <1>2, <1>9, <1>10, <2>1, DataFacts
  <2>3. PICK i \in DOMAIN d.events[o] : Last(d.events[o][i]) = Entry("supersede", n)
    BY <1>21, <2>1, <2>2 DEF Linked
  <2>4. o # m
    BY <1>2, <2>3
  <2>5. QED
    BY <1>10, <2>2, <2>3, <2>4
<1>22. Advances(d, d2)
  BY <1>10, <1>15, <1>16, <1>17, <1>19, <1>20, <1>21 DEF Advances
<1>23. QED
  BY <1>8, <1>9, <1>10, <1>22

\* Every answer of store_memory: an old memory by its key, or a new one.
LEMMA StoresAdvances ==
    ASSUME NEW s \in Store, WellFormed(db[s]), NEW r \in Stores(db[s])
    PROVE  Advances(db[s], r.data) /\ r.memory \in Ids(r.data)
<1>1. PICK d : d = db[s]
  OBVIOUS
<1>2. CASE \E m \in UNION {Holders(d, k) : k \in Key} : r = [memory |-> m, data |-> d]
  <2>1. r.data = d /\ r.memory \in Ids(d)
    BY <1>2 DEF Holders
  <2>2. Advances(d, d)
    BY <1>1 DEF Advances
  <2>3. QED
    BY <1>1, <2>1, <2>2
<1>3. CASE \E x \in Fresh \X (Given \cup {"quarantined"}) \X (Key \cup {NoKey}) :
             r = [memory |-> x[1], data |-> Created(d, x[1], x[2], x[3])]
  <2>1. PICK m \in Fresh, st \in Given \cup {"quarantined"}, k \in Key \cup {NoKey} :
           r = [memory |-> m, data |-> Created(d, m, st, k)]
    BY <1>3
  <2>2. m \notin Ids(d)
    BY <1>1 DEF Fresh
  <2>3. QED
    BY <1>1, <2>1, <2>2, CreatedAdvances
<1>4. QED
  BY <1>1, <1>2, <1>3 DEF Stores

-----------------------------------------------------------------------------
(* Import *)

\* What becomes of a chain when the nodes of another one, of the same root, are
\* added to it: every node still finds its parent in an earlier row.
LEMMA ChainsMerge ==
    ASSUME NEW c \in Seq(Node), NEW b \in Seq(Node), Resolves(c), Resolves(b), SameRoot(b, c)
    PROVE  LET u == Without(b, ToSet(c))
           IN  /\ c \o u \in Seq(Node) /\ Resolves(c \o u)
               /\ ToSet(c) \subseteq ToSet(c \o u) /\ ToSet(b) \subseteq ToSet(c \o u)
               /\ c # <<>> => c \o u # <<>> /\ (c \o u)[1] = c[1]
               /\ c = <<>> => c \o u = b
               /\ u = <<>> => c \o u = c
<1>1. PICK u : u = Without(b, ToSet(c))
  OBVIOUS
<1>2. PICK h \in [1 .. Len(u) -> 1 .. Len(b)] :
         /\ \A i \in 1 .. Len(u) : u[i] = b[h[i]] /\ b[h[i]] \notin ToSet(c)
         /\ \A i, j \in 1 .. Len(u) : i < j => h[i] < h[j]
         /\ \A k \in 1 .. Len(b) : b[k] \notin ToSet(c) => \E i \in 1 .. Len(u) : h[i] = k
  <2>1. PICK known : known = ToSet(c)
    OBVIOUS
  <2>2. u = Without(b, known)
    BY <1>1, <2>1
  <2>3. Picked(u, b, known)
    BY <2>2, WithoutItems
  <2>4. QED
    BY <2>1, <2>3 DEF Picked
<1>3. /\ u \in Seq(Node) /\ ToSet(u) = ToSet(b) \ ToSet(c)
      /\ Len(c) \in Nat /\ Len(u) \in Nat /\ Len(b) \in Nat
      /\ DOMAIN c = 1 .. Len(c) /\ DOMAIN u = 1 .. Len(u) /\ DOMAIN b = 1 .. Len(b)
  BY <1>1, WithoutItems, WithoutSet, Items
<1>4. PICK e : e = c \o u
  OBVIOUS
<1>5. /\ e \in Seq(Node) /\ Len(e) = Len(c) + Len(u)
      /\ \A i \in 1 .. Len(c) + Len(u) : e[i] = IF i <= Len(c) THEN c[i] ELSE u[i - Len(c)]
      /\ u = <<>> => e = c
      /\ c = <<>> => e = u
  <2>1. /\ e \in Seq(Node) /\ Len(e) = Len(c) + Len(u)
        /\ \A i \in 1 .. Len(c) + Len(u) : e[i] = IF i <= Len(c) THEN c[i] ELSE u[i - Len(c)]
    BY <1>3, <1>4, ConcatProperties
  <2>2. (u = <<>> => e = c) /\ (c = <<>> => e = u)
    BY <1>3, <1>4, ConcatEmptySeq
  <2>3. QED
    BY <2>1, <2>2
<1>6. DOMAIN e = 1 .. (Len(c) + Len(u))
  BY <1>3, <1>5
<1>7. \A i \in 1 .. Len(c) : i \in 1 .. (Len(c) + Len(u)) /\ e[i] = c[i]
  BY <1>3, <1>5
<1>8. \A k \in 1 .. Len(u) : Len(c) + k \in 1 .. (Len(c) + Len(u)) /\ e[Len(c) + k] = u[k]
  <2>1. ASSUME NEW k \in 1 .. Len(u)
        PROVE  /\ Len(c) + k \in 1 .. (Len(c) + Len(u)) /\ ~(Len(c) + k <= Len(c))
               /\ (Len(c) + k) - Len(c) = k
    BY <1>3
  <2>2. QED
    BY <1>5, <2>1
<1>9. \A i \in 1 .. (Len(c) + Len(u)) :
          i \in 1 .. Len(c) \/ \E k \in 1 .. Len(u) : i = Len(c) + k
  <2>1. ASSUME NEW i \in 1 .. (Len(c) + Len(u)), i \notin 1 .. Len(c)
        PROVE  i - Len(c) \in 1 .. Len(u) /\ i = Len(c) + (i - Len(c))
    BY <1>3, <2>1
  <2>2. QED
    BY <2>1
<1>10. \A k \in 1 .. Len(u) : u[k] \in ToSet(u) /\ u[k] \notin ToSet(c)
  BY <1>2, <1>3, Items
<1>11. \A i \in 1 .. Len(c) : c[i] \in ToSet(c)
  BY Items
<1>12. ToSet(e) = ToSet(c) \cup ToSet(u)
  <2>1. ASSUME NEW x \in ToSet(e) PROVE x \in ToSet(c) \cup ToSet(u)
    <3>1. PICK i \in 1 .. (Len(c) + Len(u)) : x = e[i]
      BY <1>6 DEF ToSet
    <3>2. QED
      BY <1>7, <1>8, <1>9, <1>10, <1>11, <3>1
  <2>2. ASSUME NEW x \in ToSet(c) PROVE x \in ToSet(e)
    BY <1>3, <1>6, <1>7 DEF ToSet
  <2>3. ASSUME NEW x \in ToSet(u) PROVE x \in ToSet(e)
    BY <1>3, <1>6, <1>8 DEF ToSet
  <2>4. QED
    BY <2>1, <2>2, <2>3
<1>13. ASSUME NEW i \in 1 .. (Len(c) + Len(u)), NEW j \in 1 .. (Len(c) + Len(u)), e[i] = e[j]
       PROVE  i = j
  <2>1. CASE i \in 1 .. Len(c) /\ j \in 1 .. Len(c)
    BY <1>3, <1>7, <1>13, <2>1 DEF Resolves
  <2>2. CASE i \notin 1 .. Len(c) /\ j \notin 1 .. Len(c)
    <3>1. PICK k \in 1 .. Len(u), l \in 1 .. Len(u) : i = Len(c) + k /\ j = Len(c) + l
      BY <1>9, <2>2
    <3>2. u[k] = u[l]
      BY <1>8, <1>13, <3>1
    <3>3. \A x, y \in DOMAIN b : b[x] = b[y] => x = y
      BY DEF Resolves
    <3>4. k = l
      BY <1>1, <1>3, <3>2, <3>3, WithoutInjective
    <3>5. QED
      BY <3>1, <3>4
  <2>3. ASSUME NEW x \in 1 .. Len(c), NEW k \in 1 .. Len(u) PROVE e[x] # e[Len(c) + k]
    BY <1>7, <1>8, <1>10, <1>11
  <2>4. QED
    BY <1>9, <1>13, <2>1, <2>2, <2>3
<1>14. ASSUME NEW i \in 1 .. (Len(c) + Len(u))
       PROVE  \/ i = 1 /\ Front(e[i]) = <<>>
              \/ \E j \in 1 .. (i - 1) : Front(e[i]) = e[j]
  <2>1. CASE i \in 1 .. Len(c)
    <3>1. \A j \in 1 .. (i - 1) : j \in 1 .. Len(c)
      BY <1>3, <2>1
    <3>2. e[i] = c[i] /\ \A j \in 1 .. (i - 1) : e[j] = c[j]
      BY <1>7, <2>1, <3>1
    <3>3. \/ i = 1 /\ Front(c[i]) = <<>>
          \/ \E j \in 1 .. (i - 1) : Front(c[i]) = c[j]
      BY <1>3, <2>1 DEF Resolves
    <3>4. QED
      BY <3>2, <3>3
  <2>2. CASE i \notin 1 .. Len(c)
    <3>1. PICK k \in 1 .. Len(u) : i = Len(c) + k
      BY <1>9, <2>2
    <3>2. PICK p \in 1 .. Len(b) : p = h[k]
      BY <1>2
    <3>3. e[i] = b[p] /\ b[p] \notin ToSet(c)
      BY <1>2, <1>8, <3>1, <3>2
    <3>4. \/ p = 1 /\ Front(b[p]) = <<>>
          \/ \E j \in 1 .. (p - 1) : Front(b[p]) = b[j]
      BY <1>3 DEF Resolves
    <3>5. CASE p = 1 /\ Front(b[p]) = <<>>
      <4>1. c = <<>>
        <5>1. SUFFICES ASSUME c # <<>> PROVE FALSE
          OBVIOUS
        <5>2. c[1] = b[1] /\ 1 \in 1 .. Len(c)
          BY <1>3, <5>1, Items DEF SameRoot
        <5>3. QED
          BY <1>11, <3>3, <3>5, <5>2
      <4>2. k = 1
        <5>1. SUFFICES ASSUME k # 1 PROVE FALSE
          OBVIOUS
        <5>2. 1 \in 1 .. Len(u) /\ 1 < k
          BY <1>3, <5>1
        <5>3. h[1] < h[k] /\ h[1] \in 1 .. Len(b)
          BY <1>2, <5>2
        <5>4. QED
          BY <1>3, <3>2, <3>5, <5>3
      <4>3. i = 1
        BY <3>1, <4>1, <4>2, Items
      <4>4. QED
        BY <3>3, <3>5, <4>3
    <3>6. CASE \E j \in 1 .. (p - 1) : Front(b[p]) = b[j]
      <4>1. PICK j \in 1 .. (p - 1) : Front(b[p]) = b[j]
        BY <3>6
      <4>2. j \in 1 .. Len(b) /\ j < p
        BY <1>3, <3>2
      <4>3. CASE b[j] \in ToSet(c)
        <5>1. PICK l \in 1 .. Len(c) : c[l] = b[j]
          BY <4>3, Items
        <5>2. l \in 1 .. (i - 1)
          BY <1>3, <3>1
        <5>3. QED
          BY <1>7, <3>3, <4>1, <5>1, <5>2
      <4>4. CASE b[j] \notin ToSet(c)
        <5>1. PICK l \in 1 .. Len(u) : h[l] = j
          BY <1>2, <4>2, <4>4
        <5>2. l < k
          <6>1. l # k /\ ~(k < l)
            BY <1>2, <1>3, <3>2, <4>2, <5>1
          <6>2. QED
            BY <1>3, <6>1
        <5>3. Len(c) + l \in 1 .. (i - 1)
          BY <1>3, <3>1, <5>2
        <5>4. e[Len(c) + l] = b[j]
          BY <1>2, <1>8, <5>1
        <5>5. QED
          BY <3>3, <4>1, <5>3, <5>4
      <4>5. QED
        BY <4>3, <4>4
    <3>7. QED
      BY <3>4, <3>5, <3>6
  <2>3. QED
    BY <2>1, <2>2
<1>15. Resolves(e)
  BY <1>6, <1>13, <1>14 DEF Resolves
<1>16. ASSUME c = <<>> PROVE e = b
  <2>1. ToSet(c) = {}
    BY <1>16 DEF ToSet
  <2>2. u = b
    BY <1>1, <2>1, WithoutNone
  <2>3. QED
    BY <1>5, <1>16, <2>2
<1>17. ASSUME c # <<>> PROVE e # <<>> /\ e[1] = c[1]
  <2>1. 1 \in 1 .. Len(c)
    BY <1>3, <1>17, Items
  <2>2. 1 \in 1 .. (Len(c) + Len(u)) /\ Len(e) # 0
    BY <1>3, <1>5, <2>1
  <2>3. QED
    BY <1>5, <1>7, <2>1, <2>2, Items
<1>18. QED
  BY <1>1, <1>3, <1>4, <1>5, <1>12, <1>15, <1>16, <1>17

-----------------------------------------------------------------------------
(* What every transaction leaves as it was for the other processes *)

\* The stores only gain: rows, nodes, merged chains, partial imports.
Later ==
    /\ partial \subseteq partial'
    /\ \A t \in Store :
         /\ Ids(db[t]) \subseteq Ids(db'[t]) /\ merged[t] \subseteq merged'[t]
         /\ \A m \in Memory : ToSet(db[t].events[m]) \subseteq ToSet(db'[t].events[m])
         /\ \A m \in Ids(db[t]) \ merged'[t] :
              Forgets(Last(db[t].events[m])) => Forgets(Last(db'[t].events[m]))

LEMMA NothingLater == ASSUME UNCHANGED <<db, merged, partial>> PROVE Later
  BY DEF Later

LEMMA HoldsKept ==
    ASSUME NEW c \in Caller, Holds(c), Later, memoryStage'[c] = memoryStage[c], at'[c] = at[c],
           memoryTodo'[c] = memoryTodo[c], old'[c] = old[c], new'[c] = new[c]
    PROVE  Holds(c)'
<1>1. memoryStage[c] # "idle" =>
        /\ at[c] \in Store /\ Ids(db[at[c]]) \subseteq Ids(db'[at[c]]) /\ merged[at[c]] \subseteq merged'[at[c]]
        /\ \A m \in Ids(db[at[c]]) \ merged'[at[c]] :
              Forgets(Last(db[at[c]].events[m])) => Forgets(Last(db'[at[c]].events[m]))
  BY DEF Later, Holds
<1>2. /\ memoryStage'[c] \in {"idle", "linking", "forgetting", "receipt", "exporting"}
      /\ memoryStage'[c] # "idle" => at'[c] \in Store
  BY DEF Holds
<1>3. memoryStage'[c] = "linking" => {old'[c], new'[c]} \subseteq Ids(db'[at'[c]])
  BY <1>1 DEF Holds
<1>4. memoryStage'[c] \in {"forgetting", "receipt"} => memoryTodo'[c] \subseteq Ids(db'[at'[c]])
  BY <1>1 DEF Holds
<1>5. ASSUME memoryStage'[c] = "receipt"
      PROVE  /\ old'[c] \in Ids(db'[at'[c]])
             /\ old'[c] \notin merged'[at'[c]] => Forgets(Last(db'[at'[c]].events[old'[c]]))
  BY <1>1, <1>5 DEF Holds
<1>6. QED
  BY <1>2, <1>3, <1>4, <1>5 DEF Holds

LEMMA ProcessesStay ==
    ASSUME ProcessesHold, Later, UNCHANGED process
    PROVE  ProcessesHold'
<1>1. /\ memoryStage' = memoryStage /\ at' = at /\ memoryTodo' = memoryTodo
      /\ old' = old /\ new' = new
  BY DEF process
<1>2. \A c \in Caller : Holds(c)'
  BY <1>1, HoldsKept DEF ProcessesHold
<1>3. QED
  BY <1>1, <1>2 DEF ProcessesHold

\* One process takes a step, and the others keep their locals.
Others(p) ==
    /\ memoryStage' \in [Process -> Stage]
    /\ DOMAIN at' = Process /\ DOMAIN memoryTodo' = Process
    /\ DOMAIN old' = Process /\ DOMAIN new' = Process
    /\ \A q \in Process \ {p} :
         /\ memoryStage'[q] = memoryStage[q] /\ at'[q] = at[q]
         /\ memoryTodo'[q] = memoryTodo[q] /\ old'[q] = old[q] /\ new'[q] = new[q]

LEMMA ProcessSteps ==
    ASSUME ProcessesHold, Later, NEW p \in Process, Others(p),
           p \in Caller => Holds(p)',
           p \in Worker => memoryStage'[p] \in {"idle", "scanned", "writing"},
           memoryStage'[p] = "exporting" => \A c \in Caller : memoryStage[c] # "exporting"
    PROVE  ProcessesHold'
<1>1. ASSUME NEW c \in Caller PROVE Holds(c)'
  <2>1. CASE c = p
    BY <2>1
  <2>2. CASE c # p
    <3>1. Holds(c) /\ c \in Process \ {p}
      BY <2>2 DEF ProcessesHold, Process
    <3>2. QED
      BY <3>1, HoldsKept DEF Others
  <2>3. QED
    BY <2>1, <2>2
<1>2. ASSUME NEW w \in Worker PROVE memoryStage'[w] \in {"idle", "scanned", "writing"}
  BY DEF Others, ProcessesHold, Process
<1>3. ASSUME NEW c \in Caller, NEW e \in Caller,
             memoryStage'[c] = "exporting", memoryStage'[e] = "exporting"
      PROVE  c = e
  BY <1>3 DEF Others, ProcessesHold, Process
<1>4. QED
  BY <1>1, <1>2, <1>3 DEF Others, ProcessesHold

\* The file that is or is not there keeps its promise.
LEMMA BundleStays ==
    ASSUME BundleHolds, Later, bundle' = bundle,
           \A c \in Caller : memoryStage'[c] = "exporting" => memoryStage[c] = "exporting" /\ at'[c] = at[c],
           \A c \in Caller : memoryStage[c] = "exporting" => at[c] \in Store,
           bundle.done => \A m \in Memory, t \in Store : SameRoot(bundle.data.events[m], db'[t].events[m])
    PROVE  BundleHolds'
<1>1. Fresh' \subseteq Fresh
  BY DEF Fresh, Later
<1>2. ASSUME bundle.done PROVE FileHolds'
  <2>1. FileHolds
    BY <1>2 DEF BundleHolds
  <2>2. ASSUME NEW m \in Memory
        PROVE  /\ Resolves(bundle.data.events[m])
               /\ m \in Ids(bundle.data) => bundle.data.events[m] # <<>>
               /\ bundle.data.events[m] # <<>> => m \notin Fresh'
               /\ \A t \in Store : SameRoot(bundle.data.events[m], db'[t].events[m])
    BY <1>1, <1>2, <2>1 DEF FileHolds
  <2>3. QED
    BY <2>1, <2>2 DEF FileHolds
<1>3. ASSUME NEW c \in Caller, memoryStage'[c] = "exporting" PROVE ReadFrom(at[c])'
  <2>1. PICK t \in Store : t = at[c] /\ t = at'[c]
    BY <1>3
  <2>2. ReadFrom(t)
    BY <1>3, <2>1 DEF BundleHolds
  <2>3. /\ Ids(bundle.data) \subseteq Ids(db'[t]) /\ (t \notin partial' => t \notin partial)
        /\ Ids(bundle.data) \ merged'[t] \subseteq Ids(bundle.data) \ merged[t]
        /\ \A m \in Memory : ToSet(bundle.data.events[m]) \subseteq ToSet(db'[t].events[m])
    BY <2>2 DEF ReadFrom, Later
  <2>4. ReadFrom(t)'
    BY <2>2, <2>3 DEF ReadFrom
  <2>5. QED
    BY <2>1, <2>4
<1>4. QED
  BY <1>2, <1>3 DEF BundleHolds

\* A caller's transaction in one store.
LEMMA StoreSteps ==
    ASSUME MemoryInv, NEW s \in Store, NEW d2, Advances(db[s], d2), db' = [db EXCEPT ![s] = d2],
           UNCHANGED <<embedded, bundle, merged, partial>>
    PROVE  /\ StoresFormed' /\ Later
           /\ bundle.done => \A m \in Memory, t \in Store : SameRoot(bundle.data.events[m], db'[t].events[m])
<1>1. /\ db \in [Store -> DataRow] /\ \A t \in Store : WellFormed(db[t])
      /\ \A t \in Store : embedded[t] \cup merged[t] \subseteq Ids(db[t])
      /\ \A t \in Store : \A m \in Ids(db[t]) \ merged[t] : Sound(db[t], m)
      /\ \A t \in Store \ partial : Linked(db[t])
      /\ \A t, u \in Store, m \in Memory : SameRoot(db[t].events[m], db[u].events[m])
  BY DEF MemoryInv, StoresFormed
<1>2. /\ WellFormed(d2) /\ d2 \in DataRow /\ Ids(db[s]) \subseteq Ids(d2)
      /\ \A m \in Memory : ToSet(db[s].events[m]) \subseteq ToSet(d2.events[m])
      /\ \A m \in Ids(db[s]) : /\ d2.events[m][1] = db[s].events[m][1]
                               /\ Sound(db[s], m) => Sound(d2, m)
                               /\ Forgets(Last(db[s].events[m])) => Forgets(Last(d2.events[m]))
      /\ \A m \in Ids(d2) \ Ids(db[s]) : Sound(d2, m) /\ m \in Fresh
      /\ Linked(db[s]) => Linked(d2)
  BY DEF Advances, WellFormed
<1>3. db'[s] = d2 /\ \A t \in Store : t # s => db'[t] = db[t]
  BY <1>1
<1>4. db' \in [Store -> DataRow]
  BY <1>1, <1>2
<1>5. ASSUME NEW t \in Store
      PROVE  /\ WellFormed(db'[t]) /\ embedded'[t] \cup merged'[t] \subseteq Ids(db'[t])
             /\ \A m \in Ids(db'[t]) \ merged'[t] : Sound(db'[t], m)
             /\ t \notin partial' => Linked(db'[t])
  <2>1. CASE t = s
    <3>1. WellFormed(db'[s]) /\ embedded[s] \cup merged[s] \subseteq Ids(db'[s])
      BY <1>1, <1>2, <1>3
    <3>2. \A m \in Ids(d2) \ merged[s] : Sound(d2, m)
      BY <1>1, <1>2
    <3>3. s \notin partial => Linked(d2)
      BY <1>1, <1>2
    <3>4. QED
      BY <1>3, <2>1, <3>1, <3>2, <3>3
  <2>2. CASE t # s
    BY <1>1, <1>3, <2>2
  <2>3. QED
    BY <2>1, <2>2
\* The root of a chain in a store is the one it had, or the chain is new.
<1>6. ASSUME NEW t \in Store, NEW m \in Memory
      PROVE  \/ m \in Ids(db[t]) /\ db[t].events[m] # <<>> /\ db'[t].events[m][1] = db[t].events[m][1]
             \/ db'[t].events[m] = <<>>
             \/ t = s /\ m \in Fresh
  BY <1>1, <1>2, <1>3 DEF WellFormed
<1>7. \A m \in Fresh, t \in Store : t # s => db'[t].events[m] = <<>>
  BY <1>1, <1>3 DEF Fresh, WellFormed
<1>8. ASSUME NEW t \in Store, NEW u \in Store, NEW m \in Memory
      PROVE  SameRoot(db'[t].events[m], db'[u].events[m])
  <2>1. CASE m \in Fresh
    BY <1>7, <2>1 DEF SameRoot
  <2>2. CASE m \notin Fresh
    BY <1>1, <1>6, <2>2 DEF SameRoot
  <2>3. QED
    BY <2>1, <2>2
<1>9. ASSUME bundle.done, NEW m \in Memory, NEW t \in Store
      PROVE  SameRoot(bundle.data.events[m], db'[t].events[m])
  <2>1. /\ bundle.data.events[m] # <<>> => m \notin Fresh
        /\ SameRoot(bundle.data.events[m], db[t].events[m])
    BY <1>9 DEF MemoryInv, BundleHolds, FileHolds
  <2>2. QED
    BY <1>6, <2>1 DEF SameRoot
<1>10. StoresFormed'
  BY <1>4, <1>5, <1>8 DEF MemoryInv, StoresFormed
<1>11. Later
  BY <1>1, <1>2, <1>3 DEF Later
<1>12. QED
  BY <1>9, <1>10, <1>11

LEMMA JoinItems ==
    ASSUME NEW S, NEW s1 \in Seq(S), NEW s2 \in Seq(S), ToSet(s1) \cap ToSet(s2) = {},
           \A i, j \in DOMAIN s1 : s1[i] = s1[j] => i = j,
           \A i, j \in DOMAIN s2 : s2[i] = s2[j] => i = j
    PROVE  /\ s1 \o s2 \in Seq(S) /\ ToSet(s1 \o s2) = ToSet(s1) \cup ToSet(s2)
           /\ \A i, j \in DOMAIN (s1 \o s2) : (s1 \o s2)[i] = (s1 \o s2)[j] => i = j
<1>1. PICK e : e = s1 \o s2
  OBVIOUS
<1>2. /\ e \in Seq(S) /\ Len(e) = Len(s1) + Len(s2)
      /\ \A i \in 1 .. Len(s1) + Len(s2) : e[i] = IF i <= Len(s1) THEN s1[i] ELSE s2[i - Len(s1)]
  BY <1>1, ConcatProperties
<1>3. /\ Len(s1) \in Nat /\ Len(s2) \in Nat /\ DOMAIN s1 = 1 .. Len(s1) /\ DOMAIN s2 = 1 .. Len(s2)
      /\ DOMAIN e = 1 .. (Len(s1) + Len(s2))
  BY <1>2, Items
<1>4. \A i \in DOMAIN e : \/ i \in DOMAIN s1 /\ e[i] = s1[i]
                          \/ i - Len(s1) \in DOMAIN s2 /\ e[i] = s2[i - Len(s1)]
  <2>1. \A i \in 1 .. (Len(s1) + Len(s2)) : \/ i \in 1 .. Len(s1) /\ i <= Len(s1)
                                            \/ i - Len(s1) \in 1 .. Len(s2) /\ ~(i <= Len(s1))
    BY <1>3
  <2>2. QED
    BY <1>2, <1>3, <2>1
<1>5. \A i \in DOMAIN s1 : i \in DOMAIN e /\ e[i] = s1[i]
  <2>1. \A i \in 1 .. Len(s1) : i \in 1 .. (Len(s1) + Len(s2)) /\ i <= Len(s1)
    BY <1>3
  <2>2. QED
    BY <1>2, <1>3, <2>1
<1>6. \A k \in DOMAIN s2 : Len(s1) + k \in DOMAIN e /\ e[Len(s1) + k] = s2[k]
  <2>1. \A k \in 1 .. Len(s2) : /\ Len(s1) + k \in 1 .. (Len(s1) + Len(s2))
                                /\ ~(Len(s1) + k <= Len(s1)) /\ (Len(s1) + k) - Len(s1) = k
    BY <1>3
  <2>2. QED
    BY <1>2, <1>3, <2>1
<1>7. ToSet(e) = ToSet(s1) \cup ToSet(s2)
  BY <1>4, <1>5, <1>6 DEF ToSet
<1>8. ASSUME NEW i \in DOMAIN e, NEW j \in DOMAIN e, e[i] = e[j]
      PROVE  i = j
  <2>1. CASE i \in DOMAIN s1 /\ e[i] = s1[i] /\ j \in DOMAIN s1 /\ e[j] = s1[j]
    BY <1>8, <2>1
  <2>2. CASE /\ i - Len(s1) \in DOMAIN s2 /\ e[i] = s2[i - Len(s1)]
             /\ j - Len(s1) \in DOMAIN s2 /\ e[j] = s2[j - Len(s1)]
    <3>1. i - Len(s1) = j - Len(s1)
      BY <1>8, <2>2
    <3>2. QED
      BY <1>3, <3>1
  <2>3. ASSUME NEW x \in DOMAIN s1, NEW y \in DOMAIN s2 PROVE s1[x] # s2[y]
    BY DEF ToSet
  <2>4. QED
    BY <1>4, <1>8, <2>1, <2>2, <2>3
<1>9. QED
  BY <1>1, <1>2, <1>7, <1>8

\* The rows of a store after an import.
Imported(s) == LET b == bundle.data
                   d == db[s] IN
    [rows |-> d.rows \o Missing(s),
     status |-> [m \in Memory |-> Loaded(b.status, d.status, m, s)],
     key |-> [m \in Memory |-> Loaded(b.key, d.key, m, s)],
     supersedes |-> [m \in Memory |-> Loaded(b.supersedes, d.supersedes, m, s)],
     events |-> [m \in Memory |-> Extended(s, m)]]

LEMMA ImportedRows ==
    ASSUME MemoryInv, NEW s \in Store, bundle.done, Importable(s)
    PROVE  LET d == db[s]
               b == bundle.data
               d2 == Imported(s)
           IN  /\ WellFormed(d2) /\ Ids(d2) = Ids(d) \cup Ids(b)
               /\ \A m \in Memory :
                    /\ ToSet(d.events[m]) \subseteq ToSet(d2.events[m])
                    /\ d.events[m] # <<>> => d2.events[m] # <<>> /\ d2.events[m][1] = d.events[m][1]
                    /\ d.events[m] = <<>> => d2.events[m] = b.events[m]
                    /\ Unknown(s, m) = <<>> => d2.events[m] = d.events[m]
                    /\ m \in Ids(d) => d2.status[m] = d.status[m]
                    /\ m \in Ids(b) \ Ids(d) => d2.status[m] = b.status[m]
               /\ bundle.complete /\ Linked(d) => Linked(d2)
<1>1. PICK d, b, in, d2 : d = db[s] /\ b = bundle.data /\ in = Missing(s) /\ d2 = Imported(s)
  OBVIOUS
<1>2. WellFormed(d) /\ d \in DataRow /\ b \in DataRow
  BY <1>1 DEF MemoryInv, StoresFormed, BundleHolds
<1>3. /\ \A i, j \in DOMAIN b.rows : b.rows[i] = b.rows[j] => i = j
      /\ \A m \in Ids(b) : b.status[m] # "none" /\ b.events[m] # <<>>
      /\ \A m \in Memory : /\ Resolves(b.events[m]) /\ SameRoot(b.events[m], d.events[m])
                           /\ b.events[m] # <<>> => m \in Ids(b) \cup Ids(d)
      /\ bundle.complete => Linked(b)
  <2>1. FileHolds /\ BundleHolds
    BY DEF MemoryInv, BundleHolds
  <2>2. \A i, j \in DOMAIN b.rows : b.rows[i] = b.rows[j] => i = j
    BY <1>1, <2>1 DEF BundleHolds
  <2>3. \A m \in Ids(b) : b.status[m] # "none"
    BY <1>1, <2>1 DEF BundleHolds
  <2>4. /\ \A m \in Memory : /\ Resolves(b.events[m]) /\ SameRoot(b.events[m], d.events[m])
                             /\ m \in Ids(b) => b.events[m] # <<>>
        /\ bundle.complete => Linked(b)
    BY <1>1, <2>1 DEF FileHolds
  <2>5. \A m \in Memory : b.events[m] # <<>> => m \in Ids(b) \cup Ids(d)
    BY <1>1 DEF Importable
  <2>6. Ids(b) \subseteq Memory
    BY <1>2, DataFacts
  <2>7. QED
    BY <2>2, <2>3, <2>4, <2>5, <2>6
<1>4. /\ d.rows \in Seq(Memory) /\ Ids(d) \subseteq Memory /\ Ids(d) = ToSet(d.rows)
      /\ b.rows \in Seq(Memory) /\ Ids(b) \subseteq Memory /\ Ids(b) = ToSet(b.rows)
      /\ \A m \in Memory : /\ d.events[m] \in Seq(Node) /\ b.events[m] \in Seq(Node)
                           /\ d.status[m] \in Status /\ b.status[m] \in Status
                           /\ d.key[m] \in Key \cup {NoKey} /\ b.key[m] \in Key \cup {NoKey}
                           /\ d.supersedes[m] \in Memory \cup {NoMemory}
                           /\ b.supersedes[m] \in Memory \cup {NoMemory}
  BY <1>2, DataFacts
<1>5. /\ in = Without(b.rows, Ids(d)) /\ in \in Seq(Memory) /\ ToSet(in) = Ids(b) \ Ids(d)
      /\ \A i, j \in DOMAIN in : in[i] = in[j] => i = j
  <2>1. in = Without(b.rows, Ids(d))
    BY <1>1 DEF Missing
  <2>2. PICK rows, known : rows = b.rows /\ known = Ids(d)
    OBVIOUS
  <2>3. rows \in Seq(Memory) /\ \A i, j \in DOMAIN rows : rows[i] = rows[j] => i = j
    BY <1>3, <1>4, <2>2
  <2>4. in = Without(rows, known)
    BY <2>1, <2>2
  <2>5. /\ in \in Seq(Memory) /\ ToSet(in) = ToSet(rows) \ known
        /\ \A i, j \in DOMAIN in : in[i] = in[j] => i = j
    <3>1. /\ Without(rows, known) \in Seq(Memory)
          /\ ToSet(Without(rows, known)) = ToSet(rows) \ known
          /\ \A i, j \in DOMAIN Without(rows, known) :
                Without(rows, known)[i] = Without(rows, known)[j] => i = j
      BY <2>3, WithoutRows
    <3>2. QED
      BY <2>4, <3>1
  <2>6. QED
    BY <1>4, <2>1, <2>2, <2>5
<1>6. /\ d2.rows = d.rows \o in
      /\ \A m \in Memory :
           /\ d2.status[m] = IF m \in Ids(b) \ Ids(d) THEN b.status[m] ELSE d.status[m]
           /\ d2.key[m] = IF m \in Ids(b) \ Ids(d) THEN b.key[m] ELSE d.key[m]
           /\ d2.supersedes[m] = IF m \in Ids(b) \ Ids(d) THEN b.supersedes[m] ELSE d.supersedes[m]
           /\ d2.events[m] = d.events[m] \o Without(b.events[m], ToSet(d.events[m]))
  BY <1>1, <1>5 DEF Imported, Loaded, Extended, Unknown
<1>7. /\ d2.rows \in Seq(Memory) /\ Ids(d2) = Ids(d) \cup Ids(b)
      /\ \A i, j \in DOMAIN d2.rows : d2.rows[i] = d2.rows[j] => i = j
  <2>1. ToSet(d.rows) \cap ToSet(in) = {} /\ \A i, j \in DOMAIN d.rows : d.rows[i] = d.rows[j] => i = j
    BY <1>2, <1>4, <1>5 DEF WellFormed
  <2>2. /\ d2.rows \in Seq(Memory) /\ ToSet(d2.rows) = ToSet(d.rows) \cup ToSet(in)
        /\ \A i, j \in DOMAIN d2.rows : d2.rows[i] = d2.rows[j] => i = j
    <3>1. PICK r1, r2, q : r1 = d.rows /\ r2 = in /\ q = r1 \o r2
      OBVIOUS
    <3>2. /\ r1 \in Seq(Memory) /\ r2 \in Seq(Memory) /\ ToSet(r1) \cap ToSet(r2) = {}
          /\ \A i, j \in DOMAIN r1 : r1[i] = r1[j] => i = j
          /\ \A i, j \in DOMAIN r2 : r2[i] = r2[j] => i = j
      BY <1>4, <1>5, <2>1, <3>1
    <3>3. /\ q \in Seq(Memory) /\ ToSet(q) = ToSet(r1) \cup ToSet(r2)
          /\ \A i, j \in DOMAIN q : q[i] = q[j] => i = j
      <4>1. /\ r1 \o r2 \in Seq(Memory) /\ ToSet(r1 \o r2) = ToSet(r1) \cup ToSet(r2)
            /\ \A i, j \in DOMAIN (r1 \o r2) : (r1 \o r2)[i] = (r1 \o r2)[j] => i = j
        BY <3>2, JoinItems
      <4>2. QED
        BY <3>1, <4>1
    <3>4. QED
      BY <1>6, <3>1, <3>3
  <2>3. Ids(d2) = ToSet(d2.rows)
    BY DEF Ids
  <2>4. QED
    BY <1>4, <1>5, <2>2, <2>3
<1>8. ASSUME NEW m \in Memory
      PROVE  /\ d2.events[m] \in Seq(Node) /\ Resolves(d2.events[m])
             /\ ToSet(d.events[m]) \subseteq ToSet(d2.events[m])
             /\ ToSet(b.events[m]) \subseteq ToSet(d2.events[m])
             /\ d.events[m] # <<>> => d2.events[m] # <<>> /\ d2.events[m][1] = d.events[m][1]
             /\ d.events[m] = <<>> => d2.events[m] = b.events[m]
             /\ Unknown(s, m) = <<>> => d2.events[m] = d.events[m]
  <2>1. Resolves(d.events[m]) /\ Resolves(b.events[m]) /\ SameRoot(b.events[m], d.events[m])
    BY <1>2, <1>3 DEF WellFormed
  <2>2. PICK c, u, e : /\ c = d.events[m] /\ u = Without(b.events[m], ToSet(c))
                       /\ e = d2.events[m]
    OBVIOUS
  <2>3. e = c \o u /\ u = Unknown(s, m)
    BY <1>1, <1>6, <2>2 DEF Unknown
  <2>4. /\ e \in Seq(Node) /\ Resolves(e)
        /\ ToSet(c) \subseteq ToSet(e) /\ ToSet(b.events[m]) \subseteq ToSet(e)
        /\ c # <<>> => e # <<>> /\ e[1] = c[1]
        /\ c = <<>> => e = b.events[m]
        /\ u = <<>> => e = c
    <3>1. PICK f \in Seq(Node) : f = b.events[m]
      BY <1>4
    <3>2. c \in Seq(Node) /\ Resolves(c) /\ Resolves(f) /\ SameRoot(f, c) /\ u = Without(f, ToSet(c))
      BY <1>4, <2>1, <2>2, <3>1
    <3>3. /\ c \o u \in Seq(Node) /\ Resolves(c \o u)
          /\ ToSet(c) \subseteq ToSet(c \o u) /\ ToSet(f) \subseteq ToSet(c \o u)
          /\ c # <<>> => c \o u # <<>> /\ (c \o u)[1] = c[1]
          /\ c = <<>> => c \o u = f
          /\ u = <<>> => c \o u = c
      BY <3>2, ChainsMerge
    <3>4. QED
      BY <2>3, <3>1, <3>3
  <2>5. QED
    BY <2>2, <2>3, <2>4
<1>9. d2 \in DataRow
  <2>1. /\ \A m \in Memory : /\ d2.status[m] \in Status /\ d2.key[m] \in Key \cup {NoKey}
                             /\ d2.supersedes[m] \in Memory \cup {NoMemory}
                             /\ d2.events[m] \in Seq(Node)
    BY <1>4, <1>6, <1>8
  <2>2. d2 = [rows |-> d2.rows, status |-> [m \in Memory |-> d2.status[m]],
              key |-> [m \in Memory |-> d2.key[m]], supersedes |-> [m \in Memory |-> d2.supersedes[m]],
              events |-> [m \in Memory |-> d2.events[m]]]
    BY <1>1 DEF Imported
  <2>3. QED
    BY <1>7, <2>1, <2>2 DEF DataRow
<1>10. ASSUME NEW m \in Memory
       PROVE  /\ m \in Ids(d2) <=> d2.status[m] # "none"
              /\ m \in Ids(d2) <=> d2.events[m] # <<>>
              /\ m \notin Ids(d2) => d2.supersedes[m] = NoMemory
  <2>1. /\ m \in Ids(d) <=> d.status[m] # "none"
        /\ m \in Ids(d) <=> d.events[m] # <<>>
        /\ m \notin Ids(d) => d.supersedes[m] = NoMemory
    BY <1>2 DEF WellFormed
  <2>2. CASE m \in Ids(d)
    <3>1. m \in Ids(d2) /\ d2.status[m] = d.status[m]
      BY <1>6, <1>7, <2>2
    <3>2. d2.events[m] # <<>>
      BY <1>8, <2>1, <2>2
    <3>3. QED
      BY <2>1, <2>2, <3>1, <3>2
  <2>3. CASE m \notin Ids(d)
    <3>1. d2.events[m] = b.events[m]
      BY <1>8, <2>1, <2>3
    <3>2. m \in Ids(d2) <=> m \in Ids(b)
      BY <1>7, <2>3
    <3>3. m \in Ids(b) <=> b.events[m] # <<>>
      BY <1>3, <2>3
    <3>4. /\ m \in Ids(b) => d2.status[m] = b.status[m]
          /\ m \notin Ids(b) => d2.status[m] = d.status[m] /\ d2.supersedes[m] = d.supersedes[m]
      BY <1>6, <2>3
    <3>5. QED
      BY <1>3, <2>1, <2>3, <3>1, <3>2, <3>3, <3>4
  <2>4. QED
    BY <2>2, <2>3
<1>11. WellFormed(d2)
  BY <1>7, <1>8, <1>9, <1>10 DEF WellFormed
<1>12. ASSUME bundle.complete, Linked(d) PROVE Linked(d2)
  <2>1. SUFFICES ASSUME NEW n \in Ids(d2), NEW o, o = d2.supersedes[n], o # NoMemory
                 PROVE  \E x \in ToSet(d2.events[o]) : Last(x) = Entry("supersede", n)
    BY DEF Linked, ToSet
  <2>2. n \in Memory /\ o \in Memory
    BY <1>4, <1>6, <1>7, <2>1
  <2>3. CASE n \in Ids(b) \ Ids(d)
    <3>1. o = b.supersedes[n] /\ Linked(b)
      BY <1>3, <1>6, <1>12, <2>1, <2>2, <2>3
    <3>2. \E x \in ToSet(b.events[o]) : Last(x) = Entry("supersede", n)
      BY <2>1, <2>3, <3>1 DEF Linked, ToSet
    <3>3. QED
      BY <1>8, <2>2, <3>2
  <2>4. CASE n \in Ids(d)
    <3>1. o = d.supersedes[n]
      BY <1>6, <2>1, <2>2, <2>4
    <3>2. \E x \in ToSet(d.events[o]) : Last(x) = Entry("supersede", n)
      BY <1>12, <2>1, <2>4, <3>1 DEF Linked, ToSet
    <3>3. QED
      BY <1>8, <2>2, <3>2
  <2>5. QED
    BY <1>7, <2>3, <2>4
<1>13. \A m \in Memory : /\ m \in Ids(d) => d2.status[m] = d.status[m]
                         /\ m \in Ids(b) \ Ids(d) => d2.status[m] = b.status[m]
  BY <1>6
<1>14. QED
  BY <1>1, <1>7, <1>8, <1>11, <1>12, <1>13

-----------------------------------------------------------------------------
(* The steps *)

\* Processes that no step names keep their locals in every step that names none.
LEMMA NobodyMoves ==
    ASSUME ProcessesHold, UNCHANGED process, NEW p
    PROVE  Others(p)
  BY DEF process, Others, ProcessesHold

LEMMA Returning ==
    ASSUME ProcessesHold, NEW p \in Process, ReturnMemory(p)
    PROVE  /\ Others(p) /\ memoryStage'[p] = "idle" /\ (p \in Caller => Holds(p)')
           /\ \A q \in Process : q # p => memoryStage'[q] = memoryStage[q]
<1>1. /\ memoryStage \in [Process -> Stage] /\ DOMAIN at = Process /\ DOMAIN memoryTodo = Process
      /\ DOMAIN old = Process /\ DOMAIN new = Process
  BY DEF ProcessesHold
<1>2. memoryStage' = [memoryStage EXCEPT ![p] = "idle"] /\ "idle" \in Stage
  BY DEF ReturnMemory, Stage
<1>3. memoryStage' \in [Process -> Stage] /\ memoryStage'[p] = "idle"
      /\ \A q \in Process : q # p => memoryStage'[q] = memoryStage[q]
  BY <1>1, <1>2
<1>4. /\ DOMAIN at' = Process /\ DOMAIN memoryTodo' = Process
      /\ DOMAIN old' = Process /\ DOMAIN new' = Process
      /\ \A q \in Process \ {p} : at'[q] = at[q] /\ memoryTodo'[q] = memoryTodo[q]
                                  /\ old'[q] = old[q] /\ new'[q] = new[q]
  BY <1>1 DEF ReturnMemory
<1>5. QED
  BY <1>3, <1>4 DEF Others, Holds

\* A caller's transaction that changes the rows of one store.
LEMMA CallerWrites ==
    ASSUME MemoryInv, NEW c \in Caller, NEW s \in Store, NEW d2, Advances(db[s], d2),
           db' = [db EXCEPT ![s] = d2], UNCHANGED <<embedded, bundle, merged, partial>>,
           Others(c), memoryStage'[c] # "exporting", Holds(c)'
    PROVE  MemoryInv'
<1>1. /\ StoresFormed' /\ Later
      /\ bundle.done => \A m \in Memory, t \in Store : SameRoot(bundle.data.events[m], db'[t].events[m])
  BY StoreSteps
<1>2. c \in Process /\ c \notin Worker /\ \A e \in Caller : e \in Process /\ (Holds(e) /\ ProcessesHold)
  BY LifecycleAssumption DEF Process, MemoryInv, ProcessesHold
<1>3. ProcessesHold'
  BY <1>1, <1>2, ProcessSteps DEF MemoryInv
<1>4. BundleHolds'
  <2>1. \A e \in Caller : memoryStage'[e] = "exporting" => memoryStage[e] = "exporting" /\ at'[e] = at[e]
    BY <1>2 DEF Others
  <2>2. \A e \in Caller : memoryStage[e] = "exporting" => at[e] \in Store
    BY <1>2 DEF Holds
  <2>3. QED
    BY <1>1, <2>1, <2>2, BundleStays DEF MemoryInv
<1>5. QED
  BY <1>1, <1>3, <1>4 DEF MemoryInv

\* A step that changes nothing in the stores but the vectors.
LEMMA OneMoves ==
    ASSUME MemoryInv, NEW p \in Process, UNCHANGED <<db, bundle, merged, partial>>,
           embedded' \in [Store -> SUBSET Memory], \A t \in Store : embedded'[t] \subseteq Ids(db[t]),
           Others(p), memoryStage'[p] # "exporting",
           p \in Caller => Holds(p)', p \in Worker => memoryStage'[p] \in {"idle", "scanned", "writing"}
    PROVE  MemoryInv'
<1>1. Later
  BY NothingLater
<1>2. StoresFormed'
  BY DEF MemoryInv, StoresFormed
<1>3. ProcessesHold'
  BY <1>1, ProcessSteps DEF MemoryInv
<1>4. \A e \in Caller : e \in Process /\ Holds(e)
  BY DEF Process, MemoryInv, ProcessesHold
<1>5. BundleHolds'
  <2>1. \A e \in Caller : memoryStage'[e] = "exporting" => memoryStage[e] = "exporting" /\ at'[e] = at[e]
    BY <1>4 DEF Others
  <2>2. \A e \in Caller : memoryStage[e] = "exporting" => at[e] \in Store
    BY <1>4 DEF Holds
  <2>3. bundle.done => \A m \in Memory, t \in Store : SameRoot(bundle.data.events[m], db'[t].events[m])
    BY DEF MemoryInv, BundleHolds, FileHolds
  <2>4. QED
    BY <1>1, <2>1, <2>2, <2>3, BundleStays DEF MemoryInv
<1>6. QED
  BY <1>2, <1>3, <1>5 DEF MemoryInv

\* What a process works on, unfolded.
LEMMA ProcessFacts ==
    ASSUME MemoryInv
    PROVE  /\ ProcessesHold /\ memoryStage \in [Process -> Stage]
           /\ DOMAIN at = Process /\ DOMAIN memoryTodo = Process
           /\ DOMAIN old = Process /\ DOMAIN new = Process
           /\ \A c \in Caller : c \in Process /\ c \notin Worker /\ Holds(c)
           /\ \A w \in Worker : w \in Process /\ w \notin Caller
           /\ \A s \in DOMAIN Embedder : Embedder[s] \in Worker /\ s \in Store
           /\ db \in [Store -> DataRow] /\ \A s \in Store : WellFormed(db[s]) /\ Ids(db[s]) \subseteq Memory
           /\ embedded \in [Store -> SUBSET Memory] /\ \A t \in Store : embedded[t] \subseteq Ids(db[t])
<1>1. db \in [Store -> DataRow] /\ \A s \in Store : WellFormed(db[s]) /\ Ids(db[s]) \subseteq Memory
  BY DataFacts DEF MemoryInv, StoresFormed
<1>2. embedded \in [Store -> SUBSET Memory] /\ \A t \in Store : embedded[t] \subseteq Ids(db[t])
  BY DEF MemoryInv, StoresFormed
<1>3. QED
  BY <1>1, <1>2, LifecycleAssumption DEF MemoryInv, ProcessesHold, Process, Worker

LEMMA StoreMemoryStep ==
    ASSUME MemoryInv, NEW c \in Caller, StoreMemory(c)
    PROVE  MemoryInv'
<1>0. PICK s \in Store : \E r \in Stores(db[s]) : db' = [db EXCEPT ![s] = r.data]
  BY DEF StoreMemory
<1>1. PICK r \in Stores(db[s]) : db' = [db EXCEPT ![s] = r.data]
  BY <1>0
<1>2. Advances(db[s], r.data)
  BY ProcessFacts, StoresAdvances
<1>3. memoryStage[c] = "idle" /\ UNCHANGED process /\ UNCHANGED <<embedded, bundle, merged, partial>>
  BY DEF StoreMemory, Call
<1>4. Others(c) /\ memoryStage'[c] = "idle" /\ Holds(c)'
  BY <1>3, ProcessFacts, NobodyMoves DEF process, Holds
<1>5. QED
  BY <1>1, <1>2, <1>3, <1>4, CallerWrites

LEMMA ContradictionWrites ==
    ASSUME MemoryInv, NEW c \in Caller, MarkContradiction(c)
    PROVE  \E s \in Store : \E d2 : Advances(db[s], d2) /\ db' = [db EXCEPT ![s] = d2]
<1>1. PICK s \in Store : \E a, b \in Ids(db[s]) :
         db' = [db EXCEPT ![s] =
             AppendEvent(AppendEvent(@, a, Entry("contradict", b)), b, Entry("contradict", a))]
  BY DEF MarkContradiction
<1>2. PICK a \in Ids(db[s]), b \in Ids(db[s]) :
         db' = [db EXCEPT ![s] =
             AppendEvent(AppendEvent(db[s], a, Entry("contradict", b)), b, Entry("contradict", a))]
  BY <1>1
<1>3. WellFormed(db[s]) /\ a \in Memory /\ b \in Memory
  BY ProcessFacts
<1>4. PICK d1 : d1 = AppendEvent(db[s], a, Entry("contradict", b))
  OBVIOUS
<1>5. Advances(db[s], d1) /\ Ids(d1) = Ids(db[s])
  BY <1>3, <1>4, ContradictAdvances
<1>6. PICK d2 : d2 = AppendEvent(d1, b, Entry("contradict", a))
  OBVIOUS
<1>7. Advances(d1, d2)
  <2>1. WellFormed(d1) /\ b \in Ids(d1)
    BY <1>5 DEF Advances
  <2>2. QED
    BY <1>3, <1>6, <2>1, ContradictAdvances
<1>8. Advances(db[s], d2)
  BY <1>5, <1>7, AdvancesTwice
<1>9. db' = [db EXCEPT ![s] = d2]
  BY <1>2, <1>4, <1>6
<1>10. QED
  BY <1>8, <1>9

LEMMA MarkContradictionStep ==
    ASSUME MemoryInv, NEW c \in Caller, MarkContradiction(c)
    PROVE  MemoryInv'
<1>0. PICK s \in Store : \E d2 : Advances(db[s], d2) /\ db' = [db EXCEPT ![s] = d2]
  BY ContradictionWrites
<1>1. PICK d2 : Advances(db[s], d2) /\ db' = [db EXCEPT ![s] = d2]
  BY <1>0
<1>2. memoryStage[c] = "idle" /\ UNCHANGED process /\ UNCHANGED <<embedded, bundle, merged, partial>>
  BY DEF MarkContradiction, Call
<1>3. Others(c) /\ memoryStage'[c] = "idle" /\ Holds(c)'
  BY <1>2, ProcessFacts, NobodyMoves DEF process, Holds
<1>4. QED
  BY <1>1, <1>2, <1>3, CallerWrites

LEMMA SupersedeStoreStep ==
    ASSUME MemoryInv, NEW c \in Caller, SupersedeStore(c)
    PROVE  MemoryInv'
<1>1. PICK s \in Store : \E o \in Ids(db[s]), r \in Stores(db[s]) :
         /\ db' = [db EXCEPT ![s] = r.data]
         /\ at' = [at EXCEPT ![c] = s]
         /\ old' = [old EXCEPT ![c] = o]
         /\ new' = [new EXCEPT ![c] = r.memory]
  BY Zenon DEF SupersedeStore
<1>2. PICK o \in Ids(db[s]), r \in Stores(db[s]) :
         /\ db' = [db EXCEPT ![s] = r.data]
         /\ at' = [at EXCEPT ![c] = s]
         /\ old' = [old EXCEPT ![c] = o]
         /\ new' = [new EXCEPT ![c] = r.memory]
  BY <1>1
<1>3. Advances(db[s], r.data) /\ r.memory \in Ids(r.data)
  BY ProcessFacts, StoresAdvances
<1>4. /\ memoryStage' = [memoryStage EXCEPT ![c] = "linking"]
      /\ UNCHANGED <<embedded, memoryTodo, bundle, merged, partial>>
  BY DEF SupersedeStore
<1>5. Others(c) /\ memoryStage'[c] = "linking" /\ at'[c] = s /\ old'[c] = o /\ new'[c] = r.memory
  BY <1>2, <1>4, ProcessFacts DEF Others, Stage
<1>6. db'[s] = r.data /\ Ids(db[s]) \subseteq Ids(r.data)
  BY <1>2, <1>3, ProcessFacts DEF Advances
<1>7. Holds(c)'
  BY <1>3, <1>5, <1>6 DEF Holds
<1>8. QED
  BY <1>2, <1>3, <1>4, <1>5, <1>7, CallerWrites

LEMMA SupersedeLinkStep ==
    ASSUME MemoryInv, NEW c \in Caller, SupersedeLink(c)
    PROVE  MemoryInv'
<1>1. memoryStage[c] = "linking" /\ ReturnMemory(c) /\ UNCHANGED <<embedded, bundle, merged, partial>>
      /\ db' = [db EXCEPT ![at[c]] = Replaced(@, old[c], new[c])]
  BY DEF SupersedeLink
<1>2. PICK s \in Store : s = at[c] /\ old[c] \in Ids(db[s]) /\ new[c] \in Ids(db[s]) /\ WellFormed(db[s])
  BY <1>1, ProcessFacts DEF Holds
<1>3. PICK d2 : d2 = Replaced(db[s], old[c], new[c])
  OBVIOUS
<1>4. Advances(db[s], d2)
  BY <1>2, <1>3, ReplacedAdvances
<1>5. db' = [db EXCEPT ![s] = d2]
  BY <1>1, <1>2, <1>3
<1>6. Others(c) /\ memoryStage'[c] = "idle" /\ Holds(c)'
  BY <1>1, ProcessFacts, Returning
<1>7. QED
  BY <1>1, <1>4, <1>5, <1>6, CallerWrites

LEMMA BeginForgetStep ==
    ASSUME MemoryInv, NEW c \in Caller, BeginForget(c)
    PROVE  MemoryInv'
<1>0. PICK s \in Store : \E ms \in SUBSET Ids(db[s]) :
         at' = [at EXCEPT ![c] = s] /\ memoryTodo' = [memoryTodo EXCEPT ![c] = ms]
  BY DEF BeginForget
<1>1. PICK ms \in SUBSET Ids(db[s]) :
         at' = [at EXCEPT ![c] = s] /\ memoryTodo' = [memoryTodo EXCEPT ![c] = ms]
  BY <1>0
<1>2. /\ memoryStage' = [memoryStage EXCEPT ![c] = "forgetting"]
      /\ UNCHANGED <<db, embedded, old, new, bundle, merged, partial>>
  BY DEF BeginForget
<1>3. Others(c) /\ memoryStage'[c] = "forgetting" /\ at'[c] = s /\ memoryTodo'[c] = ms
  BY <1>1, <1>2, ProcessFacts DEF Others, Stage
<1>4. Holds(c)'
  BY <1>2, <1>3 DEF Holds
<1>5. QED
  BY <1>2, <1>3, <1>4, ProcessFacts, OneMoves

LEMMA ForgetStep ==
    ASSUME MemoryInv, NEW c \in Caller, Forget(c)
    PROVE  MemoryInv'
<1>1. PICK m \in memoryTodo[c] :
         /\ db' = [db EXCEPT ![at[c]] = Forgotten(@, m)] /\ old' = [old EXCEPT ![c] = m]
         /\ memoryTodo' = [memoryTodo EXCEPT ![c] = @ \ {m}]
  BY DEF Forget
<1>2. /\ memoryStage[c] = "forgetting" /\ memoryStage' = [memoryStage EXCEPT ![c] = "receipt"]
      /\ UNCHANGED <<embedded, at, new, bundle, merged, partial>>
  BY DEF Forget
<1>3. PICK s \in Store : s = at[c] /\ memoryTodo[c] \subseteq Ids(db[s]) /\ WellFormed(db[s])
  BY <1>2, ProcessFacts DEF Holds
<1>4. PICK d2 : d2 = Forgotten(db[s], m)
  OBVIOUS
<1>5. Advances(db[s], d2) /\ Ids(d2) = Ids(db[s]) /\ Forgets(Last(d2.events[m]))
  BY <1>1, <1>3, <1>4, ForgottenAdvances
<1>6. db' = [db EXCEPT ![s] = d2] /\ db'[s] = d2
  BY <1>1, <1>3, <1>4, ProcessFacts
<1>7. /\ Others(c) /\ memoryStage'[c] = "receipt" /\ at'[c] = s /\ old'[c] = m
      /\ memoryTodo'[c] = memoryTodo[c] \ {m}
  BY <1>1, <1>2, <1>3, ProcessFacts DEF Others, Stage
<1>8. Holds(c)'
  BY <1>1, <1>3, <1>5, <1>6, <1>7 DEF Holds
<1>9. QED
  BY <1>2, <1>5, <1>6, <1>7, <1>8, CallerWrites

LEMMA ReceiptStep ==
    ASSUME MemoryInv, NEW c \in Caller, Receipt(c)
    PROVE  MemoryInv'
<1>1. memoryStage[c] = "receipt" /\ UNCHANGED <<db, embedded, bundle, merged, partial>>
  BY DEF Receipt
<1>2. CASE ReturnMemory(c)
  BY <1>1, <1>2, ProcessFacts, Returning, OneMoves
<1>3. CASE /\ memoryStage' = [memoryStage EXCEPT ![c] = "forgetting"]
           /\ UNCHANGED <<at, memoryTodo, old, new>>
  <2>1. Others(c) /\ memoryStage'[c] = "forgetting"
    BY <1>3, ProcessFacts DEF Others, Stage
  <2>2. Holds(c)'
    BY <1>1, <1>3, <2>1, ProcessFacts DEF Holds
  <2>3. QED
    BY <1>1, <2>1, <2>2, ProcessFacts, OneMoves
<1>4. QED
  BY <1>2, <1>3 DEF Receipt

LEMMA NextItemMoves ==
    ASSUME ProcessesHold, NEW w \in Process, NEW rest, NextItem(w, rest)
    PROVE  Others(w) /\ memoryStage'[w] \in {"idle", "scanned"}
<1>1. CASE ReturnMemory(w)
  BY <1>1, Returning
<1>2. CASE /\ memoryStage' = [memoryStage EXCEPT ![w] = "scanned"]
           /\ memoryTodo' = [memoryTodo EXCEPT ![w] = rest]
           /\ old' = [old EXCEPT ![w] = NoMemory]
           /\ UNCHANGED <<at, new>>
  BY <1>2 DEF Others, ProcessesHold, Stage
<1>3. QED
  BY <1>1, <1>2 DEF NextItem

LEMMA EmbedStep ==
    ASSUME MemoryInv, NEW s \in DOMAIN Embedder, Embed(s)
    PROVE  MemoryInv'
<1>1. PICK w : w = Embedder[s]
  OBVIOUS
<1>2. w \in Process /\ w \in Worker /\ w \notin Caller /\ s \in Store
  BY <1>1, ProcessFacts
<1>3. UNCHANGED <<db, bundle, merged, partial>>
  BY DEF Embed, Scan, CheckEligible, WriteEmbedding
<1>4. Others(w) /\ memoryStage'[w] \in {"idle", "scanned", "writing"}
  <2>1. CASE Scan(s)
    <3>1. /\ memoryTodo' = [memoryTodo EXCEPT ![w] = Eligible(s)]
          /\ memoryStage' = [memoryStage EXCEPT ![w] = "scanned"] /\ UNCHANGED <<at, old, new>>
      BY <1>1, <2>1 DEF Scan
    <3>2. QED
      BY <1>2, <3>1, ProcessFacts DEF Others, Stage
  <2>2. CASE CheckEligible(s)
    <3>1. PICK m \in memoryTodo[w] :
             IF m \in LiveIn(s)
             THEN /\ memoryStage' = [memoryStage EXCEPT ![w] = "writing"]
                  /\ old' = [old EXCEPT ![w] = m]
                  /\ memoryTodo' = [memoryTodo EXCEPT ![w] = @ \ {m}]
                  /\ UNCHANGED <<at, new>>
             ELSE NextItem(w, memoryTodo[w] \ {m})
      BY <1>1, <2>2 DEF CheckEligible
    <3>2. CASE m \in LiveIn(s)
      BY <1>2, <3>1, <3>2, ProcessFacts DEF Others, Stage
    <3>3. CASE m \notin LiveIn(s)
      BY <1>2, <3>1, <3>3, ProcessFacts, NextItemMoves
    <3>4. QED
      BY <3>2, <3>3
  <2>3. CASE WriteEmbedding(s)
    <3>1. NextItem(w, memoryTodo[w])
      BY <1>1, <2>3 DEF WriteEmbedding
    <3>2. QED
      BY <1>2, <3>1, ProcessFacts, NextItemMoves
  <2>4. QED
    BY <2>1, <2>2, <2>3 DEF Embed
<1>5. embedded' \in [Store -> SUBSET Memory] /\ \A t \in Store : embedded'[t] \subseteq Ids(db[t])
  <2>1. CASE embedded' = embedded
    BY <2>1, ProcessFacts
  <2>2. CASE embedded' = [embedded EXCEPT ![s] = Written(s, old[w])]
    <3>1. Written(s, old[w]) \subseteq Ids(db[s]) /\ Ids(db[s]) \subseteq Memory
      BY <1>2, ProcessFacts DEF Written, LiveIn
    <3>2. QED
      BY <1>2, <2>2, <3>1, ProcessFacts
  <2>3. QED
    BY <1>1, <2>1, <2>2 DEF Embed, Scan, CheckEligible, WriteEmbedding
<1>6. QED
  BY <1>2, <1>3, <1>4, <1>5, OneMoves

LEMMA AbandonStep ==
    ASSUME MemoryInv, NEW p \in Process, Abandon(p)
    PROVE  MemoryInv'
<1>1. ReturnMemory(p) /\ UNCHANGED <<db, embedded, bundle, merged, partial>>
  BY DEF Abandon
<1>2. Others(p) /\ memoryStage'[p] = "idle" /\ (p \in Caller => Holds(p)')
  BY <1>1, ProcessFacts, Returning
<1>3. QED
  BY <1>1, <1>2, ProcessFacts, OneMoves

LEMMA ExportRowsStep ==
    ASSUME MemoryInv, NEW c \in Caller, ExportRows(c)
    PROVE  MemoryInv'
<1>1. PICK s \in Exporting : /\ bundle' = [NoBundle EXCEPT !.from = s, !.data = db[s]]
                             /\ at' = [at EXCEPT ![c] = s]
  BY DEF ExportRows
<1>2. /\ memoryStage' = [memoryStage EXCEPT ![c] = "exporting"]
      /\ \A e \in Caller : memoryStage[e] # "exporting"
      /\ UNCHANGED <<db, embedded, memoryTodo, old, new, merged, partial>>
  BY DEF ExportRows
<1>3. s \in Store /\ WellFormed(db[s]) /\ db[s] \in DataRow
  BY LifecycleAssumption, ProcessFacts
<1>4. Others(c) /\ memoryStage'[c] = "exporting" /\ at'[c] = s
  BY <1>1, <1>2, ProcessFacts DEF Others, Stage
<1>5. Later
  BY <1>2, NothingLater
<1>6. StoresFormed'
  BY <1>2 DEF MemoryInv, StoresFormed
<1>7. Holds(c)'
  BY <1>3, <1>4 DEF Holds
<1>8. ProcessesHold'
  <2>1. c \in Process /\ c \notin Worker /\ ProcessesHold
    BY ProcessFacts
  <2>2. QED
    BY <1>2, <1>4, <1>5, <1>7, <2>1, ProcessSteps
<1>9. /\ bundle'.from = s /\ bundle'.done = FALSE /\ bundle'.complete = TRUE /\ bundle'.tainted = {}
      /\ bundle'.data = db[s]
      /\ bundle' \in [from : Store \cup {NoMemory}, done : BOOLEAN, complete : BOOLEAN,
                      data : DataRow, tainted : SUBSET Memory]
  BY <1>1, <1>3 DEF NoBundle
<1>10. ReadFrom(s)'
  <2>1. \A m \in Ids(db[s]) \ merged[s] : Sound(db[s], m)
    BY <1>3 DEF MemoryInv, StoresFormed
  <2>2. s \notin partial => Linked(db[s])
    BY <1>3 DEF MemoryInv, StoresFormed
  <2>3. QED
    BY <1>2, <1>9, <2>1, <2>2 DEF ReadFrom
<1>11. \A e \in Caller : memoryStage'[e] = "exporting" => at'[e] = s
  BY <1>2, <1>4, ProcessFacts DEF Others
<1>12. BundleHolds'
  <2>1. \A m \in Ids(db[s]) : db[s].status[m] # "none"
    BY <1>3, ProcessFacts DEF WellFormed
  <2>2. \A i, j \in DOMAIN db[s].rows : db[s].rows[i] = db[s].rows[j] => i = j
    BY <1>3 DEF WellFormed
  <2>3. QED
    BY <1>9, <1>10, <1>11, <2>1, <2>2 DEF BundleHolds
<1>13. QED
  BY <1>6, <1>8, <1>12 DEF MemoryInv

\* What the second read makes of an open export: a file.
LEMMA ExportEventsStep ==
    ASSUME MemoryInv, NEW c \in Caller, ExportEvents(c)
    PROVE  MemoryInv'
<1> DEFINE s == at[c]
           d == bundle.data
           keep(all) == IF all THEN Memory ELSE Kept(d)
           chain(all) == [m \in Memory |-> IF m \in keep(all) THEN db[s].events[m] ELSE <<>>]
<1>1. s = at[c] /\ d = bundle.data
  OBVIOUS
<1>2. PICK all \in BOOLEAN :
        bundle' = [bundle EXCEPT
           !.done = TRUE,
           !.complete = all /\ s \notin partial,
           !.data = [d EXCEPT !.rows = Without(@, Memory \ keep(all)), !.events = chain(all)],
           !.tainted = merged[s] \cup {m \in Memory : chain(all)[m] # d.events[m]}]
  BY Zenon DEF ExportEvents
<1> HIDE DEF s, d
<1>3. memoryStage[c] = "exporting" /\ ReturnMemory(c) /\ UNCHANGED <<db, embedded, merged, partial>>
  BY DEF ExportEvents
<1>4. /\ s \in Store /\ WellFormed(db[s]) /\ db[s] \in DataRow /\ Ids(db[s]) \subseteq Memory
      /\ merged[s] \subseteq Memory
  <2>1. s \in Store
    BY <1>1, <1>3, ProcessFacts DEF Holds
  <2>2. QED
    BY <2>1, ProcessFacts DEF MemoryInv, StoresFormed
<1>5. /\ d \in DataRow /\ \A i, j \in DOMAIN d.rows : d.rows[i] = d.rows[j] => i = j
      /\ \A m \in Ids(d) : m \in Memory /\ d.status[m] # "none"
      /\ d.rows \in Seq(Memory) /\ Ids(d) = ToSet(d.rows)
      /\ \A m \in Memory : d.events[m] \in Seq(Node) /\ db[s].events[m] \in Seq(Node)
  BY <1>1, <1>4, DataFacts DEF MemoryInv, BundleHolds
<1>6. /\ Ids(d) \subseteq Ids(db[s])
      /\ \A m \in Ids(d) \ merged[s] : Sound(d, m)
      /\ s \notin partial => Linked(d)
      /\ \A m \in Memory : ToSet(d.events[m]) \subseteq ToSet(db[s].events[m])
  BY <1>1, <1>3 DEF MemoryInv, BundleHolds, ReadFrom
<1>7. PICK rs : rs = Without(d.rows, Memory \ keep(all))
  OBVIOUS
<1>8. /\ rs \in Seq(Memory) /\ ToSet(rs) = Ids(d) \cap keep(all)
      /\ \A i, j \in DOMAIN rs : rs[i] = rs[j] => i = j
  <2>1. PICK out : out = Memory \ keep(all)
    OBVIOUS
  <2>2. /\ rs \in Seq(Memory) /\ ToSet(rs) = ToSet(d.rows) \ out
        /\ \A i, j \in DOMAIN rs : rs[i] = rs[j] => i = j
    <3>1. PICK rows : rows = d.rows
      OBVIOUS
    <3>2. rows \in Seq(Memory) /\ \A i, j \in DOMAIN rows : rows[i] = rows[j] => i = j
      BY <1>5, <3>1
    <3>3. rs = Without(rows, out)
      BY <1>7, <2>1, <3>1
    <3>4. /\ Without(rows, out) \in Seq(Memory)
          /\ ToSet(Without(rows, out)) = ToSet(rows) \ out
          /\ \A i, j \in DOMAIN Without(rows, out) :
                Without(rows, out)[i] = Without(rows, out)[j] => i = j
      BY <3>2, WithoutRows
    <3>5. QED
      BY <3>1, <3>3, <3>4
  <2>3. QED
    BY <1>5, <2>1, <2>2
<1>9. PICK d2 : d2 = [d EXCEPT !.rows = rs, !.events = chain(all)]
  OBVIOUS
<1>10. /\ d2 \in DataRow /\ d2.rows = rs /\ d2.events = chain(all) /\ d2.status = d.status
       /\ d2.supersedes = d.supersedes /\ Ids(d2) = Ids(d) \cap keep(all)
  <2>1. <<>> \in Seq(Node)
    OBVIOUS
  <2>2. \A m \in Memory : chain(all)[m] \in Seq(Node)
    BY <1>2, <1>5, <2>1
  <2>3. chain(all) \in [Memory -> Seq(Node)]
    BY <1>2, <2>2
  <2>4. /\ d2 \in DataRow /\ d2.rows = rs /\ d2.events = chain(all) /\ d2.status = d.status
        /\ d2.supersedes = d.supersedes
    BY <1>5, <1>8, <1>9, <2>3 DEF DataRow
  <2>5. QED
    BY <1>8, <2>4 DEF Ids
<1>11. /\ bundle'.done = TRUE /\ bundle'.data = d2 /\ bundle'.complete = (all /\ s \notin partial)
       /\ bundle'.tainted = merged[s] \cup {m \in Memory : chain(all)[m] # d.events[m]}
       /\ bundle' \in [from : Store \cup {NoMemory}, done : BOOLEAN, complete : BOOLEAN,
                       data : DataRow, tainted : SUBSET Memory]
  <2>1. PICK b : b = bundle
    OBVIOUS
  <2>2. b \in [from : Store \cup {NoMemory}, done : BOOLEAN, complete : BOOLEAN,
               data : DataRow, tainted : SUBSET Memory]
    BY <2>1 DEF MemoryInv, BundleHolds
  <2>3. PICK tn, cm : tn = merged[s] \cup {m \in Memory : chain(all)[m] # d.events[m]}
                      /\ cm = (all /\ s \notin partial)
    OBVIOUS
  <2>4. tn \in SUBSET Memory /\ cm \in BOOLEAN
    BY <1>4, <2>3
  <2>5. bundle' = [b EXCEPT !.done = TRUE, !.complete = cm, !.data = d2, !.tainted = tn]
    BY <1>2, <1>7, <1>9, <2>1, <2>3
  <2>6. QED
    BY <1>10, <2>2, <2>3, <2>4, <2>5
<1>12. FileHolds'
  <2>1. /\ \A m \in Memory : /\ m \in Ids(db[s]) <=> db[s].events[m] # <<>>
                             /\ Resolves(db[s].events[m]) /\ chain(all)[m] \in {db[s].events[m], <<>>}
                             /\ m \in keep(all) => chain(all)[m] = db[s].events[m]
        /\ Resolves(<<>>)
    BY <1>2, <1>4 DEF WellFormed, Resolves
  <2>2. ASSUME NEW m \in Memory
        PROVE  /\ Resolves(d2.events[m])
               /\ m \in Ids(d2) => d2.events[m] # <<>>
               /\ d2.events[m] # <<>> => m \notin Fresh
               /\ \A t \in Store : SameRoot(d2.events[m], db[t].events[m])
    <3>1. Resolves(d2.events[m]) /\ (m \in Ids(d2) => d2.events[m] # <<>>)
      BY <1>6, <1>10, <2>1
    <3>2. d2.events[m] # <<>> => m \notin Fresh
      BY <1>4, <1>10, <2>1 DEF Fresh
    <3>3. \A t \in Store : SameRoot(db[s].events[m], db[t].events[m])
      BY <1>4 DEF MemoryInv, StoresFormed
    <3>4. QED
      BY <1>10, <2>1, <3>1, <3>2, <3>3 DEF SameRoot
  <2>3. ASSUME NEW m \in Ids(d2), m \notin bundle'.tainted PROVE Sound(d2, m)
    <3>1. m \in Memory /\ m \in Ids(d) /\ m \notin merged[s] /\ chain(all)[m] = d.events[m]
      BY <1>5, <1>10, <1>11, <2>3
    <3>2. QED
      BY <1>6, <1>10, <3>1 DEF Sound
  <2>4. ASSUME bundle'.complete PROVE Linked(d2)
    <3>1. keep(all) = Memory /\ Linked(d)
      BY <1>2, <1>6, <1>11, <2>4
    <3>2. SUFFICES ASSUME NEW n \in Ids(d2), NEW o, o = d2.supersedes[n], o # NoMemory
                   PROVE  \E x \in ToSet(d2.events[o]) : Last(x) = Entry("supersede", n)
      BY DEF Linked, ToSet
    <3>3. n \in Ids(d) /\ o = d.supersedes[n] /\ o \in Memory
      BY <1>5, <1>10, <3>2, DataFacts
    <3>4. \E x \in ToSet(d.events[o]) : Last(x) = Entry("supersede", n)
      BY <3>1, <3>2, <3>3 DEF Linked, ToSet
    <3>5. QED
      BY <1>6, <1>10, <2>1, <3>1, <3>3, <3>4
  <2>5. Fresh' = Fresh
    BY <1>3 DEF Fresh
  <2>6. QED
    BY <1>3, <1>11, <2>2, <2>3, <2>4, <2>5 DEF FileHolds
<1>13. /\ Others(c) /\ memoryStage'[c] = "idle" /\ Holds(c)'
       /\ \A e \in Caller : memoryStage'[e] # "exporting"
  BY <1>3, ProcessFacts, Returning DEF ProcessesHold
<1>14. BundleHolds'
  <2>1. \A m \in Ids(d2) : d2.status[m] # "none"
    BY <1>5, <1>10
  <2>2. QED
    BY <1>8, <1>10, <1>11, <1>12, <1>13, <2>1 DEF BundleHolds
<1>15. Later
  BY <1>3, NothingLater
<1>16. ProcessesHold'
  <2>1. c \in Process /\ c \notin Worker /\ ProcessesHold
    BY ProcessFacts
  <2>2. QED
    BY <1>13, <1>15, <2>1, ProcessSteps
<1>17. StoresFormed'
  BY <1>3 DEF MemoryInv, StoresFormed
<1>18. QED
  BY <1>14, <1>16, <1>17 DEF MemoryInv

\* What an import does to the store it writes, and to the books about it.
LEMMA ImportWrites ==
    ASSUME MemoryInv, NEW c \in Caller, Import(c)
    PROVE  \E s \in Store :
             /\ bundle.done /\ Importable(s) /\ db' = [db EXCEPT ![s] = Imported(s)]
             /\ merged' = [merged EXCEPT ![s] = @ \cup
                   {m \in Memory :
                      \/ m \in Ids(db[s]) /\ Unknown(s, m) # <<>>
                      \/ m \in ToSet(Missing(s)) \cap bundle.tainted}]
             /\ partial' = IF bundle.complete THEN partial ELSE partial \cup {s}
             /\ UNCHANGED <<embedded, process, bundle>>
<1>1. PICK s \in Store :
         /\ Importable(s)
         /\ LET b == bundle.data
                d == db[s] IN
            /\ db' = [db EXCEPT ![s] =
                 [rows |-> @.rows \o Missing(s),
                  status |-> [m \in Memory |-> Loaded(b.status, d.status, m, s)],
                  key |-> [m \in Memory |-> Loaded(b.key, d.key, m, s)],
                  supersedes |-> [m \in Memory |-> Loaded(b.supersedes, d.supersedes, m, s)],
                  events |-> [m \in Memory |-> Extended(s, m)]]]
            /\ merged' = [merged EXCEPT ![s] = @ \cup
                 {m \in Memory :
                    \/ m \in Ids(d) /\ Unknown(s, m) # <<>>
                    \/ m \in ToSet(Missing(s)) \cap bundle.tainted}]
            /\ partial' = IF bundle.complete THEN partial ELSE partial \cup {s}
  BY DEF Import
<1>2. bundle.done /\ UNCHANGED <<embedded, process, bundle>>
  BY DEF Import
<1>3. db' = [db EXCEPT ![s] = Imported(s)]
  BY <1>1 DEF Imported
<1>4. QED
  BY <1>1, <1>2, <1>3

LEMMA ImportStep ==
    ASSUME MemoryInv, NEW c \in Caller, Import(c)
    PROVE  MemoryInv'
<1>1. PICK s \in Store :
        /\ bundle.done /\ Importable(s) /\ db' = [db EXCEPT ![s] = Imported(s)]
        /\ merged' = [merged EXCEPT ![s] = @ \cup
              {m \in Memory :
                 \/ m \in Ids(db[s]) /\ Unknown(s, m) # <<>>
                 \/ m \in ToSet(Missing(s)) \cap bundle.tainted}]
        /\ partial' = IF bundle.complete THEN partial ELSE partial \cup {s}
        /\ UNCHANGED <<embedded, process, bundle>>
  BY ImportWrites
<1>2. PICK d, b, d2 : d = db[s] /\ b = bundle.data /\ d2 = Imported(s)
  OBVIOUS
<1>3. /\ WellFormed(d2) /\ Ids(d2) = Ids(d) \cup Ids(b)
      /\ \A m \in Memory :
           /\ ToSet(d.events[m]) \subseteq ToSet(d2.events[m])
           /\ d.events[m] # <<>> => d2.events[m] # <<>> /\ d2.events[m][1] = d.events[m][1]
           /\ d.events[m] = <<>> => d2.events[m] = b.events[m]
           /\ Unknown(s, m) = <<>> => d2.events[m] = d.events[m]
           /\ m \in Ids(d) => d2.status[m] = d.status[m]
           /\ m \in Ids(b) \ Ids(d) => d2.status[m] = b.status[m]
      /\ bundle.complete /\ Linked(d) => Linked(d2)
  BY <1>1, <1>2, ImportedRows
<1>4. /\ db \in [Store -> DataRow] /\ \A t \in Store : WellFormed(db[t]) /\ Ids(db[t]) \subseteq Memory
      /\ \A t \in Store : embedded[t] \cup merged[t] \subseteq Ids(db[t])
      /\ \A t \in Store : \A m \in Ids(db[t]) \ merged[t] : Sound(db[t], m)
      /\ \A t \in Store \ partial : Linked(db[t])
      /\ \A t, u \in Store, m \in Memory : SameRoot(db[t].events[m], db[u].events[m])
      /\ merged \in [Store -> SUBSET Memory] /\ embedded \in [Store -> SUBSET Memory] /\ partial \subseteq Store
  BY ProcessFacts DEF MemoryInv, StoresFormed
<1>5. /\ \A m \in Memory, t \in Store : SameRoot(b.events[m], db[t].events[m])
      /\ \A m \in Ids(b) \ bundle.tainted : Sound(b, m)
      /\ b \in DataRow /\ Ids(b) \subseteq Memory /\ b.rows \in Seq(Memory) /\ Ids(b) = ToSet(b.rows)
  BY <1>1, <1>2, DataFacts DEF MemoryInv, BundleHolds, FileHolds
<1>6. db'[s] = d2 /\ \A t \in Store : t # s => db'[t] = db[t] /\ merged'[t] = merged[t]
  BY <1>1, <1>2, <1>4
<1>7. ToSet(Missing(s)) = Ids(b) \ Ids(d)
  BY <1>2, <1>5, WithoutSet DEF Missing
<1>8. merged'[s] = merged[s] \cup {m \in Memory : \/ m \in Ids(d) /\ Unknown(s, m) # <<>>
                                                  \/ m \in (Ids(b) \ Ids(d)) \cap bundle.tainted}
  BY <1>1, <1>2, <1>4, <1>7
<1>9. merged' \in [Store -> SUBSET Memory] /\ merged[s] \subseteq merged'[s] /\ merged'[s] \subseteq Ids(d2)
  <2>1. merged[s] \subseteq Ids(d) /\ Ids(d) \subseteq Memory
    BY <1>2, <1>4
  <2>2. merged'[s] \subseteq Memory /\ merged'[s] \subseteq Ids(d2) /\ merged[s] \subseteq merged'[s]
    BY <1>3, <1>8, <2>1
  <2>3. QED
    BY <1>1, <1>4, <2>2
\* A memory that is not merged now was not merged, and its chain is the one of
\* the store or, when the store did not have it, the one of the file.
<1>10. ASSUME NEW m \in Ids(d2), m \notin merged'[s]
       PROVE  Sound(d2, m) /\ (m \in Ids(d) => d2.events[m] = d.events[m])
  <2>1. m \in Memory
    BY <1>3, <1>2, <1>4, <1>5
  <2>2. CASE m \in Ids(d)
    <3>1. Unknown(s, m) = <<>> /\ m \notin merged[s]
      BY <1>8, <1>10, <2>1, <2>2
    <3>2. d2.events[m] = d.events[m] /\ d2.status[m] = d.status[m] /\ Sound(d, m)
      BY <1>2, <1>3, <1>4, <2>1, <2>2, <3>1
    <3>3. QED
      BY <3>2 DEF Sound
  <2>3. CASE m \notin Ids(d)
    <3>1. m \in Ids(b) /\ m \notin bundle.tainted
      BY <1>3, <1>8, <1>10, <2>1, <2>3
    <3>2. d.events[m] = <<>>
      BY <1>2, <1>4, <2>1, <2>3 DEF WellFormed
    <3>3. d2.events[m] = b.events[m] /\ d2.status[m] = b.status[m] /\ Sound(b, m)
      BY <1>3, <1>5, <2>1, <2>3, <3>1, <3>2
    <3>4. QED
      BY <2>3, <3>3 DEF Sound
  <2>4. QED
    BY <2>2, <2>3
<1>11. Later
  <2>1. ASSUME NEW m \in Ids(db[s]), m \notin merged'[s] PROVE db'[s].events[m] = db[s].events[m]
    BY <1>2, <1>3, <1>6, <1>10, <2>1
  <2>2. partial \subseteq partial'
    BY <1>1
  <2>3. ASSUME NEW t \in Store
        PROVE  /\ Ids(db[t]) \subseteq Ids(db'[t]) /\ merged[t] \subseteq merged'[t]
               /\ \A m \in Memory : ToSet(db[t].events[m]) \subseteq ToSet(db'[t].events[m])
               /\ \A m \in Ids(db[t]) \ merged'[t] :
                    Forgets(Last(db[t].events[m])) => Forgets(Last(db'[t].events[m]))
    <3>1. CASE t = s
      BY <1>2, <1>3, <1>6, <1>9, <2>1, <3>1
    <3>2. CASE t # s
      BY <1>6, <3>2
    <3>3. QED
      BY <3>1, <3>2
  <2>4. QED
    BY <2>2, <2>3 DEF Later
<1>12. ASSUME NEW t \in Store
       PROVE  /\ WellFormed(db'[t]) /\ embedded'[t] \cup merged'[t] \subseteq Ids(db'[t])
              /\ \A m \in Ids(db'[t]) \ merged'[t] : Sound(db'[t], m)
              /\ t \notin partial' => Linked(db'[t])
  <2>1. CASE t = s
    <3>1. embedded'[s] \subseteq Ids(d2)
      BY <1>1, <1>2, <1>3, <1>4
    <3>2. s \notin partial' => Linked(d2)
      BY <1>1, <1>2, <1>3, <1>4
    <3>3. QED
      BY <1>3, <1>6, <1>9, <1>10, <2>1, <3>1, <3>2
  <2>2. CASE t # s
    BY <1>1, <1>4, <1>6, <2>2
  <2>3. QED
    BY <2>1, <2>2
\* Where a chain's root comes from.
<1>13. ASSUME NEW t \in Store, NEW m \in Memory
       PROVE  \/ db[t].events[m] # <<>> /\ db'[t].events[m][1] = db[t].events[m][1]
              \/ db'[t].events[m] = <<>>
              \/ db'[t].events[m] = b.events[m]
  BY <1>2, <1>3, <1>6
<1>14. /\ \A t, u \in Store, m \in Memory : SameRoot(db'[t].events[m], db'[u].events[m])
       /\ \A t \in Store, m \in Memory : SameRoot(b.events[m], db'[t].events[m])
  BY <1>4, <1>5, <1>13 DEF SameRoot
<1>15. StoresFormed'
  <2>1. db' \in [Store -> DataRow] /\ partial' \subseteq Store
    BY <1>1, <1>2, <1>3, <1>4 DEF WellFormed
  <2>2. QED
    BY <1>1, <1>4, <1>9, <1>12, <1>14, <2>1 DEF StoresFormed
<1>16. ProcessesHold' /\ \A e \in Caller : memoryStage'[e] = memoryStage[e] /\ at'[e] = at[e]
  BY <1>1, <1>11, ProcessFacts, ProcessesStay DEF process
<1>17. BundleHolds'
  <2>1. \A e \in Caller : memoryStage[e] = "exporting" => at[e] \in Store
    BY ProcessFacts DEF Holds
  <2>2. QED
    BY <1>1, <1>2, <1>11, <1>14, <1>16, <2>1, BundleStays DEF MemoryInv
<1>18. QED
  BY <1>15, <1>16, <1>17 DEF MemoryInv

-----------------------------------------------------------------------------
(* The invariant *)

\* A store that was filled from a bundle of one event for every memory.
LEMMA CopyFormed ==
    ASSUME NEW ms, ms \subseteq Memory, IsFiniteSet(ms)
    PROVE  /\ WellFormed(Copy(ms)) /\ Ids(Copy(ms)) = ms
           /\ \A m \in ms : Sound(Copy(ms), m)
           /\ Linked(Copy(ms))
           /\ \A m \in Memory : Copy(ms).events[m] \in {<<>>, << <<Entry("create", NoMemory)>> >>}
<1>1. PICK d, rs : d = Copy(ms) /\ rs = SetToSeq(ms)
  OBVIOUS
<1>2. rs \in Seq(Memory) /\ ToSet(rs) = ms /\ \A i, j \in DOMAIN rs : rs[i] = rs[j] => i = j
  <2>1. rs \in Seq(ms) /\ ToSet(rs) = ms /\ \A i, j \in DOMAIN rs : rs[i] = rs[j] => i = j
    BY <1>1, Enumerates
  <2>2. QED
    BY <2>1
<1>3. PICK e \in EntryRow : e = Entry("create", NoMemory) /\ e.type = "create"
  BY EntryTyped DEF EntryType
<1>3a. <<>> \in Seq(EntryRow) /\ <<>> \in Seq(Node)
  OBVIOUS
<1>4. PICK n \in Seq(EntryRow) : n = <<>>
  BY <1>3a, Zenon
<1>5. PICK c \in Seq(Node) : c = <<>>
  BY <1>3a, Zenon
<1>6. PICK c1, n1 : c1 = Grown(c, e) /\ n1 = Append(n, e)
  OBVIOUS
<1>7. c1 = << <<e>> >> /\ n1 = <<e>>
  BY <1>4, <1>5, <1>6 DEF Grown
<1>8. c1 \in Seq(Node) /\ c1 # <<>> /\ Last(c1) = n1 /\ Resolves(c1) /\ Linear(c1)
  <2>1. Resolves(c) /\ Linear(c)
    BY <1>5 DEF Resolves, Linear
  <2>2. Resolves(Grown(c, e)) /\ Linear(Grown(c, e))
    BY <2>1, GrownResolves, GrownLinear
  <2>3. Grown(c, e) \in Seq(Node)
    BY GrownItems
  <2>4. c1 # <<>> /\ Last(c1) = n1
    BY <1>7 DEF Last
  <2>5. QED
    BY <1>6, <2>2, <2>3, <2>4
<1>9. Implies(n1, "confirmed")
  <2>1. e.type \in DOMAIN Deciding /\ "confirmed" \in Deciding[e.type]
    BY <1>3, DecidingTypes
  <2>2. QED
    BY <1>6, <2>1, AppendImplies
<1>10. /\ d.rows = rs /\ d.status = [m \in Memory |-> IF m \in ms THEN "confirmed" ELSE "none"]
       /\ d.key = [m \in Memory |-> NoKey] /\ d.supersedes = [m \in Memory |-> NoMemory]
       /\ d.events = [m \in Memory |-> IF m \in ms THEN c1 ELSE c]
       /\ d = [rows |-> d.rows, status |-> d.status, key |-> d.key,
               supersedes |-> d.supersedes, events |-> d.events]
  BY <1>1, <1>3, <1>5, <1>7 DEF Copy
<1>11. Ids(d) = ms
  BY <1>2, <1>10 DEF Ids
<1>12. d \in DataRow
  <2>1. d.status \in [Memory -> Status] /\ d.key \in [Memory -> Key \cup {NoKey}]
        /\ d.supersedes \in [Memory -> Memory \cup {NoMemory}] /\ d.events \in [Memory -> Seq(Node)]
    BY <1>8, <1>10 DEF Status
  <2>2. QED
    BY <1>2, <1>10, <2>1 DEF DataRow
<1>13. ASSUME NEW m \in Memory
       PROVE  /\ m \in Ids(d) <=> d.status[m] # "none"
              /\ m \in Ids(d) <=> d.events[m] # <<>>
              /\ d.supersedes[m] = NoMemory /\ Resolves(d.events[m])
  <2>1. Resolves(c)
    BY <1>5 DEF Resolves
  <2>2. QED
    BY <1>5, <1>8, <1>10, <1>11, <2>1
<1>14. WellFormed(d)
  BY <1>2, <1>10, <1>12, <1>13 DEF WellFormed
<1>15. \A m \in ms : Sound(d, m)
  BY <1>8, <1>9, <1>10 DEF Sound
<1>16. Linked(d)
  BY <1>10, <1>11 DEF Linked
<1>17. QED
  BY <1>1, <1>3, <1>5, <1>7, <1>10, <1>11, <1>14, <1>15, <1>16

LEMMA MemoryBegins == MemoryInit => MemoryInv
<1> SUFFICES ASSUME MemoryInit PROVE MemoryInv
  OBVIOUS
<1>1. PICK d, e : d = Copy(Shared) /\ e = Copy({})
  OBVIOUS
<1>2. /\ WellFormed(d) /\ d \in DataRow /\ Ids(d) = Shared /\ Linked(d)
      /\ \A m \in Shared : Sound(d, m)
      /\ WellFormed(e) /\ e \in DataRow /\ Ids(e) = {}
  <2>1. WellFormed(d) /\ Ids(d) = Shared /\ Linked(d) /\ \A m \in Shared : Sound(d, m)
    BY <1>1, LifecycleAssumption, CopyFormed
  <2>2. IsFiniteSet({})
    BY FS_EmptySet
  <2>3. WellFormed(e) /\ Ids(e) = {}
    BY <1>1, <2>2, CopyFormed
  <2>4. QED
    BY <2>1, <2>3 DEF WellFormed
<1>3. db = [s \in Store |-> d] /\ bundle = [from |-> NoMemory, done |-> FALSE, complete |-> TRUE, data |-> e, tainted |-> {}]
  BY <1>1 DEF MemoryInit, NoBundle
<1>4. StoresFormed
  <2>1. \A s \in Store : db[s] = d /\ embedded[s] = {} /\ merged[s] = {}
    BY <1>3 DEF MemoryInit
  <2>2. /\ db \in [Store -> DataRow] /\ embedded \in [Store -> SUBSET Memory]
        /\ merged \in [Store -> SUBSET Memory] /\ partial \subseteq Store
    BY <1>2, <1>3 DEF MemoryInit
  <2>3. \A s, t \in Store, m \in Memory : SameRoot(db[s].events[m], db[t].events[m])
    BY <2>1 DEF SameRoot
  <2>4. QED
    BY <1>2, <2>1, <2>2, <2>3 DEF StoresFormed
<1>5. ProcessesHold
  BY DEF MemoryInit, ProcessesHold, Process, Stage, Holds
<1>6. BundleHolds
  <2>1. \A c \in Caller : memoryStage[c] = "idle"
    BY DEF MemoryInit
  <2>2. \A i, j \in DOMAIN e.rows : e.rows[i] = e.rows[j] => i = j
    BY <1>2 DEF WellFormed
  <2>3. QED
    BY <1>2, <1>3, <2>1, <2>2 DEF BundleHolds
<1>7. QED
  BY <1>4, <1>5, <1>6 DEF MemoryInv

LEMMA MemorySteps == MemoryInv /\ [MemoryNext]_memoryVars => MemoryInv'
<1> SUFFICES ASSUME MemoryInv, [MemoryNext]_memoryVars PROVE MemoryInv'
  OBVIOUS
<1>1. CASE \E c \in Caller : \/ StoreMemory(c) \/ MarkContradiction(c)
                             \/ SupersedeStore(c) \/ SupersedeLink(c)
                             \/ BeginForget(c) \/ Forget(c) \/ Receipt(c)
                             \/ ExportRows(c) \/ ExportEvents(c) \/ Import(c)
  BY <1>1, StoreMemoryStep, MarkContradictionStep, SupersedeStoreStep, SupersedeLinkStep,
     BeginForgetStep, ForgetStep, ReceiptStep, ExportRowsStep, ExportEventsStep, ImportStep
<1>2. CASE \E s \in DOMAIN Embedder : Embed(s)
  BY <1>2, EmbedStep
<1>3. CASE \E p \in Caller \cup Worker : Abandon(p)
  BY <1>3, AbandonStep DEF Process
<1>4. CASE UNCHANGED memoryVars
  <2>1. UNCHANGED <<db, embedded, bundle, merged, partial>> /\ UNCHANGED process
    BY <1>4 DEF memoryVars
  <2>2. Later
    BY <2>1, NothingLater
  <2>3. ProcessesHold'
    BY <2>1, <2>2, ProcessesStay DEF MemoryInv
  <2>4. StoresFormed'
    BY <2>1 DEF MemoryInv, StoresFormed
  <2>5. BundleHolds'
    <3>1. \A e \in Caller : memoryStage'[e] = memoryStage[e] /\ at'[e] = at[e]
      BY <2>1 DEF process
    <3>2. \A e \in Caller : memoryStage[e] = "exporting" => at[e] \in Store
      BY ProcessFacts DEF Holds
    <3>3. bundle.done => \A m \in Memory, t \in Store : SameRoot(bundle.data.events[m], db'[t].events[m])
      BY <2>1 DEF MemoryInv, BundleHolds, FileHolds
    <3>4. QED
      BY <2>1, <2>2, <3>1, <3>2, <3>3, BundleStays DEF MemoryInv
  <2>6. QED
    BY <2>3, <2>4, <2>5 DEF MemoryInv
<1>5. QED
  BY <1>1, <1>2, <1>3, <1>4 DEF MemoryNext

LEMMA MemoryAlways == MemorySpec => []MemoryInv
<1>1. QED
  BY MemoryBegins, MemorySteps, PTL DEF MemorySpec

\* Every row of a store is the row of another memory.
LEMMA RowCount ==
    ASSUME NEW d, WellFormed(d)
    PROVE  Len(d.rows) = Cardinality(Ids(d))
<1>1. PICK rs : rs = d.rows
  OBVIOUS
<1>2. /\ rs \in Seq(Memory) /\ Ids(d) = ToSet(rs) /\ Len(rs) \in Nat /\ DOMAIN rs = 1 .. Len(rs)
      /\ \A i, j \in DOMAIN rs : rs[i] = rs[j] => i = j
  BY <1>1, DataFacts, Items DEF WellFormed
<1>3. PICK n \in Nat : n = Len(rs)
  BY <1>2
<1>4. rs \in Bijection(1 .. n, ToSet(rs))
  <2>1. rs \in [1 .. n -> ToSet(rs)]
    BY <1>2, <1>3 DEF ToSet
  <2>2. \A x \in ToSet(rs) : \E i \in 1 .. n : rs[i] = x
    BY <1>2, <1>3 DEF ToSet
  <2>3. QED
    BY <1>2, <1>3, <2>1, <2>2 DEF Bijection, Injection, Surjection, IsInjective
<1>5. ExistsBijection(1 .. n, ToSet(rs))
  BY <1>4 DEF ExistsBijection
<1>6. IsFiniteSet(1 .. n) /\ Cardinality(1 .. n) = n
  BY FS_Interval
<1>7. Cardinality(ToSet(rs)) = n
  BY <1>5, <1>6, FS_Bijection
<1>8. QED
  BY <1>1, <1>2, <1>3, <1>7

\* The columns and locals of every process that reads or writes a memory hold
\* what they may hold, a memory has a row exactly when it has a status, and
\* no memory has two rows, however often bundles are exchanged.
THEOREM MemoryTyped == MemorySpec => []MemoryTypeOK
<1>1. MemoryInv => MemoryTypeOK
  <2> SUFFICES ASSUME MemoryInv PROVE MemoryTypeOK
    OBVIOUS
  <2>1. ASSUME NEW s \in Store
        PROVE  /\ db[s].status \in [Memory -> Status]
               /\ db[s].key \in [Memory -> Key \cup {NoKey}]
               /\ db[s].supersedes \in [Memory -> Memory \cup {NoMemory}]
               /\ Ids(db[s]) = {m \in Memory : db[s].status[m] # "none"}
               /\ Len(db[s].rows) = Cardinality(Ids(db[s]))
               /\ embedded[s] \cup merged[s] \subseteq Ids(db[s])
    <3>1. PICK d : d = db[s]
      OBVIOUS
    <3>2. WellFormed(d) /\ d \in DataRow
      BY <3>1, ProcessFacts
    <3>3. Len(d.rows) = Cardinality(Ids(d))
      BY <3>2, RowCount
    <3>4. /\ d.status \in [Memory -> Status] /\ d.key \in [Memory -> Key \cup {NoKey}]
          /\ d.supersedes \in [Memory -> Memory \cup {NoMemory}] /\ Ids(d) \subseteq Memory
      BY <3>2, DataFacts
    <3>5. Ids(d) = {m \in Memory : d.status[m] # "none"}
      BY <3>2, <3>4 DEF WellFormed
    <3>6. embedded[s] \cup merged[s] \subseteq Ids(db[s])
      BY DEF MemoryInv, StoresFormed
    <3>7. QED
      BY <3>1, <3>3, <3>4, <3>5, <3>6
  <2>2. \A p \in Caller \cup Worker : memoryStage[p] \in Stage
    BY DEF MemoryInv, ProcessesHold, Process
  <2>3. partial \subseteq Store
    BY DEF MemoryInv, StoresFormed
  <2>4. QED
    BY <2>1, <2>2, <2>3 DEF MemoryTypeOK, Stage
<1>2. QED
  BY <1>1, MemoryAlways, PTL

LEMMA ChainsOfInvariant == MemoryInv => ChainsHold
<1> SUFFICES ASSUME MemoryInv PROVE ChainsHold
  OBVIOUS
<1>1. ChainSound
  <2>1. \A s \in Store : \A m \in Ids(db[s]) \ merged[s] : Sound(db[s], m)
    BY DEF MemoryInv, StoresFormed
  <2>2. QED
    BY <2>1, Zenon DEF ChainSound, ChainVerifies, Sound, Linear
<1>2. NodesResolve
  <2>1. ASSUME NEW c, Resolves(c)
        PROVE  /\ IsInjective(c)
               /\ \A i \in DOMAIN c :
                    Front(c[i]) \in {c[j] : j \in 1..(i - 1)} \cup (IF i = 1 THEN {<<>>} ELSE {})
    BY <2>1 DEF Resolves, IsInjective
  <2>2. \A s \in Store, m \in Memory : Resolves(db[s].events[m])
    BY ProcessFacts DEF WellFormed
  <2>3. QED
    BY <2>1, <2>2, ZenonT(30) DEF NodesResolve
<1>3. LinksRecorded
  BY DEF MemoryInv, StoresFormed, LinksRecorded, Linked
<1>4. ReceiptCoversForget
  <2>1. \A c \in Caller : memoryStage[c] = "receipt" /\ old[c] \notin merged[at[c]] =>
            Forgets(Last(db[at[c]].events[old[c]]))
    BY ProcessFacts DEF Holds
  <2>2. QED
    BY <2>1 DEF ReceiptCoversForget, Witness, Forgets
<1>5. QED
  BY <1>1, <1>2, <1>3, <1>4 DEF ChainsHold

\* The event chains tell the lifecycle of the memories they belong to: a chain
\* of one writer verifies and its last deciding event gives the status, a merged
\* one is whole, a replaced memory has the event of its link, and a deletion
\* receipt names a history with the forgetting in it.
THEOREM ChainsAlwaysHold == MemorySpec => []ChainsHold
<1>1. QED
  BY MemoryAlways, ChainsOfInvariant, PTL

\* store.py gives a status of its own choice to no retired memory, and an
\* import leaves the status of known memories alone.
LEMMA StatusKept ==
    ASSUME MemoryInv, [MemoryNext]_memoryVars, NEW s \in Store, NEW m \in Memory,
           db[s].status[m] \in Retired
    PROVE  db'[s].status[m] \in Retired
<1>1. /\ db \in [Store -> DataRow] /\ m \in Ids(db[s]) /\ WellFormed(db[s])
      /\ \A c \in Caller : Holds(c)
  <2>1. db[s].status[m] # "none"
    BY DEF Retired
  <2>2. QED
    BY <2>1, ProcessFacts DEF WellFormed
<1>2. ASSUME NEW t \in Store, NEW d2, Advances(db[t], d2), db' = [db EXCEPT ![t] = d2]
      PROVE  db'[s].status[m] \in Retired
  BY <1>1, <1>2 DEF Advances
<1>3. ASSUME NEW c \in Caller, StoreMemory(c) \/ SupersedeStore(c) PROVE db'[s].status[m] \in Retired
  <2>1. PICK t \in Store : \E r \in Stores(db[t]) : db' = [db EXCEPT ![t] = r.data]
    BY <1>3 DEF StoreMemory, SupersedeStore
  <2>2. PICK r \in Stores(db[t]) : db' = [db EXCEPT ![t] = r.data]
    BY <2>1
  <2>3. Advances(db[t], r.data)
    BY ProcessFacts, StoresAdvances
  <2>4. QED
    BY <1>2, <2>2, <2>3
<1>4. ASSUME NEW c \in Caller, MarkContradiction(c) PROVE db'[s].status[m] \in Retired
  <2>1. \E t \in Store : \E d2 : Advances(db[t], d2) /\ db' = [db EXCEPT ![t] = d2]
    BY <1>4, ContradictionWrites
  <2>2. QED
    BY <1>2, <2>1
<1>5. ASSUME NEW c \in Caller, SupersedeLink(c) PROVE db'[s].status[m] \in Retired
  <2>1. PICK t : t = at[c] /\ t \in Store /\ {old[c], new[c]} \subseteq Ids(db[t])
    BY <1>1, <1>5 DEF SupersedeLink, Holds
  <2>2. PICK d2 : d2 = Replaced(db[t], old[c], new[c])
    OBVIOUS
  <2>3. Advances(db[t], d2) /\ db' = [db EXCEPT ![t] = d2]
    BY <1>5, <2>1, <2>2, ProcessFacts, ReplacedAdvances DEF SupersedeLink
  <2>4. QED
    BY <1>2, <2>1, <2>3
<1>6. ASSUME NEW c \in Caller, Forget(c) PROVE db'[s].status[m] \in Retired
  <2>1. PICK t : t = at[c] /\ t \in Store /\ memoryTodo[c] \subseteq Ids(db[t])
    BY <1>1, <1>6 DEF Forget, Holds
  <2>2. PICK x \in memoryTodo[c] : db' = [db EXCEPT ![t] = Forgotten(db[t], x)]
    BY <1>1, <1>6, <2>1 DEF Forget
  <2>3. Advances(db[t], Forgotten(db[t], x))
    BY <2>1, ProcessFacts, ForgottenAdvances
  <2>4. QED
    BY <1>2, <2>1, <2>2, <2>3
<1>7. ASSUME NEW c \in Caller, Import(c) PROVE db'[s].status[m] \in Retired
  <2>1. PICK t \in Store : bundle.done /\ Importable(t) /\ db' = [db EXCEPT ![t] = Imported(t)]
    BY <1>7, ImportWrites
  <2>2. PICK d2 : d2 = Imported(t)
    OBVIOUS
  <2>3. \A x \in Memory : x \in Ids(db[t]) => d2.status[x] = db[t].status[x]
    BY <2>1, <2>2, ImportedRows
  <2>4. QED
    BY <1>1, <2>1, <2>2, <2>3
<1>8. ASSUME db' = db PROVE db'[s].status[m] \in Retired
  BY <1>8
<1>9. \/ \E c \in Caller : \/ StoreMemory(c) \/ SupersedeStore(c) \/ MarkContradiction(c)
                           \/ SupersedeLink(c) \/ Forget(c) \/ Import(c)
      \/ db' = db
  BY DEF MemoryNext, BeginForget, Receipt, ExportRows, ExportEvents, Embed, Scan, CheckEligible,
         WriteEmbedding, Abandon, memoryVars
<1>10. QED
  BY <1>3, <1>4, <1>5, <1>6, <1>7, <1>8, <1>9

\* No retry, import or sweep brings a superseded, forgotten or quarantined
\* memory back to a status that recall accepts.
THEOREM RetirementIsFinal == MemorySpec => RetiredStaysRetired
<1>1. MemoryInv /\ [MemoryNext]_memoryVars =>
        [\A s \in Store, m \in Memory :
           db[s].status[m] \in {"superseded", "forgotten", "quarantined"}
           => db'[s].status[m] \in {"superseded", "forgotten", "quarantined"}]_memoryVars
  BY StatusKept DEF Retired
<1>2. QED
  BY <1>1, MemoryAlways, PTL DEF MemorySpec, RetiredStaysRetired
=============================================================================
