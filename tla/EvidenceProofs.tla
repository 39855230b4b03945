---------------------------- MODULE EvidenceProofs ----------------------------
(*************************************************************************)
(* Proofs about CloudSync, SessionAnchor, StoreEvidence and              *)
(* ExchangeChain: what a process says of another place, of a file or of  *)
(* a record it has looked at is so, and what it derives from a session   *)
(* is whole, for any number of processes, sessions, memories, turns and  *)
(* exchanges.                                                            *)
(*************************************************************************)
EXTENDS CloudSync, SessionAnchor, StoreEvidence, ExchangeChain, SequenceTheorems, FiniteSetTheorems, TLAPS

(* CloudSync *)

CloudTypes ==
    /\ up \in BOOLEAN /\ servers \in Nat
    /\ info \in {"none", "pending_authorization", "authenticated", "error"}
    /\ thread \in {"none", "asking", "waiting", "granted", "saved"}
    /\ client \in Nat /\ grant \in Nat /\ file \in Nat /\ grants \in Nat
    /\ sync \subseteq Note /\ flight \subseteq Note /\ cloud \subseteq Note /\ drops \in Nat

\* A process that does not run holds nothing.
NothingHeld == ~ up => client = NoGrant /\ thread = "none" /\ flight = {}

\* A pairing thread starts only where no credentials are, and it alone writes
\* them: before that nothing can make the server authenticated.
PairsOnce ==
    /\ thread \in {"asking", "waiting", "granted"} => file = NoGrant
    /\ thread \in {"granted", "saved"} => grant # NoGrant
    /\ thread = "saved" => file = grant

CloudInv == CloudTypes /\ NothingHeld /\ PairsOnce /\ AuthenticatedSurvivesRestart

LEMMA InitCloudInv == CloudInit => CloudInv
<1> SUFFICES ASSUME CloudInit PROVE CloudInv
  OBVIOUS
<1>1. up \in BOOLEAN
  BY Zenon DEF CloudInit
<1>2. QED
  BY <1>1 DEF CloudInit, CloudInv, CloudTypes, NothingHeld, PairsOnce, AuthenticatedSurvivesRestart, NoGrant

\* Without credentials a thread is started, with them they are used.
LEMMA CloudStarts ==
    ASSUME CloudInv, InitCloudSync, up' = TRUE, servers' \in Nat,
           UNCHANGED <<sync, flight, grants, file, cloud, drops>>
    PROVE  CloudInv'
<1>1. CASE Saved
  BY <1>1 DEF InitCloudSync, UseSaved, Saved, CloudInv, CloudTypes, NothingHeld, PairsOnce,
              AuthenticatedSurvivesRestart
<1>2. CASE ~ Saved
  BY <1>2 DEF InitCloudSync, StartPairing, Saved, CloudInv, CloudTypes, NothingHeld, PairsOnce,
              AuthenticatedSurvivesRestart
<1>3. QED
  BY <1>1, <1>2

LEMMA CloudPairs ==
    ASSUME CloudInv,
           PairingAsked \/ PairingGranted \/ PairingSaved \/ PairingDone \/ PairingFailed
    PROVE  CloudInv'
<1> USE DEF CloudInv, CloudTypes, NothingHeld, PairsOnce, AuthenticatedSurvivesRestart, NoGrant
<1>1. CASE PairingAsked
  BY <1>1 DEF PairingAsked, OnInstructions
<1>2. CASE PairingGranted
  BY <1>2 DEF PairingGranted
<1>3. CASE PairingSaved
  BY <1>3 DEF PairingSaved, NextFile
<1>4. CASE PairingDone
  BY <1>4 DEF PairingDone
<1>5. CASE PairingFailed
  BY <1>5 DEF PairingFailed
<1>6. QED
  BY <1>1, <1>2, <1>3, <1>4, <1>5

LEMMA CloudSends ==
    ASSUME CloudInv, NEW n \in Note, Remember(n) \/ Send(n) \/ SendFails(n)
    PROVE  CloudInv'
<1> USE DEF CloudInv, CloudTypes, NothingHeld, PairsOnce, AuthenticatedSurvivesRestart
<1>1. CASE Remember(n)
  BY <1>1 DEF Remember
<1>2. CASE Send(n)
  BY <1>2 DEF Send
<1>3. CASE SendFails(n)
  BY <1>3 DEF SendFails
<1>4. QED
  BY <1>1, <1>2, <1>3

LEMMA NextCloudInv == CloudInv /\ [CloudNext]_cloudVars => CloudInv'
<1> SUFFICES ASSUME CloudInv, [CloudNext]_cloudVars PROVE CloudInv'
  OBVIOUS
<1>1. CASE StartServer
  BY <1>1, CloudStarts DEF StartServer, CloudInv, CloudTypes
<1>2. CASE TriggerPairing
  BY <1>2, CloudStarts DEF TriggerPairing, CloudInv, CloudTypes
<1>3. CASE StopServer
  BY <1>3 DEF StopServer, CloudInv, CloudTypes, NothingHeld, PairsOnce, AuthenticatedSurvivesRestart, NoGrant
<1>4. CASE PairingAsked \/ PairingGranted \/ PairingSaved \/ PairingDone \/ PairingFailed
  BY <1>4, CloudPairs
<1>5. ASSUME NEW n \in Note, Remember(n) \/ Send(n) \/ SendFails(n) PROVE CloudInv'
  BY <1>5, CloudSends
<1>6. CASE UNCHANGED cloudVars
  BY <1>6 DEF cloudVars, process, CloudInv, CloudTypes, NothingHeld, PairsOnce, AuthenticatedSurvivesRestart
<1>7. QED
  BY <1>1, <1>2, <1>3, <1>4, <1>5, <1>6 DEF CloudNext

LEMMA AlwaysCloudInv == CloudSpec => []CloudInv
  BY InitCloudInv, NextCloudInv, PTL DEF CloudSpec

(***************************************************************************)
(* The bridge's state has its types, and a server that was stopped left no *)
(* client, no pairing thread and nothing under way.                        *)
(***************************************************************************)
THEOREM CloudTyped == CloudSpec => []CloudTypeOK
<1>1. CloudInv => CloudTypeOK
  BY DEF CloudInv, CloudTypes, NothingHeld, CloudTypeOK
<1>2. QED
  BY <1>1, AlwaysCloudInv, PTL

(***************************************************************************)
(* A server that says it is authenticated has its token in the credentials *)
(* file, whenever pairings are started, fail or end, and the process with  *)
(* them.                                                                   *)
(***************************************************************************)
THEOREM PairedForGood == CloudSpec => []AuthenticatedSurvivesRestart
<1>1. CloudInv => AuthenticatedSurvivesRestart
  BY DEF CloudInv
<1>2. QED
  BY <1>1, AlwaysCloudInv, PTL

-----------------------------------------------------------------------------
(* SessionAnchor *)

\* What a caller may hold between two of its requests.
CallerState ==
    {Ready}
    \cup [at : {"ask", "root"}, session : Session]
    \cup [at : {"profile", "post"}, session : Session, root : Nat]

HeldRow == [session : Session, root : Nat, count : Nat, key : Session \X Nat]

AnchorTypes ==
    /\ settings \in Settings
    /\ length \in [Session -> 0 .. MaxLength] /\ broken \subseteq Session
    /\ standing \in Standing /\ profile \in BOOLEAN
    /\ held \in Seq(HeldRow) /\ caller \in [Caller -> CallerState]
    /\ result \subseteq [session : Session, root : Nat] /\ calls \in Nat

\* A caller posts a root the chain has had, to CORE once it has the profile.
FitsCaller(r) ==
    /\ r.at \in {"profile", "post"} => r.root \in 1 .. length[r.session]
    /\ settings.core /\ r.at = "post" => profile

CallerFits(c) == FitsCaller(caller[c])

\* What is held is a root of its session, under the key of both.
HeldFits ==
    \A i \in DOMAIN held : /\ held[i].root \in 1 .. length[held[i].session]
                           /\ held[i].key = <<held[i].session, held[i].root>>

AnchorInv ==
    AnchorTypes /\ HeldFits /\ AnchoredIsHeld /\ \A c \in Caller : CallerFits(c)

LEMMA InitAnchorInv == AnchorInit => AnchorInv
<1> SUFFICES ASSUME AnchorInit PROVE AnchorInv
  OBVIOUS
<1>1. held = <<>> /\ result = {} /\ DOMAIN held = {}
  BY DEF AnchorInit
<1>2. /\ settings \in Settings /\ standing \in Standing /\ profile \in BOOLEAN /\ broken \subseteq Session
      /\ calls \in Nat /\ result \subseteq [session : Session, root : Nat] /\ held \in Seq(HeldRow)
  <2>1. settings \in Settings /\ standing \in Standing /\ profile \in BOOLEAN
    BY Zenon DEF AnchorInit
  <2>2. broken \subseteq Session /\ calls \in Nat /\ result \subseteq [session : Session, root : Nat]
    BY DEF AnchorInit
  <2>3. QED
    BY <1>1, <2>1, <2>2
<1>3. length \in [Session -> 0 .. MaxLength]
  BY AnchorAssumption DEF AnchorInit
<1>4. caller \in [Caller -> CallerState] /\ \A c \in Caller : CallerFits(c)
  BY DEF AnchorInit, CallerState, CallerFits, FitsCaller, Ready
<1>5. HeldFits /\ AnchoredIsHeld
  BY <1>1 DEF HeldFits, AnchoredIsHeld
<1>6. QED
  BY <1>2, <1>3, <1>4, <1>5 DEF AnchorInv, AnchorTypes

\* A caller goes on, and nothing is held that was not.
LEMMA CallerStep ==
    ASSUME AnchorInv, NEW c \in Caller, NEW next \in CallerState, FitsCaller(next)',
           caller' = [caller EXCEPT ![c] = next],
           UNCHANGED <<settings, length, broken, standing, held, result>>,
           profile' \in BOOLEAN, profile => profile', calls' \in Nat
    PROVE  AnchorInv'
<1>1. AnchorTypes'
  BY DEF AnchorInv, AnchorTypes
<1>2. HeldFits'
  BY DEF AnchorInv, HeldFits
<1>3. AnchoredIsHeld'
  BY DEF AnchorInv, AnchoredIsHeld
<1>4. ASSUME NEW x \in Caller PROVE CallerFits(x)'
  <2>1. CASE x = c
    <3>1. caller'[x] = next
      BY <2>1 DEF AnchorInv, AnchorTypes
    <3>2. QED
      BY <3>1 DEF CallerFits, FitsCaller
  <2>2. CASE x # c
    BY <2>2 DEF AnchorInv, CallerFits, FitsCaller
  <2>3. QED
    BY <2>1, <2>2
<1>5. QED
  BY <1>1, <1>2, <1>3, <1>4 DEF AnchorInv

\* A caller's call with the oracle, the chain or the profile.
LEMMA CallerAsks ==
    ASSUME AnchorInv, NEW c \in Caller, NEW s \in Session, NEW b \in BOOLEAN,
           Anchor(c, s) \/ AskOracle(c, b) \/ ReadRoot(c)
    PROVE  AnchorInv'
<1>1. PICK r : r = caller[c]
  OBVIOUS
<1>2. r \in CallerState /\ Ready \in CallerState /\ FitsCaller(Ready)'
  BY <1>1 DEF AnchorInv, AnchorTypes, CallerState, FitsCaller, Ready
<1>3. UNCHANGED <<settings, length, broken, standing, held, profile>> /\ calls' \in Nat
  BY DEF Anchor, AskOracle, ReadRoot, Env, AnchorInv, AnchorTypes
<1>4. profile \in BOOLEAN
  BY DEF AnchorInv, AnchorTypes
<1>5. CASE Anchor(c, s)
  <2>1. PICK next : next = [at |-> IF settings.oracle /\ settings.agent THEN "ask" ELSE "root", session |-> s]
    OBVIOUS
  <2>2. next \in CallerState /\ FitsCaller(next)'
    BY <2>1 DEF CallerState, FitsCaller
  <2>3. caller' = [caller EXCEPT ![c] = next] /\ result' = result
    BY <1>5, <2>1 DEF Anchor
  <2>4. QED
    BY <1>3, <1>4, <2>2, <2>3, CallerStep
<1>6. CASE AskOracle(c, b)
  <2>1. PICK next : next = [r EXCEPT !.at = "root"]
    OBVIOUS
  <2>2. r \in [at : {"ask", "root"}, session : Session]
    BY <1>1, <1>2, <1>6 DEF AskOracle, At, CallerState, Ready
  <2>3. next \in [at : {"ask", "root"}, session : Session] /\ next.at = "root"
    BY <2>1, <2>2
  <2>4. next \in CallerState /\ FitsCaller(next)'
    BY <2>3 DEF CallerState, FitsCaller
  <2>5. result' = result /\ caller' \in {[caller EXCEPT ![c] = Ready], [caller EXCEPT ![c] = next]}
    BY <1>1, <1>6, <2>1 DEF AskOracle, Refuse, Back
  <2>6. QED
    BY <1>2, <1>3, <1>4, <2>4, <2>5, CallerStep
<1>7. CASE ReadRoot(c)
  <2>1. r \in [at : {"ask", "root"}, session : Session]
    BY <1>1, <1>2, <1>7 DEF ReadRoot, At, CallerState, Ready
  <2>2. PICK next : next = [at |-> IF settings.core THEN "profile" ELSE "post",
                            session |-> r.session, root |-> length[r.session]]
    OBVIOUS
  <2>3. result' = result /\ (caller' = [caller EXCEPT ![c] = Ready]
                             \/ (caller' = [caller EXCEPT ![c] = next] /\ length[r.session] # 0))
    BY <1>1, <1>7, <2>2 DEF ReadRoot, Refuse, Back
  <2>4. r.session \in Session /\ length[r.session] \in 0 .. MaxLength
    BY <2>1 DEF AnchorInv, AnchorTypes
  <2>5. ASSUME length[r.session] # 0 PROVE next \in CallerState /\ FitsCaller(next)'
    <3>1. length[r.session] \in 1 .. length[r.session] /\ length[r.session] \in Nat
      BY <2>4, <2>5, AnchorAssumption
    <3>2. next \in CallerState
      BY <2>2, <2>4, <3>1 DEF CallerState
    <3>3. FitsCaller(next)'
      BY <1>3, <2>2, <3>1 DEF FitsCaller
    <3>4. QED
      BY <3>2, <3>3
  <2>6. CASE caller' = [caller EXCEPT ![c] = Ready]
    BY <1>2, <1>3, <1>4, <2>3, <2>6, CallerStep
  <2>7. CASE caller' = [caller EXCEPT ![c] = next] /\ length[r.session] # 0
    BY <1>3, <1>4, <2>3, <2>5, <2>7, CallerStep
  <2>8. QED
    BY <2>3, <2>6, <2>7
<1>8. QED
  BY <1>5, <1>6, <1>7

\* The profile is there when the answer to its registration is.
LEMMA CallerRegisters ==
    ASSUME AnchorInv, NEW c \in Caller, NEW a \in BOOLEAN, NEW b \in BOOLEAN, RegisterProfile(c, a, b)
    PROVE  AnchorInv'
<1>1. PICK r : r = caller[c]
  OBVIOUS
<1>2. /\ r \in CallerState /\ r.at = "profile" /\ Ready \in CallerState /\ FitsCaller(r)
  BY <1>1 DEF RegisterProfile, At, AnchorInv, AnchorTypes, CallerState, CallerFits
<1>3. /\ UNCHANGED <<settings, length, broken, standing, held, result, calls>>
      /\ profile' = (profile \/ a)
  BY DEF RegisterProfile, Env, Refuse
<1>4. profile' \in BOOLEAN /\ (profile => profile') /\ (b => profile')
  BY <1>3, Zenon DEF RegisterProfile, AnchorInv, AnchorTypes
<1>5. calls' \in Nat
  BY <1>3 DEF AnchorInv, AnchorTypes
<1>6. PICK next : next = [r EXCEPT !.at = "post"]
  OBVIOUS
<1>7. r \in [at : {"profile", "post"}, session : Session, root : Nat]
  BY <1>2 DEF CallerState, Ready
<1>8. /\ next \in [at : {"profile", "post"}, session : Session, root : Nat]
      /\ next.at = "post" /\ next.session = r.session /\ next.root = r.root
  BY <1>6, <1>7
<1>9. CASE b
  <2>1. caller' = [caller EXCEPT ![c] = next]
    BY <1>1, <1>6, <1>9 DEF RegisterProfile
  <2>2. next \in CallerState
    BY <1>8 DEF CallerState
  <2>3. FitsCaller(next)'
    BY <1>2, <1>3, <1>4, <1>8, <1>9 DEF FitsCaller
  <2>4. QED
    BY <1>3, <1>4, <1>5, <2>1, <2>2, <2>3, CallerStep
<1>10. CASE ~ b
  <2>1. caller' = [caller EXCEPT ![c] = Ready]
    BY <1>10 DEF RegisterProfile, Refuse, Back
  <2>2. FitsCaller(Ready)'
    BY DEF FitsCaller, Ready
  <2>3. QED
    BY <1>2, <1>3, <1>4, <1>5, <2>1, <2>2, CallerStep
<1>11. QED
  BY <1>9, <1>10

\* What a post appends: CORE does not take a root whose key it holds.
LEMMA PostAppends ==
    ASSUME AnchorInv, NEW row \in HeldRow, row.root \in 1 .. length[row.session],
           row.key = <<row.session, row.root>>, settings.core => profile /\ ~ Holds(row.key),
           held' = Append(held, row), UNCHANGED <<settings, length, profile>>
    PROVE  /\ held' \in Seq(HeldRow) /\ HeldFits'
           /\ \A i \in DOMAIN held : i \in DOMAIN held' /\ held'[i] = held[i]
           /\ Len(held') \in DOMAIN held' /\ held'[Len(held')] = row
           /\ settings.core => \A i, j \in DOMAIN held' :
                 held'[i].session = held'[j].session /\ held'[i].root = held'[j].root => i = j
<1>1. held \in Seq(HeldRow)
  BY DEF AnchorInv, AnchorTypes
<1>2. /\ held' \in Seq(HeldRow) /\ Len(held') = Len(held) + 1
      /\ \A i \in 1 .. Len(held) : held'[i] = held[i]
      /\ held'[Len(held) + 1] = row
  BY <1>1, AppendProperties
<1>3. Len(held) \in Nat /\ DOMAIN held = 1 .. Len(held) /\ DOMAIN held' = 1 .. Len(held) + 1
  BY <1>1, <1>2, LenProperties
<1>4. \A i \in DOMAIN held' : i \in DOMAIN held \/ i = Len(held) + 1
  BY <1>3
<1>5. HeldFits'
  BY <1>2, <1>3, <1>4 DEF AnchorInv, HeldFits
<1>6. ASSUME settings.core, NEW i \in DOMAIN held', NEW j \in DOMAIN held',
             held'[i].session = held'[j].session, held'[i].root = held'[j].root
      PROVE  i = j
  <2>1. ASSUME NEW k \in DOMAIN held PROVE ~ (held[k].session = row.session /\ held[k].root = row.root)
    BY <1>6, <2>1 DEF AnchorInv, HeldFits, Holds
  <2>2. CASE i \in DOMAIN held /\ j \in DOMAIN held
    BY <1>2, <1>3, <1>6, <2>2 DEF AnchorInv, AnchoredIsHeld
  <2>3. CASE i = Len(held) + 1 /\ j \in DOMAIN held
    BY <1>2, <1>3, <1>6, <2>1, <2>3
  <2>4. CASE i \in DOMAIN held /\ j = Len(held) + 1
    BY <1>2, <1>3, <1>6, <2>1, <2>4
  <2>5. QED
    BY <1>4, <2>2, <2>3, <2>4
<1>7. QED
  BY <1>2, <1>3, <1>5, <1>6

LEMMA CallerPosts ==
    ASSUME AnchorInv, NEW c \in Caller, NEW a \in BOOLEAN, NEW b \in BOOLEAN, Post(c, a, b)
    PROVE  AnchorInv'
<1>1. PICK r : r = caller[c]
  OBVIOUS
<1>2. r \in [at : {"profile", "post"}, session : Session, root : Nat] /\ r.at = "post" /\ FitsCaller(r)
  BY <1>1 DEF Post, At, AnchorInv, AnchorTypes, CallerState, CallerFits, Ready
<1>3. r.session \in Session /\ r.root \in Nat /\ r.root \in 1 .. length[r.session]
      /\ (settings.core => profile)
  BY <1>2 DEF FitsCaller
<1>4. PICK row : row = [session |-> r.session, root |-> r.root, count |-> r.root, key |-> <<r.session, r.root>>]
  OBVIOUS
<1>5. row \in HeldRow /\ row.session = r.session /\ row.root = r.root /\ row.key = <<r.session, r.root>>
  BY <1>3, <1>4 DEF HeldRow
<1>6. /\ UNCHANGED <<settings, length, broken, standing, profile, calls>>
      /\ caller' = [caller EXCEPT ![c] = Ready]
      /\ b => a
      /\ held' = IF a /\ ~ (settings.core /\ Holds(row.key)) THEN Append(held, row) ELSE held
      /\ result' = IF b THEN result \cup {[session |-> r.session, root |-> r.root]} ELSE result
  BY <1>1, <1>4, <1>5 DEF Post, AnchorKey, Back, Env
<1>7. /\ held' \in Seq(HeldRow) /\ HeldFits'
      /\ \A i \in DOMAIN held : i \in DOMAIN held' /\ held'[i] = held[i]
      /\ a => \E i \in DOMAIN held' : held'[i].session = r.session /\ held'[i].root = r.root
      /\ settings.core => /\ held' # <<>> => profile
                          /\ \A i, j \in DOMAIN held' :
                                held'[i].session = held'[j].session /\ held'[i].root = held'[j].root => i = j
  <2>1. CASE a /\ ~ (settings.core /\ Holds(row.key))
    <3>1. held' = Append(held, row)
      BY <1>6, <2>1
    <3>2. QED
      BY <1>3, <1>5, <1>6, <2>1, <3>1, PostAppends
  <2>2. CASE a /\ settings.core /\ Holds(row.key)
    <3>1. held' = held
      BY <1>6, <2>2
    <3>2. PICK i \in DOMAIN held : held[i].key = <<r.session, r.root>>
      BY <1>5, <2>2 DEF Holds
    <3>3. held[i].session = r.session /\ held[i].root = r.root
      BY <3>2 DEF AnchorInv, HeldFits
    <3>4. held' \in Seq(HeldRow) /\ \A j \in DOMAIN held : j \in DOMAIN held' /\ held'[j] = held[j]
      BY <3>1 DEF AnchorInv, AnchorTypes
    <3>5. HeldFits' /\ AnchoredIsHeld
      BY <1>6, <3>1 DEF AnchorInv, HeldFits
    <3>6. \E j \in DOMAIN held' : held'[j].session = r.session /\ held'[j].root = r.root
      BY <3>2, <3>3, <3>4
    <3>7. QED
      BY <1>6, <3>1, <3>4, <3>5, <3>6 DEF AnchoredIsHeld
  <2>3. CASE ~ a
    BY <1>6, <2>3 DEF AnchorInv, AnchorTypes, HeldFits, AnchoredIsHeld
  <2>4. QED
    BY <2>1, <2>2, <2>3
<1>8. result' \subseteq [session : Session, root : Nat]
  BY <1>3, <1>6 DEF AnchorInv, AnchorTypes
<1>9. Ready \in CallerState /\ FitsCaller(Ready)'
  BY DEF CallerState, FitsCaller, Ready
<1>10. AnchorTypes'
  BY <1>6, <1>7, <1>8, <1>9 DEF AnchorInv, AnchorTypes
<1>11. AnchoredIsHeld'
  <2>1. ASSUME NEW x \in result' PROVE \E i \in DOMAIN held' : held'[i].session = x.session /\ held'[i].root = x.root
    <3>1. CASE x \in result
      BY <1>7, <3>1 DEF AnchorInv, AnchoredIsHeld
    <3>2. CASE x \notin result
      <4>1. b /\ x.session = r.session /\ x.root = r.root
        BY <1>6, <2>1, <3>2
      <4>2. QED
        BY <1>6, <1>7, <4>1
    <3>3. QED
      BY <3>1, <3>2
  <2>2. QED
    BY <1>6, <1>7, <2>1 DEF AnchoredIsHeld
<1>12. ASSUME NEW x \in Caller PROVE CallerFits(x)'
  BY <1>6, <1>9 DEF AnchorInv, AnchorTypes, CallerFits, FitsCaller
<1>13. QED
  BY <1>7, <1>10, <1>11, <1>12 DEF AnchorInv

\* The chain grows or no longer verifies, and the agent comes and goes.
LEMMA AnchorWorld ==
    ASSUME AnchorInv, NEW s \in Session, NEW x \in Standing, Grow(s) \/ Break(s) \/ RegisterAgent(x)
    PROVE  AnchorInv'
<1>1. UNCHANGED <<settings, profile, held, caller, result, calls>> /\ standing' \in Standing
      /\ broken' \subseteq Session
  BY DEF Grow, Break, RegisterAgent, AnchorInv, AnchorTypes
<1>2. \A u \in Session : length[u] \in Nat /\ length[u] <= MaxLength /\ MaxLength \in Nat
  BY AnchorAssumption DEF AnchorInv, AnchorTypes
<1>3. length' \in [Session -> 0 .. MaxLength] /\ \A u \in Session : length[u] <= length'[u]
  <2>1. CASE Grow(s)
    BY <1>2, <2>1 DEF Grow, AnchorInv, AnchorTypes
  <2>2. CASE ~ Grow(s)
    BY <1>2, <2>2 DEF Break, RegisterAgent, AnchorInv, AnchorTypes
  <2>3. QED
    BY <2>1, <2>2
<1>4. \A u \in Session, k \in Nat : k \in 1 .. length[u] => k \in 1 .. length'[u]
  BY <1>2, <1>3
<1>5. AnchorTypes'
  BY <1>1, <1>3 DEF AnchorInv, AnchorTypes
<1>6. HeldFits'
  <2>1. \A i \in DOMAIN held : held[i].session \in Session /\ held[i].root \in Nat
    <3>1. held \in Seq(HeldRow) /\ DOMAIN held = 1 .. Len(held)
      BY LenProperties DEF AnchorInv, AnchorTypes
    <3>2. \A i \in DOMAIN held : held[i] \in HeldRow
      BY <3>1, ElementOfSeq
    <3>3. QED
      BY <3>2 DEF HeldRow
  <2>2. QED
    BY <1>1, <1>4, <2>1 DEF AnchorInv, HeldFits
<1>7. AnchoredIsHeld'
  BY <1>1 DEF AnchorInv, AnchoredIsHeld
<1>8. ASSUME NEW c \in Caller PROVE CallerFits(c)'
  <2>1. PICK r : r = caller[c]
    OBVIOUS
  <2>2. r \in CallerState /\ FitsCaller(r)
    BY <2>1 DEF AnchorInv, AnchorTypes, CallerFits
  <2>3. r.at \in {"profile", "post"} => r.session \in Session /\ r.root \in Nat
    BY <2>2 DEF CallerState, Ready
  <2>4. FitsCaller(r)'
    BY <1>1, <1>4, <2>2, <2>3 DEF FitsCaller
  <2>5. QED
    BY <1>1, <2>1, <2>4 DEF CallerFits
<1>9. QED
  BY <1>5, <1>6, <1>7, <1>8 DEF AnchorInv

LEMMA NextAnchorInv == AnchorInv /\ [AnchorNext]_anchorVars => AnchorInv'
<1> SUFFICES ASSUME AnchorInv, [AnchorNext]_anchorVars PROVE AnchorInv'
  OBVIOUS
<1>1. ASSUME NEW s \in Session, Grow(s) \/ Break(s) PROVE AnchorInv'
  BY <1>1, AnchorWorld DEF AnchorInv, AnchorTypes
<1>2. ASSUME NEW x \in Standing, RegisterAgent(x) PROVE AnchorInv'
  <2>1. UNCHANGED <<settings, length, broken, profile, held, caller, result, calls>> /\ standing' \in Standing
    BY <1>2 DEF RegisterAgent
  <2>2. AnchorTypes' /\ HeldFits' /\ AnchoredIsHeld'
    BY <2>1 DEF AnchorInv, AnchorTypes, HeldFits, AnchoredIsHeld
  <2>3. \A c \in Caller : CallerFits(c)'
    BY <2>1 DEF AnchorInv, CallerFits, FitsCaller
  <2>4. QED
    BY <2>2, <2>3 DEF AnchorInv
<1>3. ASSUME NEW c \in Caller, NEW s \in Session, Anchor(c, s) PROVE AnchorInv'
  BY <1>3, CallerAsks
<1>4. ASSUME NEW c \in Caller, NEW b \in BOOLEAN, AskOracle(c, b) \/ ReadRoot(c) PROVE AnchorInv'
  <2>1. \E s : s \in Session
    BY <1>4 DEF AskOracle, ReadRoot, At, AnchorInv, AnchorTypes, CallerState, Ready
  <2>2. QED
    BY <1>4, <2>1, CallerAsks
<1>5. ASSUME NEW c \in Caller, NEW a \in BOOLEAN, NEW b \in BOOLEAN, RegisterProfile(c, a, b) PROVE AnchorInv'
  BY <1>5, CallerRegisters
<1>6. ASSUME NEW c \in Caller, NEW a \in BOOLEAN, NEW b \in BOOLEAN, Post(c, a, b) PROVE AnchorInv'
  BY <1>6, CallerPosts
<1>7. CASE UNCHANGED anchorVars
  <2>1. UNCHANGED <<settings, length, broken, standing, profile, held, caller, result, calls>>
    BY <1>7 DEF anchorVars
  <2>2. AnchorTypes' /\ HeldFits' /\ AnchoredIsHeld'
    BY <2>1 DEF AnchorInv, AnchorTypes, HeldFits, AnchoredIsHeld
  <2>3. \A c \in Caller : CallerFits(c)'
    BY <2>1 DEF AnchorInv, CallerFits, FitsCaller
  <2>4. QED
    BY <2>2, <2>3 DEF AnchorInv
<1>8. QED
  BY <1>1, <1>2, <1>3, <1>4, <1>5, <1>6, <1>7 DEF AnchorNext

LEMMA AlwaysAnchorInv == AnchorSpec => []AnchorInv
  BY InitAnchorInv, NextAnchorInv, PTL DEF AnchorSpec

(***************************************************************************)
(* The chain, the oracle and the consumer have their types, and a root the *)
(* consumer holds is one the chain of its session has had.                 *)
(***************************************************************************)
THEOREM AnchorTyped == AnchorSpec => []AnchorTypeOK
<1>1. AnchorInv => AnchorTypeOK
  BY DEF AnchorInv, AnchorTypes, HeldFits, AnchorTypeOK
<1>2. QED
  BY <1>1, AlwaysAnchorInv, PTL

(***************************************************************************)
(* A root reported anchored is held by the consumer, whatever requests and *)
(* answers are lost; CORE holds each once and knows the profile before     *)
(* (anchor_session_root).                                                  *)
(***************************************************************************)
THEOREM ReportedIsHeld == AnchorSpec => []AnchoredIsHeld
<1>1. AnchorInv => AnchoredIsHeld
  BY DEF AnchorInv
<1>2. QED
  BY <1>1, AlwaysAnchorInv, PTL

-----------------------------------------------------------------------------
(* StoreEvidence *)

AnyDomain == {"memories", "entities", "relations"}
Versions  == [AnyDomain -> Nat]
Cited     == Node \cup {NoNode}
LinkState == {"unlinked", "content_unavailable", "hash_match_local", "verification_failed"}

\* What a call may hold between two of its steps.
CallState ==
    {IdleCall}
    \cup [at : {"hashed", "copy", "copying", "row"}, hash : Bytes]
    \cup [at : {"cited"}, memory : EvidenceMemory, node : Cited]
    \cup [at : {"compared"}, memory : EvidenceMemory, node : Cited, state : LinkState]
    \cup [at : {"reconcile"}, copy : Versions, began : Versions, done : 0 .. 3, equal : BOOLEAN]
    \cup [at : {"replay"}, shown : Seq(SUBSET Tool), verified : Nat, valid : BOOLEAN]

EvidenceTypes ==
    /\ path \in Bytes /\ blob \in [Bytes -> Bytes \cup {NoNode, "partial"}]
    /\ attached \subseteq Bytes /\ \A h \in attached : blob[h] # NoNode
    /\ dag \in [Node -> EvidenceMemory \cup {NoNode}]
    /\ integrity \in [EvidenceMemory -> [node : Cited, state : LinkState]]
    /\ live \in Versions /\ reports \subseteq [copy : Versions, began : Versions, equal : BOOLEAN]
    /\ tools \in [ReplayTurn -> SUBSET Tool]
    /\ call \in [EvidenceCaller -> CallState]
    /\ evidenceCalls \in 0 .. MaxEvidenceCalls /\ changes \in 0 .. MaxChanges

\* What a verification found of a node stays so: a node has one content.
LinkTrue(m, l) ==
    /\ l.state = "hash_match_local" => l.node \in Node /\ dag[l.node] = m
    /\ l.state = "verification_failed" => l.node \in Node /\ dag[l.node] \notin {m, NoNode}
    /\ l.state = "unlinked" <=> l.node = NoNode

\* Rows of the domains compared later are only added, so one that equals the
\* copy now did so when the comparison began.
CompareTrue(k) ==
    /\ \A d \in {"entities", "relations"} : k.copy[d] <= k.began[d] /\ k.began[d] <= live[d]
    /\ k.equal => /\ k.done > 0 => k.copy["memories"] = k.began["memories"]
                  /\ k.done > 1 => k.copy["entities"] = k.began["entities"]
                  /\ k.done > 2 => k.copy["relations"] = k.began["relations"]

Turns == Cardinality(ReplayTurn)

\* What was there when the chain was verified, after every exchange was read,
\* was there when the exchange was.
ReplayTrue(k) ==
    /\ Len(k.shown) <= Turns /\ k.verified <= Turns
    /\ k.verified > 0 => Len(k.shown) = Turns
    /\ \A t \in 1 .. Len(k.shown) : Committed[t] \subseteq tools[t] => Committed[t] \subseteq k.shown[t]
    /\ k.valid => \A t \in 1 .. k.verified : Committed[t] \subseteq k.shown[t]

FitsCall(k) ==
    /\ k.at \in {"copying", "row"} => blob[k.hash] # NoNode
    /\ k.at = "compared" => LinkTrue(k.memory, k)
    /\ k.at = "reconcile" => CompareTrue(k)
    /\ k.at = "replay" => ReplayTrue(k)
CallFits(c) == FitsCall(call[c])

LinksTrue == \A m \in EvidenceMemory : LinkTrue(m, integrity[m])

EvidenceInv ==
    /\ EvidenceTypes /\ LinksTrue /\ EqualMeansSame /\ ReplayableIsWhole
    /\ \A c \in EvidenceCaller : CallFits(c)

\* What a step leaves of what was looked at: blobs opened, contents of nodes,
\* rows that are only added, and events that an exchange commits to, which never
\* come back.
Onward ==
    /\ \A h \in Bytes : blob[h] # NoNode => blob'[h] # NoNode
    /\ \A n \in Node : dag[n] # NoNode => dag'[n] = dag[n]
    /\ \A d \in {"entities", "relations"} : live[d] <= live'[d]
    /\ \A t \in ReplayTurn : Committed[t] \subseteq tools'[t] => Committed[t] \subseteq tools[t]

LEMMA AllTurns == /\ Turns \in Nat /\ ReplayTurn = 1 .. Turns
                  /\ Committed \in [ReplayTurn -> SUBSET {"call", "result"}]
  BY EvidenceAssumption, FS_CardinalityType DEF Turns

LEMMA CallShapes ==
    ASSUME NEW k \in CallState
    PROVE  /\ k.at \in {"idle", "hashed", "copy", "copying", "row", "cited", "compared", "reconcile", "replay"}
           /\ k.at = "idle" => k = IdleCall
           /\ k.at \in {"hashed", "copy", "copying", "row"} =>
                 k \in [at : {"hashed", "copy", "copying", "row"}, hash : Bytes]
           /\ k.at = "cited" => k.memory \in EvidenceMemory /\ k.node \in Cited
           /\ k.at = "compared" =>
                 k.memory \in EvidenceMemory /\ k.node \in Cited /\ k.state \in LinkState
           /\ k.at = "reconcile" =>
                 k \in [at : {"reconcile"}, copy : Versions, began : Versions, done : 0 .. 3, equal : BOOLEAN]
           /\ k.at = "replay" =>
                 k \in [at : {"replay"}, shown : Seq(SUBSET Tool), verified : Nat, valid : BOOLEAN]
  BY DEF CallState, IdleCall

LEMMA LinkStays ==
    ASSUME EvidenceInv, Onward, NEW m \in EvidenceMemory, NEW l, LinkTrue(m, l)
    PROVE  LinkTrue(m, l)'
<1>1. m # NoNode
  BY EvidenceAssumption
<1>2. QED
  BY <1>1 DEF LinkTrue, Onward

LEMMA StillFits ==
    ASSUME EvidenceInv, Onward, live' \in Versions, NEW k \in CallState, FitsCall(k)
    PROVE  FitsCall(k)'
<1>1. ASSUME k.at \in {"copying", "row"} PROVE blob'[k.hash] # NoNode
  BY <1>1, CallShapes DEF FitsCall, Onward
<1>2. ASSUME k.at = "compared" PROVE LinkTrue(k.memory, k)'
  BY <1>2, CallShapes, LinkStays DEF FitsCall
<1>3. ASSUME k.at = "reconcile" PROVE CompareTrue(k)'
  <2>1. CompareTrue(k) /\ k.began \in Versions
    BY <1>3, CallShapes DEF FitsCall
  <2>2. ASSUME NEW d \in {"entities", "relations"} PROVE k.began[d] <= live'[d]
    <3>1. k.began[d] \in Int /\ live[d] \in Int /\ live'[d] \in Int
      BY <2>1, <2>2 DEF Versions, AnyDomain, EvidenceInv, EvidenceTypes
    <3>2. k.began[d] <= live[d] /\ live[d] <= live'[d]
      BY <2>1, <2>2 DEF CompareTrue, Onward
    <3>3. QED
      BY <3>1, <3>2
  <2>3. QED
    BY <2>1, <2>2 DEF CompareTrue
<1>4. ASSUME k.at = "replay" PROVE ReplayTrue(k)'
  <2>1. ReplayTrue(k) /\ k.shown \in Seq(SUBSET Tool)
    BY <1>4, CallShapes DEF FitsCall
  <2>2. \A t \in 1 .. Len(k.shown) : t \in ReplayTurn
    BY <2>1, AllTurns DEF ReplayTrue
  <2>3. QED
    BY <2>1, <2>2 DEF ReplayTrue, Onward
<1>5. QED
  BY <1>1, <1>2, <1>3, <1>4 DEF FitsCall

\* A step of one call: the others fit as before.
LEMMA CallStep ==
    ASSUME EvidenceInv, EvidenceTypes', Onward, LinksTrue', EqualMeansSame', ReplayableIsWhole',
           NEW c \in EvidenceCaller, NEW next \in CallState, FitsCall(next)',
           call' = [call EXCEPT ![c] = next]
    PROVE  EvidenceInv'
<1>1. ASSUME NEW x \in EvidenceCaller PROVE CallFits(x)'
  <2>1. CASE x = c
    <3>1. call'[x] = next
      BY <2>1 DEF EvidenceInv, EvidenceTypes
    <3>2. QED
      BY <3>1 DEF CallFits, FitsCall, LinkTrue, CompareTrue, ReplayTrue
  <2>2. CASE x # c
    <3>1. PICK k : k = call[x]
      OBVIOUS
    <3>2. k \in CallState /\ FitsCall(k) /\ call'[x] = k /\ live' \in Versions
      BY <2>2, <3>1 DEF EvidenceInv, EvidenceTypes, CallFits
    <3>3. FitsCall(k)'
      BY <3>2, StillFits
    <3>4. QED
      BY <3>2, <3>3 DEF CallFits, FitsCall, LinkTrue, CompareTrue, ReplayTrue
  <2>3. QED
    BY <2>1, <2>2
<1>2. QED
  BY <1>1 DEF EvidenceInv

\* A step of the world around the calls.
LEMMA WorldStep ==
    ASSUME EvidenceInv, EvidenceTypes', Onward, UNCHANGED <<call, integrity, reports, replays>>
    PROVE  EvidenceInv'
<1>1. LinksTrue'
  <2>1. ASSUME NEW m \in EvidenceMemory PROVE LinkTrue(m, integrity[m])'
    <3>1. PICK l : l = integrity[m]
      OBVIOUS
    <3>2. LinkTrue(m, l) /\ integrity'[m] = l
      BY <3>1 DEF EvidenceInv, LinksTrue
    <3>3. LinkTrue(m, l)'
      BY <3>2, LinkStays
    <3>4. QED
      BY <3>2, <3>3 DEF LinkTrue
  <2>2. QED
    BY <2>1 DEF LinksTrue
<1>2. EqualMeansSame' /\ ReplayableIsWhole'
  BY DEF EvidenceInv, EqualMeansSame, ReplayableIsWhole
<1>3. ASSUME NEW x \in EvidenceCaller PROVE CallFits(x)'
  <2>1. PICK k : k = call[x]
    OBVIOUS
  <2>2. k \in CallState /\ FitsCall(k) /\ call'[x] = k /\ live' \in Versions
    BY <2>1 DEF EvidenceInv, EvidenceTypes, CallFits
  <2>3. FitsCall(k)'
    BY <2>2, StillFits
  <2>4. QED
    BY <2>2, <2>3 DEF CallFits, FitsCall, LinkTrue, CompareTrue, ReplayTrue
<1>4. QED
  BY <1>1, <1>2, <1>3 DEF EvidenceInv

\* A step that changes the call alone.
LEMMA CallOnly ==
    ASSUME EvidenceInv, UNCHANGED <<blobVars, integrityVars, backupVars, replayVars>>,
           NEW c \in EvidenceCaller, NEW next \in CallState, FitsCall(next)',
           call' = [call EXCEPT ![c] = next],
           evidenceCalls' \in 0 .. MaxEvidenceCalls, changes' \in 0 .. MaxChanges
    PROVE  EvidenceInv'
<1>1. UNCHANGED <<path, blob, attached, dag, integrity, live, reports, tools, replays>>
  BY DEF blobVars, integrityVars, backupVars, replayVars
<1>2. EvidenceTypes'
  BY <1>1 DEF EvidenceInv, EvidenceTypes
<1>3. Onward
  <2>1. \A d \in {"entities", "relations"} : live[d] <= live'[d]
    BY <1>1 DEF EvidenceInv, EvidenceTypes, Versions, AnyDomain
  <2>2. QED
    BY <1>1, <2>1 DEF Onward
<1>4. LinksTrue' /\ EqualMeansSame' /\ ReplayableIsWhole'
  BY <1>1 DEF EvidenceInv, LinksTrue, LinkTrue, EqualMeansSame, ReplayableIsWhole
<1>5. QED
  BY <1>2, <1>3, <1>4, CallStep

LEMMA CountersHold ==
    ASSUME EvidenceInv
    PROVE  /\ evidenceCalls \in 0 .. MaxEvidenceCalls /\ changes \in 0 .. MaxChanges
           /\ evidenceCalls < MaxEvidenceCalls => evidenceCalls + 1 \in 0 .. MaxEvidenceCalls
           /\ changes < MaxChanges => changes + 1 \in 0 .. MaxChanges
  BY EvidenceAssumption DEF EvidenceInv, EvidenceTypes

\* A call begins with something that fits.
LEMMA CallBegins ==
    ASSUME EvidenceInv, UNCHANGED <<blobVars, integrityVars, backupVars, replayVars>>,
           NEW c \in EvidenceCaller, NEW next \in CallState, FitsCall(next), BeginCall(c, next)
    PROVE  EvidenceInv'
<1>1. call' = [call EXCEPT ![c] = next] /\ evidenceCalls' \in 0 .. MaxEvidenceCalls /\ changes' \in 0 .. MaxChanges
  BY CountersHold DEF BeginCall
<1>2. FitsCall(next)'
  BY DEF FitsCall, LinkTrue, CompareTrue, ReplayTrue, blobVars, integrityVars, backupVars, replayVars
<1>3. QED
  BY <1>1, <1>2, CallOnly

LEMMA CallCarriesOn ==
    ASSUME EvidenceInv, UNCHANGED <<blobVars, integrityVars, backupVars, replayVars>>,
           NEW c \in EvidenceCaller, NEW next \in CallState, FitsCall(next), CarryOn(c, next)
    PROVE  EvidenceInv'
<1>1. call' = [call EXCEPT ![c] = next] /\ evidenceCalls' \in 0 .. MaxEvidenceCalls /\ changes' \in 0 .. MaxChanges
  BY CountersHold DEF CarryOn
<1>2. FitsCall(next)'
  BY DEF FitsCall, LinkTrue, CompareTrue, ReplayTrue, blobVars, integrityVars, backupVars, replayVars
<1>3. QED
  BY <1>1, <1>2, CallOnly

LEMMA EvidenceBegins ==
    ASSUME EvidenceInv, NEW c \in EvidenceCaller,
           AttachMedia(c) \/ BackupStore(c) \/ SessionReplay(c)
             \/ \E m \in EvidenceMemory, n \in Node \union {NoNode} : VerifyLink(c, m, n)
    PROVE  EvidenceInv'
<1>1. CASE AttachMedia(c)
  <2>1. PICK next : next = [at |-> "hashed", hash |-> path]
    OBVIOUS
  <2>2. next \in CallState /\ FitsCall(next)
    BY <2>1 DEF EvidenceInv, EvidenceTypes, CallState, FitsCall
  <2>3. QED
    BY <1>1, <2>1, <2>2, CallBegins DEF AttachMedia
<1>2. CASE BackupStore(c)
  <2>1. PICK next : next = [at |-> "reconcile", copy |-> live, began |-> live, done |-> 0, equal |-> TRUE]
    OBVIOUS
  <2>2. live \in Versions /\ \A d \in {"entities", "relations"} : live[d] <= live[d]
    BY DEF EvidenceInv, EvidenceTypes, Versions, AnyDomain
  <2>3. next \in CallState
    <3>1. next \in [at : {"reconcile"}, copy : Versions, began : Versions, done : 0 .. 3, equal : BOOLEAN]
      BY <2>1, <2>2
    <3>2. QED
      BY <3>1 DEF CallState
  <2>4. FitsCall(next)
    BY <2>1, <2>2 DEF FitsCall, CompareTrue
  <2>5. QED
    BY <1>2, <2>1, <2>3, <2>4, CallBegins DEF BackupStore
<1>3. CASE SessionReplay(c)
  <2>1. PICK next : next = [at |-> "replay", shown |-> <<>>, verified |-> 0, valid |-> TRUE]
    OBVIOUS
  <2>2. next.shown \in Seq(SUBSET Tool) /\ Len(next.shown) = 0
    BY <2>1
  <2>3. next \in CallState
    <3>1. next \in [at : {"replay"}, shown : Seq(SUBSET Tool), verified : Nat, valid : BOOLEAN]
      BY <2>1, <2>2
    <3>2. QED
      BY <3>1 DEF CallState
  <2>4. FitsCall(next)
    BY <2>1, <2>2, AllTurns DEF FitsCall, ReplayTrue
  <2>5. QED
    BY <1>3, <2>1, <2>3, <2>4, CallBegins DEF SessionReplay
<1>4. ASSUME NEW m \in EvidenceMemory, NEW n \in Node \union {NoNode}, VerifyLink(c, m, n)
      PROVE  EvidenceInv'
  <2>1. PICK next : next = [at |-> "cited", memory |-> m, node |-> IF n = NoNode THEN integrity[m].node ELSE n]
    OBVIOUS
  <2>2. integrity[m].node \in Cited
    BY DEF EvidenceInv, EvidenceTypes
  <2>3. next \in CallState
    BY <2>1, <2>2 DEF CallState, Cited
  <2>4. FitsCall(next)
    BY <2>1 DEF FitsCall
  <2>5. QED
    BY <1>4, <2>1, <2>3, <2>4, CallBegins DEF VerifyLink
<1>5. QED
  BY <1>1, <1>2, <1>3, <1>4

\* The node is looked at: what is found of it is true now, and stays so.
LEMMA EvidenceCompares ==
    ASSUME EvidenceInv, NEW c \in EvidenceCaller, FindBlob(c) \/ FindDagNode(c)
    PROVE  EvidenceInv'
<1>1. PICK k : k = call[c]
  OBVIOUS
<1>2. k \in CallState /\ FitsCall(k)
  BY <1>1 DEF EvidenceInv, EvidenceTypes, CallFits
<1>3. CASE FindBlob(c)
  <2>1. PICK next : next = [k EXCEPT !.at = IF blob[k.hash] = NoNode THEN "copy" ELSE "row"]
    OBVIOUS
  <2>2. k \in [at : {"hashed", "copy", "copying", "row"}, hash : Bytes]
    BY <1>1, <1>2, <1>3, CallShapes DEF FindBlob, In
  <2>3. /\ next \in [at : {"hashed", "copy", "copying", "row"}, hash : Bytes]
        /\ next.at \in {"copy", "row"} /\ next.hash = k.hash
        /\ next.at = "row" => blob[k.hash] # NoNode
    BY <2>1, <2>2
  <2>4. next \in CallState /\ FitsCall(next)
    BY <2>3 DEF CallState, FitsCall
  <2>5. QED
    BY <1>1, <1>3, <2>1, <2>4, CallCarriesOn DEF FindBlob
<1>4. CASE FindDagNode(c)
  <2>1. k.at = "cited" /\ k.memory \in EvidenceMemory /\ k.node \in Cited
    BY <1>1, <1>2, <1>4, CallShapes DEF FindDagNode, In
  <2>2. PICK st : st = VerificationState(k.memory, k.node)
    OBVIOUS
  <2>3. /\ st \in LinkState
        /\ st = "hash_match_local" => k.node \in Node /\ dag[k.node] = k.memory
        /\ st = "verification_failed" => k.node \in Node /\ dag[k.node] \notin {k.memory, NoNode}
        /\ st = "unlinked" <=> k.node = NoNode
    <3>1. CASE k.node = NoNode
      <4>1. st = "unlinked"
        BY <2>2, <3>1 DEF VerificationState
      <4>2. QED
        BY <3>1, <4>1 DEF LinkState
    <3>2. CASE k.node # NoNode /\ dag[k.node] = NoNode
      <4>1. st = "content_unavailable"
        BY <2>1, <2>2, <3>2, EvidenceAssumption DEF VerificationState
      <4>2. QED
        BY <3>2, <4>1 DEF LinkState
    <3>3. CASE k.node # NoNode /\ dag[k.node] # NoNode /\ dag[k.node] = k.memory
      BY <2>1, <2>2, <3>3 DEF VerificationState, LinkState, Cited
    <3>4. CASE k.node # NoNode /\ dag[k.node] # NoNode /\ dag[k.node] # k.memory
      BY <2>1, <2>2, <3>4 DEF VerificationState, LinkState, Cited
    <3>5. QED
      BY <3>1, <3>2, <3>3, <3>4
  <2>4. PICK next : next = [at |-> "compared", memory |-> k.memory, node |-> k.node, state |-> st]
    OBVIOUS
  <2>5. next \in CallState /\ FitsCall(next)
    BY <2>1, <2>3, <2>4 DEF CallState, FitsCall, LinkTrue
  <2>6. QED
    BY <1>1, <1>4, <2>2, <2>4, <2>5, CallCarriesOn DEF FindDagNode
<1>5. QED
  BY <1>3, <1>4

\* The memories are compared with what they are as the comparison begins; the
\* other domains have only grown since the copy.
LEMMA DomainCompared ==
    ASSUME EvidenceInv, NEW c \in EvidenceCaller, CompareDomain(c)
    PROVE  EvidenceInv'
<1>1. PICK k : k = call[c]
  OBVIOUS
<1>2. /\ k \in [at : {"reconcile"}, copy : Versions, began : Versions, done : 0 .. 3, equal : BOOLEAN]
      /\ CompareTrue(k) /\ live \in Versions /\ k.done \in 0 .. 2
  <2>1. k \in CallState /\ FitsCall(k) /\ k.at = "reconcile" /\ k.done < 3 /\ live \in Versions
    BY <1>1 DEF CompareDomain, In, EvidenceInv, EvidenceTypes, CallFits, Domain
  <2>2. k \in [at : {"reconcile"}, copy : Versions, began : Versions, done : 0 .. 3, equal : BOOLEAN]
    BY <2>1, CallShapes
  <2>3. QED
    BY <2>1, <2>2 DEF FitsCall
<1>3. PICK d : d = Domain[k.done + 1]
  OBVIOUS
<1>4. /\ k.done = 0 => d = "memories"
      /\ k.done = 1 => d = "entities"
      /\ k.done = 2 => d = "relations"
  BY <1>2, <1>3 DEF Domain
<1>5. PICK b : b = IF k.done = 0 THEN live ELSE k.began
  OBVIOUS
<1>6. PICK e \in BOOLEAN : e = (k.equal /\ k.copy[d] = live[d])
  BY <1>2, Zenon
<1>7. PICK next : next = [k EXCEPT !.began = b, !.done = k.done + 1, !.equal = e]
  OBVIOUS
<1>8. CarryOn(c, next)
  <2>1. [k EXCEPT !.began = IF k.done = 0 THEN live ELSE @, !.done = @ + 1,
                  !.equal = AllEqual(@, k.copy[d] = live[d])] = next
    BY <1>5, <1>6, <1>7 DEF AllEqual
  <2>2. QED
    BY <1>1, <1>3, <2>1 DEF CompareDomain
<1>9. b \in Versions /\ k.copy \in Versions /\ k.began \in Versions /\ k.done + 1 \in 0 .. 3
  BY <1>2, <1>5
<1>10. next \in CallState
  <2>1. next \in [at : {"reconcile"}, copy : Versions, began : Versions, done : 0 .. 3, equal : BOOLEAN]
    BY <1>2, <1>7, <1>9
  <2>2. QED
    BY <2>1 DEF CallState
<1>11. \A x \in {"entities", "relations"} : k.copy[x] \in Int /\ k.began[x] \in Int /\ live[x] \in Int /\ b[x] \in Int
  BY <1>2, <1>9 DEF Versions, AnyDomain
<1>12. \A x \in {"entities", "relations"} : k.copy[x] <= k.began[x] /\ k.began[x] <= live[x]
  BY <1>2 DEF CompareTrue
<1>13. \A x \in {"entities", "relations"} : k.copy[x] <= b[x] /\ b[x] <= live[x]
  BY <1>5, <1>11, <1>12
<1>14. ASSUME e = TRUE
       PROVE  /\ k.copy["memories"] = b["memories"]
              /\ k.done > 0 => k.copy["entities"] = b["entities"]
              /\ k.done > 1 => k.copy["relations"] = b["relations"]
  <2>1. k.equal /\ k.copy[d] = live[d]
    BY <1>6, <1>14
  <2>2. CASE k.done = 0
    BY <1>4, <1>5, <2>1, <2>2
  <2>3. CASE k.done = 1
    <3>1. k.copy["memories"] = k.began["memories"] /\ k.copy["entities"] = live["entities"] /\ b = k.began
      BY <1>2, <1>4, <1>5, <2>1, <2>3 DEF CompareTrue
    <3>2. k.copy["entities"] = k.began["entities"]
      BY <1>11, <1>12, <3>1
    <3>3. QED
      BY <2>3, <3>1, <3>2
  <2>4. CASE k.done = 2
    <3>1. /\ k.copy["memories"] = k.began["memories"] /\ k.copy["entities"] = k.began["entities"]
          /\ k.copy["relations"] = live["relations"] /\ b = k.began
      BY <1>2, <1>4, <1>5, <2>1, <2>4 DEF CompareTrue
    <3>2. k.copy["relations"] = k.began["relations"]
      BY <1>11, <1>12, <3>1
    <3>3. QED
      BY <2>4, <3>1, <3>2
  <2>5. QED
    BY <1>2, <2>2, <2>3, <2>4
<1>15. /\ next.at = "reconcile" /\ next.copy = k.copy /\ next.began = b /\ next.done = k.done + 1
       /\ next.equal = e
  <2>1. next.at = "reconcile" /\ next.copy = k.copy /\ next.began = b /\ next.done = k.done + 1
    BY <1>2, <1>7
  <2>2. next.equal = e
    BY <1>2, <1>7, Zenon
  <2>3. QED
    BY <2>1, <2>2
<1>16. FitsCall(next)
  <2>1. /\ k.done + 1 > 1 => k.done > 0
        /\ k.done + 1 > 2 => k.done > 1
    BY <1>2
  <2>2. next.equal => /\ k.copy["memories"] = b["memories"]
                      /\ k.done + 1 > 1 => k.copy["entities"] = b["entities"]
                      /\ k.done + 1 > 2 => k.copy["relations"] = b["relations"]
    BY <1>14, <1>15, <2>1
  <2>3. CompareTrue(next)
    BY <1>13, <1>15, <2>2 DEF CompareTrue
  <2>4. QED
    BY <1>15, <2>3 DEF FitsCall
<1>17. QED
  BY <1>8, <1>10, <1>16, CallCarriesOn DEF CompareDomain

\* An exchange read shows all it commits to, if all of it is there.
LEMMA WholeIsShown ==
    ASSUME EvidenceInv, NEW t \in ReplayTurn
    PROVE  /\ ShownTools(t) \in SUBSET Tool
           /\ Committed[t] \subseteq tools[t] => Committed[t] \subseteq ShownTools(t)
           /\ TurnVerifies(t) => Committed[t] \subseteq tools[t]
<1>1. tools[t] \subseteq Tool /\ Committed[t] \subseteq {"call", "result"}
  BY AllTurns DEF EvidenceInv, EvidenceTypes
<1>2. QED
  BY <1>1 DEF ShownTools, TurnVerifies

LEMMA ReplayGoesOn ==
    ASSUME EvidenceInv, NEW c \in EvidenceCaller, ReadExchange(c) \/ VerifyExchange(c)
    PROVE  EvidenceInv'
<1>1. PICK k : k = call[c]
  OBVIOUS
<1>2. /\ k \in [at : {"replay"}, shown : Seq(SUBSET Tool), verified : Nat, valid : BOOLEAN]
      /\ ReplayTrue(k)
  <2>1. k \in CallState /\ FitsCall(k) /\ k.at = "replay"
    BY <1>1 DEF ReadExchange, VerifyExchange, InPass, In, EvidenceInv, EvidenceTypes, CallFits
  <2>2. QED
    BY <2>1, CallShapes DEF FitsCall
<1>3. k.shown \in Seq(SUBSET Tool) /\ Len(k.shown) \in Nat /\ k.verified \in Nat /\ Turns \in Nat
  BY <1>2, LenProperties, AllTurns
<1>4. CASE ReadExchange(c)
  <2>1. PICK n : n = Len(k.shown) + 1
    OBVIOUS
  <2>2. n \in 1 .. Turns /\ n \in ReplayTurn /\ k.verified = 0
    <3>1. Len(k.shown) # Turns
      BY <1>1, <1>4 DEF ReadExchange, InPass, Through, Turns
    <3>2. QED
      BY <1>2, <1>3, <2>1, <3>1, AllTurns DEF ReplayTrue
  <2>3. PICK shown : shown = Append(k.shown, ShownTools(n))
    OBVIOUS
  <2>4. /\ shown \in Seq(SUBSET Tool) /\ Len(shown) = n /\ shown[n] = ShownTools(n)
        /\ \A t \in 1 .. Len(k.shown) : shown[t] = k.shown[t]
    BY <1>3, <2>1, <2>2, <2>3, WholeIsShown, AppendProperties
  <2>5. PICK next : next = [k EXCEPT !.shown = shown]
    OBVIOUS
  <2>6. /\ next \in [at : {"replay"}, shown : Seq(SUBSET Tool), verified : Nat, valid : BOOLEAN]
        /\ next.at = "replay" /\ next.shown = shown /\ next.verified = 0
    BY <1>2, <2>2, <2>4, <2>5
  <2>7. ReplayTrue(next)
    <3>1. ASSUME NEW t \in 1 .. n, Committed[t] \subseteq tools[t] PROVE Committed[t] \subseteq shown[t]
      <4>1. CASE t = n
        BY <2>2, <2>4, <3>1, <4>1, WholeIsShown
      <4>2. CASE t # n
        <5>1. t \in 1 .. Len(k.shown)
          BY <1>3, <2>1, <3>1, <4>2
        <5>2. QED
          BY <1>2, <2>4, <3>1, <5>1 DEF ReplayTrue
      <4>3. QED
        BY <4>1, <4>2
    <3>2. QED
      BY <1>3, <2>2, <2>4, <2>6, <3>1 DEF ReplayTrue
  <2>8. next \in CallState /\ FitsCall(next)
    BY <2>6, <2>7 DEF CallState, FitsCall
  <2>9. CarryOn(c, next)
    BY <1>1, <1>4, <2>1, <2>3, <2>5 DEF ReadExchange
  <2>10. QED
    BY <1>4, <2>8, <2>9, CallCarriesOn DEF ReadExchange
<1>5. CASE VerifyExchange(c)
  <2>1. PICK n : n = k.verified + 1
    OBVIOUS
  <2>2. n \in 1 .. Turns /\ n \in ReplayTurn /\ Len(k.shown) = Turns
    <3>1. k.verified # Turns /\ Len(k.shown) = Turns
      BY <1>1, <1>5 DEF VerifyExchange, InPass, Passes, Through, Turns
    <3>2. QED
      BY <1>2, <1>3, <2>1, <3>1, AllTurns DEF ReplayTrue
  <2>3. PICK v \in BOOLEAN : v = (k.valid /\ TurnVerifies(n))
    BY <1>2, Zenon DEF TurnVerifies
  <2>4. PICK next : next = [k EXCEPT !.verified = n, !.valid = v]
    OBVIOUS
  <2>5. /\ next \in [at : {"replay"}, shown : Seq(SUBSET Tool), verified : Nat, valid : BOOLEAN]
        /\ next.at = "replay" /\ next.shown = k.shown /\ next.verified = n /\ next.valid = v
    <3>1. n \in Nat
      BY <1>3, <2>1
    <3>2. next \in [at : {"replay"}, shown : Seq(SUBSET Tool), verified : Nat, valid : BOOLEAN]
      BY <1>2, <2>4, <3>1
    <3>3. next.at = "replay" /\ next.shown = k.shown /\ next.verified = n
      BY <1>2, <2>4
    <3>4. next.valid = v
      BY <1>2, <2>4, Zenon
    <3>5. QED
      BY <3>2, <3>3, <3>4
  <2>6. ReplayTrue(next)
    <3>1. ASSUME v = TRUE, NEW t \in 1 .. n PROVE Committed[t] \subseteq k.shown[t]
      <4>1. k.valid /\ TurnVerifies(n)
        BY <2>3, <3>1
      <4>2. CASE t = n
        <5>1. Committed[n] \subseteq tools[n]
          BY <2>2, <4>1, WholeIsShown
        <5>2. QED
          BY <1>2, <2>2, <4>2, <5>1 DEF ReplayTrue
      <4>3. CASE t # n
        <5>1. t \in 1 .. k.verified
          BY <1>3, <2>1, <3>1, <4>3
        <5>2. QED
          BY <1>2, <4>1, <5>1 DEF ReplayTrue
      <4>4. QED
        BY <4>2, <4>3
    <3>2. next.valid => \A t \in 1 .. n : Committed[t] \subseteq k.shown[t]
      BY <2>5, <3>1
    <3>3. n <= Turns
      BY <1>3, <2>2
    <3>4. QED
      BY <1>2, <2>2, <2>5, <3>2, <3>3 DEF ReplayTrue
  <2>7. next \in CallState /\ FitsCall(next)
    BY <2>5, <2>6 DEF CallState, FitsCall
  <2>8. CarryOn(c, next)
    BY <1>1, <1>5, <2>1, <2>3, <2>4 DEF VerifyExchange
  <2>9. QED
    BY <1>5, <2>7, <2>8, CallCarriesOn DEF VerifyExchange
<1>6. QED
  BY <1>4, <1>5

LEMMA RestFits == IdleCall \in CallState /\ FitsCall(IdleCall) /\ FitsCall(IdleCall)'
  BY DEF CallState, IdleCall, FitsCall

\* A blob that was opened stays, empty or with what the file held.
LEMMA BlobCopied ==
    ASSUME EvidenceInv, NEW c \in EvidenceCaller, OpenBlob(c) \/ CopyBlob(c)
    PROVE  EvidenceInv'
<1>1. PICK k : k = call[c]
  OBVIOUS
<1>2. k.at \in {"copy", "copying"} /\ k \in [at : {"hashed", "copy", "copying", "row"}, hash : Bytes]
  BY <1>1, CallShapes DEF OpenBlob, CopyBlob, In, EvidenceInv, EvidenceTypes
<1>3. PICK b \in Bytes \cup {"partial"} : blob' = [blob EXCEPT ![k.hash] = b]
  BY <1>1 DEF OpenBlob, CopyBlob, EvidenceInv, EvidenceTypes
<1>4. PICK next : next = [k EXCEPT !.at = IF OpenBlob(c) THEN "copying" ELSE "row"]
  OBVIOUS
<1>5. /\ next \in [at : {"hashed", "copy", "copying", "row"}, hash : Bytes]
      /\ next.at \in {"copying", "row"} /\ next.hash = k.hash
  BY <1>2, <1>4
<1>6. /\ call' = [call EXCEPT ![c] = next] /\ UNCHANGED <<evidenceCalls, changes>>
      /\ UNCHANGED <<path, attached, dag, integrity, live, reports, tools, replays>>
  <2>1. CarryOn(c, next)
    BY <1>1, <1>4 DEF OpenBlob, CopyBlob
  <2>2. QED
    BY <2>1 DEF CarryOn, OpenBlob, CopyBlob, integrityVars, backupVars, replayVars
<1>7. b # NoNode
  BY EvidenceAssumption DEF NoNode
<1>8. /\ blob' \in [Bytes -> Bytes \cup {NoNode, "partial"}] /\ blob'[k.hash] # NoNode
      /\ \A h \in Bytes : blob[h] # NoNode => blob'[h] # NoNode
  BY <1>2, <1>3, <1>7 DEF EvidenceInv, EvidenceTypes
<1>9. next \in CallState /\ FitsCall(next)'
  BY <1>5, <1>8 DEF CallState, FitsCall
<1>10. EvidenceTypes'
  BY <1>6, <1>8, <1>9 DEF EvidenceInv, EvidenceTypes
<1>11. Onward
  <2>1. \A d \in {"entities", "relations"} : live[d] <= live'[d]
    BY <1>6 DEF EvidenceInv, EvidenceTypes, Versions, AnyDomain
  <2>2. QED
    BY <1>6, <1>8, <2>1 DEF Onward
<1>12. LinksTrue' /\ EqualMeansSame' /\ ReplayableIsWhole'
  BY <1>6 DEF EvidenceInv, LinksTrue, LinkTrue, EqualMeansSame, ReplayableIsWhole
<1>13. QED
  BY <1>6, <1>9, <1>10, <1>11, <1>12, CallStep

\* A call writes down what it found.
LEMMA CallRecords ==
    ASSUME EvidenceInv, NEW c \in EvidenceCaller, EndCall(c), UNCHANGED <<path, blob, dag, live, tools>>,
           attached' \subseteq Bytes, \A h \in attached' : blob[h] # NoNode,
           integrity' \in [EvidenceMemory -> [node : Cited, state : LinkState]],
           \A m \in EvidenceMemory : LinkTrue(m, integrity[m])',
           reports' \subseteq [copy : Versions, began : Versions, equal : BOOLEAN],
           EqualMeansSame', ReplayableIsWhole'
    PROVE  EvidenceInv'
<1>1. call' = [call EXCEPT ![c] = IdleCall] /\ UNCHANGED <<evidenceCalls, changes>>
  BY DEF EndCall, CarryOn
<1>2. EvidenceTypes'
  BY <1>1, RestFits DEF EvidenceInv, EvidenceTypes
<1>3. Onward
  BY DEF EvidenceInv, EvidenceTypes, Versions, AnyDomain, Onward
<1>4. LinksTrue'
  BY DEF LinksTrue
<1>5. QED
  BY <1>1, <1>2, <1>3, <1>4, RestFits, CallStep

LEMMA EvidenceRecorded ==
    ASSUME EvidenceInv, NEW c \in EvidenceCaller,
           InsertAttachment(c) \/ UpsertLink(c) \/ RecordReconciliation(c) \/ EndReplay(c)
    PROVE  EvidenceInv'
<1>1. PICK k : k = call[c]
  OBVIOUS
<1>2. k \in CallState /\ FitsCall(k)
  BY <1>1 DEF EvidenceInv, EvidenceTypes, CallFits
<1>3. /\ EndCall(c) /\ UNCHANGED <<path, blob, dag, live, tools>>
  BY DEF InsertAttachment, UpsertLink, RecordReconciliation, EndReplay,
         blobVars, integrityVars, backupVars, replayVars
<1>4. /\ attached \subseteq Bytes /\ \A h \in attached : blob[h] # NoNode
      /\ integrity \in [EvidenceMemory -> [node : Cited, state : LinkState]]
      /\ reports \subseteq [copy : Versions, began : Versions, equal : BOOLEAN]
      /\ \A m \in EvidenceMemory : LinkTrue(m, integrity[m])
      /\ EqualMeansSame /\ ReplayableIsWhole
  BY DEF EvidenceInv, EvidenceTypes, LinksTrue
<1>5. CASE InsertAttachment(c)
  <2>1. k.at = "row" /\ k.hash \in Bytes /\ blob[k.hash] # NoNode
    BY <1>1, <1>2, <1>5, CallShapes DEF InsertAttachment, In, FitsCall
  <2>2. attached' = attached \cup {k.hash} /\ UNCHANGED <<integrity, reports, replays>>
    BY <1>1, <1>5 DEF InsertAttachment, integrityVars, backupVars, replayVars
  <2>3. /\ \A m \in EvidenceMemory : LinkTrue(m, integrity[m])'
        /\ EqualMeansSame' /\ ReplayableIsWhole'
    BY <1>3, <1>4, <2>2 DEF LinkTrue, EqualMeansSame, ReplayableIsWhole
  <2>4. QED
    BY <1>3, <1>4, <2>1, <2>2, <2>3, CallRecords
<1>6. CASE UpsertLink(c)
  <2>1. k.at = "compared" /\ k.memory \in EvidenceMemory /\ k.node \in Cited /\ k.state \in LinkState
        /\ LinkTrue(k.memory, k)
    BY <1>1, <1>2, <1>6, CallShapes DEF UpsertLink, In, FitsCall
  <2>2. PICK row : row = [node |-> k.node, state |-> k.state]
    OBVIOUS
  <2>3. integrity' = [integrity EXCEPT ![k.memory] = row] /\ UNCHANGED <<attached, reports, replays>>
    BY <1>1, <1>6, <2>2 DEF UpsertLink, Upserted, blobVars, backupVars, replayVars
  <2>4. LinkTrue(k.memory, row) /\ row \in [node : Cited, state : LinkState]
    BY <2>1, <2>2 DEF LinkTrue
  <2>5. integrity' \in [EvidenceMemory -> [node : Cited, state : LinkState]]
    BY <1>4, <2>3, <2>4
  <2>6. ASSUME NEW m \in EvidenceMemory PROVE LinkTrue(m, integrity[m])'
    <3>1. CASE m = k.memory
      <4>1. integrity'[m] = row
        BY <1>4, <2>1, <2>3, <3>1
      <4>2. QED
        BY <1>3, <2>4, <3>1, <4>1 DEF LinkTrue
    <3>2. CASE m # k.memory
      <4>1. integrity'[m] = integrity[m]
        BY <1>4, <2>1, <2>3, <3>2
      <4>2. QED
        BY <1>3, <1>4, <4>1 DEF LinkTrue
    <3>3. QED
      BY <3>1, <3>2
  <2>7. EqualMeansSame' /\ ReplayableIsWhole'
    BY <1>4, <2>3 DEF EqualMeansSame, ReplayableIsWhole
  <2>8. QED
    BY <1>3, <1>4, <2>3, <2>5, <2>6, <2>7, CallRecords
<1>7. CASE RecordReconciliation(c)
  <2>1. /\ k \in [at : {"reconcile"}, copy : Versions, began : Versions, done : 0 .. 3, equal : BOOLEAN]
        /\ CompareTrue(k) /\ k.done = 3
    BY <1>1, <1>2, <1>7, CallShapes DEF RecordReconciliation, In, FitsCall, Domain
  <2>2. PICK report : report = [copy |-> k.copy, began |-> k.began, equal |-> k.equal]
    OBVIOUS
  <2>3. report \in [copy : Versions, began : Versions, equal : BOOLEAN]
    BY <2>1, <2>2
  <2>4. reports' = reports \cup {report} /\ UNCHANGED <<attached, integrity, replays>>
    BY <1>1, <1>7, <2>2 DEF RecordReconciliation, blobVars, integrityVars, replayVars
  <2>5. report.equal => report.copy = report.began
    <3>1. report.copy = k.copy /\ report.began = k.began
      BY <2>2
    <3>2. report.equal => k.equal
      BY <2>2, Zenon
    <3>3. k.equal => \A d \in AnyDomain : k.copy[d] = k.began[d]
      BY <2>1 DEF CompareTrue, AnyDomain
    <3>4. k.copy \in Versions /\ k.began \in Versions
      BY <2>1
    <3>5. k.equal => k.copy = k.began
      BY <3>3, <3>4 DEF Versions
    <3>6. QED
      BY <3>1, <3>2, <3>5
  <2>6. EqualMeansSame'
    BY <1>4, <2>4, <2>5 DEF EqualMeansSame
  <2>7. ReplayableIsWhole' /\ \A m \in EvidenceMemory : LinkTrue(m, integrity[m])'
    BY <1>3, <1>4, <2>4 DEF ReplayableIsWhole, LinkTrue
  <2>8. QED
    BY <1>3, <1>4, <2>3, <2>4, <2>6, <2>7, CallRecords
<1>8. CASE EndReplay(c)
  <2>1. /\ k \in [at : {"replay"}, shown : Seq(SUBSET Tool), verified : Nat, valid : BOOLEAN]
        /\ ReplayTrue(k) /\ k.verified = Turns
    <3>1. k.at = "replay" /\ Through(k, "verify")
      BY <1>1, <1>8 DEF EndReplay, In, Passes
    <3>2. QED
      BY <1>2, <3>1, CallShapes DEF FitsCall, Through, Turns
  <2>2. replays' \in {replays, replays \cup {k.shown}} /\ (~ k.valid => replays' = replays)
        /\ UNCHANGED <<attached, integrity, reports>>
    BY <1>1, <1>8 DEF EndReplay, blobVars, integrityVars, backupVars
  <2>3. k.valid => \A t \in ReplayTurn : Committed[t] \subseteq k.shown[t]
    BY <2>1, AllTurns DEF ReplayTrue
  <2>4. ReplayableIsWhole'
    BY <1>4, <2>2, <2>3 DEF ReplayableIsWhole
  <2>5. EqualMeansSame' /\ \A m \in EvidenceMemory : LinkTrue(m, integrity[m])'
    BY <1>3, <1>4, <2>2 DEF EqualMeansSame, LinkTrue
  <2>6. QED
    BY <1>3, <1>4, <2>2, <2>4, <2>5, CallRecords
<1>9. QED
  BY <1>5, <1>6, <1>7, <1>8

\* The file is rewritten, nodes, rows and telemetry are added, telemetry is swept.
LEMMA EvidenceWorld ==
    ASSUME EvidenceInv,
           (\E b \in Bytes : Rewrite(b)) \/ (\E n \in Node, m \in EvidenceMemory : AddNode(n, m))
             \/ (\E d \in AnyDomain : WriteRows(d))
             \/ (\E t \in ReplayTurn : LateTelemetry(t) \/ \E e \in Tool : SweepTelemetry(t, e))
    PROVE  EvidenceInv'
<1>1. \A d \in AnyDomain : live[d] \in Nat
  BY DEF EvidenceInv, EvidenceTypes, Versions
<1>2. \A d \in {"entities", "relations"} : live[d] <= live[d]
  BY <1>1 DEF AnyDomain
<1>3. ASSUME NEW b \in Bytes, Rewrite(b) PROVE EvidenceInv'
  <2>1. /\ path' \in Bytes /\ UNCHANGED <<blob, attached, dag, integrity, live, reports, tools, replays, call>>
        /\ evidenceCalls' \in 0 .. MaxEvidenceCalls /\ changes' \in 0 .. MaxChanges
    BY <1>3, CountersHold DEF Rewrite, Change, integrityVars, backupVars, replayVars
  <2>2. EvidenceTypes'
    BY <2>1 DEF EvidenceInv, EvidenceTypes
  <2>3. Onward
    BY <1>2, <2>1 DEF Onward
  <2>4. QED
    BY <2>1, <2>2, <2>3, WorldStep
<1>4. ASSUME NEW n \in Node, NEW m \in EvidenceMemory, AddNode(n, m) PROVE EvidenceInv'
  <2>1. /\ dag[n] = NoNode /\ dag' = [dag EXCEPT ![n] = m]
        /\ UNCHANGED <<path, blob, attached, integrity, live, reports, tools, replays, call>>
        /\ evidenceCalls' \in 0 .. MaxEvidenceCalls /\ changes' \in 0 .. MaxChanges
    BY <1>4, CountersHold DEF AddNode, Change, blobVars, backupVars, replayVars
  <2>2. EvidenceTypes'
    BY <2>1 DEF EvidenceInv, EvidenceTypes
  <2>3. Onward
    BY <1>2, <2>1 DEF Onward, EvidenceInv, EvidenceTypes
  <2>4. QED
    BY <2>1, <2>2, <2>3, WorldStep
<1>5. ASSUME NEW d \in AnyDomain, WriteRows(d) PROVE EvidenceInv'
  <2>1. /\ \/ live' = [live EXCEPT ![d] = @ + 1]
           \/ d = "memories" /\ live[d] > 0 /\ live' = [live EXCEPT ![d] = @ - 1]
        /\ UNCHANGED <<path, blob, attached, dag, integrity, reports, tools, replays, call>>
        /\ evidenceCalls' \in 0 .. MaxEvidenceCalls /\ changes' \in 0 .. MaxChanges
    BY <1>5, CountersHold DEF WriteRows, Change, blobVars, integrityVars, replayVars
  <2>2. live' \in Versions /\ \A x \in {"entities", "relations"} : live[x] <= live'[x]
    <3>1. live \in [AnyDomain -> Nat]
      BY DEF EvidenceInv, EvidenceTypes, Versions
    <3>2. CASE live' = [live EXCEPT ![d] = @ + 1]
      BY <1>1, <3>1, <3>2 DEF Versions, AnyDomain
    <3>3. CASE d = "memories" /\ live[d] > 0 /\ live' = [live EXCEPT ![d] = @ - 1]
      BY <1>1, <3>1, <3>3 DEF Versions, AnyDomain
    <3>4. QED
      BY <2>1, <3>2, <3>3
  <2>3. EvidenceTypes'
    BY <2>1, <2>2 DEF EvidenceInv, EvidenceTypes
  <2>4. Onward
    BY <2>1, <2>2 DEF Onward
  <2>5. QED
    BY <2>1, <2>3, <2>4, WorldStep
<1>6. ASSUME NEW t \in ReplayTurn, LateTelemetry(t) \/ \E e \in Tool : SweepTelemetry(t, e) PROVE EvidenceInv'
  <2>1. /\ UNCHANGED <<path, blob, attached, dag, integrity, live, reports, replays, call>>
        /\ evidenceCalls' \in 0 .. MaxEvidenceCalls /\ changes' \in 0 .. MaxChanges
    BY <1>6, CountersHold DEF LateTelemetry, SweepTelemetry, Change, blobVars, integrityVars, backupVars
  <2>2. PICK s \in SUBSET Tool : tools' = [tools EXCEPT ![t] = s] /\ s \subseteq tools[t] \cup {"late"}
    BY <1>6 DEF LateTelemetry, SweepTelemetry, EvidenceInv, EvidenceTypes, Tool
  <2>3. tools' \in [ReplayTurn -> SUBSET Tool]
    BY <2>2 DEF EvidenceInv, EvidenceTypes
  <2>4. EvidenceTypes'
    BY <2>1, <2>3 DEF EvidenceInv, EvidenceTypes
  <2>5. \A u \in ReplayTurn : Committed[u] \subseteq tools'[u] => Committed[u] \subseteq tools[u]
    <3>1. \A u \in ReplayTurn : tools'[u] \subseteq tools[u] \cup {"late"} /\ "late" \notin Committed[u]
      BY <2>2, AllTurns DEF EvidenceInv, EvidenceTypes
    <3>2. QED
      BY <3>1
  <2>6. Onward
    BY <1>2, <2>1, <2>5 DEF Onward
  <2>7. QED
    BY <2>1, <2>4, <2>6, WorldStep
<1>7. QED
  BY <1>3, <1>4, <1>5, <1>6

LEMMA InitEvidenceInv == EvidenceInit => EvidenceInv
<1> SUFFICES ASSUME EvidenceInit PROVE EvidenceInv
  OBVIOUS
<1>1. /\ path \in Bytes /\ blob \in [Bytes -> Bytes \cup {NoNode, "partial"}] /\ attached = {}
      /\ dag \in [Node -> EvidenceMemory \cup {NoNode}] /\ live \in Versions /\ reports = {}
      /\ replays = {}
  BY DEF EvidenceInit, Versions, AnyDomain
<1>2. integrity \in [EvidenceMemory -> [node : Cited, state : LinkState]]
  BY DEF EvidenceInit, Unlinked, Cited, LinkState
<1>3. tools \in [ReplayTurn -> SUBSET Tool]
  BY AllTurns DEF EvidenceInit, Tool
<1>4. evidenceCalls \in 0 .. MaxEvidenceCalls /\ changes \in 0 .. MaxChanges
  BY EvidenceAssumption DEF EvidenceInit
<1>5. call \in [EvidenceCaller -> CallState] /\ \A c \in EvidenceCaller : CallFits(c)
  BY RestFits DEF EvidenceInit, CallFits
<1>6. LinksTrue
  BY DEF EvidenceInit, LinksTrue, LinkTrue, Unlinked
<1>7. QED
  BY <1>1, <1>2, <1>3, <1>4, <1>5, <1>6 DEF EvidenceInv, EvidenceTypes, EqualMeansSame, ReplayableIsWhole

LEMMA NextEvidenceInv == EvidenceInv /\ [EvidenceNext]_evidenceVars => EvidenceInv'
<1> SUFFICES ASSUME EvidenceInv, [EvidenceNext]_evidenceVars PROVE EvidenceInv'
  OBVIOUS
<1>1. ASSUME NEW c \in EvidenceCaller,
             AttachMedia(c) \/ BackupStore(c) \/ SessionReplay(c)
               \/ \E m \in EvidenceMemory, n \in Node \union {NoNode} : VerifyLink(c, m, n)
      PROVE  EvidenceInv'
  BY <1>1, EvidenceBegins
<1>2. ASSUME NEW c \in EvidenceCaller, FindBlob(c) \/ FindDagNode(c) PROVE EvidenceInv'
  BY <1>2, EvidenceCompares
<1>3. ASSUME NEW c \in EvidenceCaller, OpenBlob(c) \/ CopyBlob(c) PROVE EvidenceInv'
  BY <1>3, BlobCopied
<1>4. ASSUME NEW c \in EvidenceCaller, CompareDomain(c) PROVE EvidenceInv'
  BY <1>4, DomainCompared
<1>5. ASSUME NEW c \in EvidenceCaller, ReadExchange(c) \/ VerifyExchange(c) PROVE EvidenceInv'
  BY <1>5, ReplayGoesOn
<1>6. ASSUME NEW c \in EvidenceCaller,
             InsertAttachment(c) \/ UpsertLink(c) \/ RecordReconciliation(c) \/ EndReplay(c)
      PROVE  EvidenceInv'
  BY <1>6, EvidenceRecorded
<1>7. ASSUME NEW c \in EvidenceCaller, Stop(c) PROVE EvidenceInv'
  <2>1. /\ call' = [call EXCEPT ![c] = IdleCall] /\ UNCHANGED <<blobVars, integrityVars, backupVars, replayVars>>
        /\ evidenceCalls' \in 0 .. MaxEvidenceCalls /\ changes' \in 0 .. MaxChanges
    BY <1>7, CountersHold DEF Stop, Change
  <2>2. QED
    BY <2>1, RestFits, CallOnly
<1>8. CASE \/ \E b \in Bytes : Rewrite(b)
           \/ \E n \in Node, m \in EvidenceMemory : AddNode(n, m)
           \/ \E d \in {"memories", "entities", "relations"} : WriteRows(d)
           \/ \E t \in ReplayTurn : LateTelemetry(t) \/ \E e \in Tool : SweepTelemetry(t, e)
  BY <1>8, EvidenceWorld DEF AnyDomain
<1>9. CASE UNCHANGED evidenceVars
  <2>1. UNCHANGED <<path, blob, attached, dag, integrity, live, reports, tools, replays, call,
                    evidenceCalls, changes>>
    BY <1>9 DEF evidenceVars
  <2>2. EvidenceTypes'
    BY <2>1 DEF EvidenceInv, EvidenceTypes
  <2>3. Onward
    BY <2>1 DEF EvidenceInv, EvidenceTypes, Versions, AnyDomain, Onward
  <2>4. QED
    BY <2>1, <2>2, <2>3, WorldStep
<1>10. QED
  BY <1>1, <1>2, <1>3, <1>4, <1>5, <1>6, <1>7, <1>8, <1>9 DEF EvidenceNext

LEMMA AlwaysEvidenceInv == EvidenceSpec => []EvidenceInv
  BY InitEvidenceInv, NextEvidenceInv, PTL DEF EvidenceSpec

(***************************************************************************)
(* The blobs, links, reports and calls have their types, and the blob of   *)
(* an attachment has at least been opened (attach_media).                  *)
(***************************************************************************)
THEOREM EvidenceTyped == EvidenceSpec => []EvidenceTypeOK
<1>1. EvidenceInv => EvidenceTypeOK
  <2> SUFFICES ASSUME EvidenceInv PROVE EvidenceTypeOK
    OBVIOUS
  <2>1. \A m \in EvidenceMemory : integrity[m].node \in Node \cup {NoNode}
    BY DEF EvidenceInv, EvidenceTypes, Cited
  <2>2. \A c \in EvidenceCaller : call[c].at \in {"idle", "hashed", "copy", "copying", "row", "cited",
                                                  "compared", "reconcile", "replay"}
    BY CallShapes DEF EvidenceInv, EvidenceTypes
  <2>3. QED
    BY <2>1, <2>2 DEF EvidenceInv, EvidenceTypes, EvidenceTypeOK
<1>2. QED
  BY <1>1, AlwaysEvidenceInv, PTL

(***************************************************************************)
(* A backup reported equal was so when the comparison began, a link says   *)
(* of its node what is so, and a replay called replayable shows all that   *)
(* its exchanges commit to, whatever is written, added and removed between *)
(* the steps (reconcile_backup, verify_integrity_link, session_replay).    *)
(***************************************************************************)
THEOREM EvidenceAlwaysHolds == EvidenceSpec => []EvidenceHolds
<1>1. EvidenceInv => EvidenceHolds
  <2> SUFFICES ASSUME EvidenceInv PROVE EvidenceHolds
    OBVIOUS
  <2>1. LinkIsSo
    BY DEF EvidenceInv, LinksTrue, LinkTrue, LinkIsSo
  <2>2. QED
    BY <2>1 DEF EvidenceInv, EvidenceHolds
<1>2. QED
  BY <1>1, AlwaysEvidenceInv, PTL

-----------------------------------------------------------------------------
(* ExchangeChain: the groups of a build *)

Group == [messages : SUBSET Message, tools : SUBSET Event, prompt_id : Turn \cup {NoTurn}]

LEMMA Enumerates ==
    ASSUME NEW S, IsFiniteSet(S)
    PROVE  /\ Cardinality(S) \in Nat
           /\ SetToSeq(S) \in [1 .. Cardinality(S) -> S]
           /\ \A x \in S : \E i \in 1 .. Cardinality(S) : SetToSeq(S)[i] = x
<1>1. Cardinality(S) \in Nat /\ ExistsBijection(1 .. Cardinality(S), S)
  BY FS_CardinalityType
<1>2. PICK n \in Nat : n = Cardinality(S)
  BY <1>1
<1>3. \E f \in [1 .. n -> S] : IsInjective(f)
  BY <1>1, <1>2 DEF ExistsBijection, Bijection, Injection
<1>4. SetToSeq(S) \in [1 .. n -> S] /\ IsInjective(SetToSeq(S))
  BY <1>2, <1>3 DEF SetToSeq
<1>5. PICK f : f = SetToSeq(S)
  OBVIOUS
<1>6. f \in Injection(1 .. n, S)
  BY <1>4, <1>5 DEF Injection
<1>7. Cardinality(1 .. n) = n
  BY FS_Interval
<1>8. f \in Surjection(1 .. n, S)
  BY <1>2, <1>6, <1>7, FS_Injection
<1>9. QED
  BY <1>2, <1>4, <1>5, <1>8 DEF Surjection

LEMMA OpensFinite ==
    ASSUME NEW messages \in Seq(Message)
    PROVE  IsFiniteSet(Opens(messages)) /\ Cardinality(Opens(messages)) \in Nat
<1>1. Len(messages) \in Nat /\ DOMAIN messages = 1 .. Len(messages)
  BY LenProperties
<1>2. IsFiniteSet(1 .. Len(messages)) /\ Opens(messages) \subseteq 1 .. Len(messages)
  BY <1>1, FS_Interval DEF Opens
<1>3. IsFiniteSet(Opens(messages))
  BY <1>2, FS_Subset
<1>4. QED
  BY <1>3, FS_CardinalityType

\* Every message is in a group.
LEMMA InSomeGroup ==
    ASSUME NEW messages \in Seq(Message), NEW i \in DOMAIN messages
    PROVE  GroupOf(messages, i) \in 1 .. Cardinality(Opens(messages))
<1>1. PICK before : before = {j \in Opens(messages) : j <= i}
  OBVIOUS
<1>2. before \subseteq Opens(messages)
  BY <1>1
<1>3. i \in 1 .. Len(messages) /\ Len(messages) \in Nat /\ DOMAIN messages = 1 .. Len(messages)
  BY LenProperties
<1>4. 1 \in before
  BY <1>1, <1>3 DEF Opens
<1>5. IsFiniteSet(before) /\ Cardinality(before) <= Cardinality(Opens(messages))
  BY <1>2, OpensFinite, FS_Subset
<1>6. Cardinality(before) \in Nat /\ Cardinality(before) # 0
  BY <1>4, <1>5, FS_CardinalityType, FS_EmptySet
<1>7. QED
  BY <1>1, <1>5, <1>6, OpensFinite DEF GroupOf

LEMMA InGroupTyped ==
    ASSUME NEW messages \in Seq(Message), NEW n
    PROVE  InGroup(messages, n) \subseteq Message
<1>1. \A i \in DOMAIN messages : messages[i] \in Message
  BY LenProperties
<1>2. QED
  BY <1>1 DEF InGroup

LEMMA ByPromptGroups ==
    ASSUME NEW messages \in Seq(Message), NEW events \in SUBSET Event
    PROVE  /\ ByPrompt(messages, events) \in Seq(Group)
           /\ Len(ByPrompt(messages, events)) = Cardinality(Opens(messages))
           /\ \A n \in 1 .. Cardinality(Opens(messages)) :
                LET g == ByPrompt(messages, events)[n] IN
                /\ g.messages = InGroup(messages, n)
                /\ \A e \in events : (\E m \in g.messages : PromptOf[e] = m.turn) => e \in g.tools
                /\ g.prompt_id = NoTurn \/ \E m \in g.messages : m.role = "user" /\ m.turn = g.prompt_id
<1>1. PICK last \in Nat : last = Cardinality(Opens(messages))
  BY OpensFinite
<1>2. PICK s : s = ByPrompt(messages, events)
  OBVIOUS
<1>3. DOMAIN s = 1 .. last
  BY <1>1, <1>2 DEF ByPrompt
<1>4. ASSUME NEW n \in 1 .. last
      PROVE  /\ s[n] \in Group
             /\ s[n].messages = InGroup(messages, n)
             /\ \A e \in events : (\E m \in s[n].messages : PromptOf[e] = m.turn) => e \in s[n].tools
             /\ s[n].prompt_id = NoTurn
                  \/ \E m \in s[n].messages : m.role = "user" /\ m.turn = s[n].prompt_id
  <2>1. PICK own : own = InGroup(messages, n)
    OBVIOUS
  <2>2. PICK users : users = {m \in own : m.role = "user"}
    OBVIOUS
  <2>3. PICK pid : pid = IF users = {} THEN NoTurn ELSE (CHOOSE m \in users : TRUE).turn
    OBVIOUS
  <2>4. s[n] = [messages |-> own, tools |-> {e \in events : \E m \in own : PromptOf[e] = m.turn},
                prompt_id |-> pid]
    BY <1>1, <1>2, <2>1, <2>2, <2>3 DEF ByPrompt
  <2>5. own \subseteq Message
    BY <2>1, InGroupTyped
  <2>6. pid = NoTurn \/ \E m \in own : m.role = "user" /\ m.turn = pid
    BY <2>2, <2>3
  <2>7. pid \in Turn \cup {NoTurn}
    BY <2>5, <2>6 DEF Message
  <2>8. QED
    BY <2>1, <2>4, <2>5, <2>6, <2>7 DEF Group
<1>5. s = [n \in 1 .. last |-> s[n]]
  BY <1>1, <1>2, <1>3 DEF ByPrompt
<1>6. s \in [1 .. last -> Group]
  BY <1>4, <1>5
<1>7. s \in Seq(Group) /\ Len(s) = last
  BY <1>3, <1>6
<1>8. QED
  BY <1>1, <1>2, <1>4, <1>7

\* The prompts that events carry and no user message has.
Unprompted(messages, events) ==
    {PromptOf[e] : e \in events} \ {m.turn : m \in {x \in ToSet(messages) : x.role = "user"}}

LEMMA OrphansGroups ==
    ASSUME NEW messages \in Seq(Message), NEW events \in SUBSET Event
    PROVE  /\ Orphans(messages, events) \in Seq(Group)
           /\ \A n \in 1 .. Len(Orphans(messages, events)) :
                LET g == Orphans(messages, events)[n] IN
                /\ g.messages = {}
                /\ \A e \in events : PromptOf[e] = g.prompt_id => e \in g.tools
           /\ \A e \in events : PromptOf[e] \in Unprompted(messages, events) =>
                \E n \in 1 .. Len(Orphans(messages, events)) : e \in Orphans(messages, events)[n].tools
<1>1. PICK turns : turns = Unprompted(messages, events)
  OBVIOUS
<1>2. IsFiniteSet(turns) /\ turns \subseteq Turn
  <2>1. PICK all : all = {PromptOf[e] : e \in events}
    OBVIOUS
  <2>2. PICK f : f = [e \in events |-> PromptOf[e]]
    OBVIOUS
  <2>3. f \in Surjection(events, all)
    BY <2>1, <2>2 DEF Surjection
  <2>4. IsFiniteSet(events)
    BY ChainAssumption, FS_Subset
  <2>5. IsFiniteSet(all)
    BY <2>3, <2>4, FS_Surjection
  <2>6. turns \subseteq all /\ all \subseteq Turn
    BY <1>1, <2>1, ChainAssumption DEF Unprompted
  <2>7. QED
    BY <2>5, <2>6, FS_Subset
<1>3. PICK last, each : /\ last = Cardinality(turns) /\ each = SetToSeq(turns) /\ last \in Nat
                        /\ each \in [1 .. last -> turns]
                        /\ \A t \in turns : \E i \in 1 .. last : each[i] = t
  BY <1>2, Enumerates
<1>4. PICK s : s = Orphans(messages, events)
  OBVIOUS
<1>5. s = [i \in 1 .. last |-> [messages |-> {}, tools |-> {e \in events : PromptOf[e] = each[i]},
                                prompt_id |-> each[i]]]
  BY <1>1, <1>3, <1>4 DEF Orphans, Unprompted
<1>6. ASSUME NEW i \in 1 .. last
      PROVE  /\ s[i] \in Group /\ s[i].messages = {} /\ s[i].prompt_id = each[i]
             /\ \A e \in events : PromptOf[e] = each[i] <=> e \in s[i].tools
  <2>1. s[i] = [messages |-> {}, tools |-> {e \in events : PromptOf[e] = each[i]}, prompt_id |-> each[i]]
    BY <1>5
  <2>2. each[i] \in Turn
    BY <1>2, <1>3
  <2>3. QED
    BY <2>1, <2>2 DEF Group
<1>7. s \in [1 .. last -> Group]
  <2>1. DOMAIN s = 1 .. last /\ s = [i \in 1 .. last |-> s[i]]
    BY <1>5
  <2>2. QED
    BY <1>6, <2>1
<1>8. s \in Seq(Group) /\ Len(s) = last
  <2>1. last \in Nat
    BY <1>3
  <2>2. QED
    BY <1>7, <2>1
<1>9. \A e \in events : PromptOf[e] \in turns => \E n \in 1 .. last : e \in s[n].tools
  BY <1>3, <1>6
<1>10. QED
  BY <1>1, <1>4, <1>6, <1>8, <1>9

(***************************************************************************)
(* What the builder derives: each message it read is in one group, each    *)
(* event in some, and a group has all events that carry its prompt.        *)
(***************************************************************************)
LEMMA GroupsCover ==
    ASSUME NEW messages \in Seq(Message), IsInjective(messages), NEW events \in SUBSET Event
    PROVE  LET groups == Groups(messages, events) IN
           /\ groups \in Seq(Group)
           /\ \A m \in ToSet(messages) :
                \E n \in DOMAIN groups : {k \in DOMAIN groups : m \in groups[k].messages} = {n}
           /\ \A n \in DOMAIN groups : groups[n].messages \subseteq ToSet(messages)
           /\ \A e \in events : \E n \in DOMAIN groups : e \in groups[n].tools
           /\ \A n \in DOMAIN groups : \A e \in events :
                PromptOf[e] = groups[n].prompt_id => e \in groups[n].tools
<1>1. PICK p, o, groups : /\ p = ByPrompt(messages, events) /\ o = Orphans(messages, events)
                          /\ groups = Groups(messages, events)
  OBVIOUS
<1>2. PICK last \in Nat : last = Cardinality(Opens(messages))
  BY OpensFinite
<1>3. /\ p \in Seq(Group) /\ Len(p) = last
      /\ \A n \in 1 .. last :
            /\ p[n].messages = InGroup(messages, n)
            /\ \A e \in events : (\E m \in p[n].messages : PromptOf[e] = m.turn) => e \in p[n].tools
            /\ p[n].prompt_id = NoTurn
                 \/ \E m \in p[n].messages : m.role = "user" /\ m.turn = p[n].prompt_id
  BY <1>1, <1>2, ByPromptGroups
<1>4. PICK more \in Nat : more = Len(o)
  BY <1>1, OrphansGroups, LenProperties
<1>5. /\ o \in Seq(Group)
      /\ \A n \in 1 .. more : /\ o[n].messages = {}
                              /\ \A e \in events : PromptOf[e] = o[n].prompt_id => e \in o[n].tools
      /\ \A e \in events : PromptOf[e] \in Unprompted(messages, events) =>
            \E n \in 1 .. more : e \in o[n].tools
  BY <1>1, <1>4, OrphansGroups
<1>6. groups = p \o o
  BY <1>1 DEF Groups
<1>7. /\ groups \in Seq(Group) /\ DOMAIN groups = 1 .. last + more
      /\ \A n \in 1 .. last : groups[n] = p[n]
      /\ \A n \in 1 .. more : groups[last + n] = o[n]
  <2>1. /\ groups \in Seq(Group) /\ Len(groups) = last + more
        /\ \A i \in 1 .. last + more : groups[i] = IF i <= last THEN p[i] ELSE o[i - last]
    BY <1>3, <1>4, <1>5, <1>6, ConcatProperties
  <2>2. DOMAIN groups = 1 .. last + more
    BY <2>1, LenProperties
  <2>3. \A n \in 1 .. more : last + n \in 1 .. last + more /\ ~(last + n <= last) /\ (last + n) - last = n
    OBVIOUS
  <2>4. QED
    BY <2>1, <2>2, <2>3
<1>8. \A n \in 1 .. last + more : n \in 1 .. last \/ \E k \in 1 .. more : n = last + k
  <2> SUFFICES ASSUME NEW n \in 1 .. last + more, n \notin 1 .. last
               PROVE  \E k \in 1 .. more : n = last + k
    OBVIOUS
  <2>1. n - last \in 1 .. more /\ n = last + (n - last)
    OBVIOUS
  <2>2. QED
    BY <2>1
<1>9. \A n \in 1 .. last : n \in DOMAIN groups
  BY <1>7
<1>10. \A n \in 1 .. more : last + n \in DOMAIN groups
  BY <1>7
<1>11. ASSUME NEW m \in ToSet(messages)
       PROVE  \E n \in DOMAIN groups : {k \in DOMAIN groups : m \in groups[k].messages} = {n}
  <2>1. PICK i \in DOMAIN messages : m = messages[i]
    BY DEF ToSet
  <2>2. PICK n \in 1 .. last : n = GroupOf(messages, i)
    BY <1>2, InSomeGroup
  <2>3. \A k : m \in InGroup(messages, k) <=> k = n
    BY <2>1, <2>2 DEF InGroup, IsInjective
  <2>4. \A k \in 1 .. last : m \in groups[k].messages <=> k = n
    BY <1>3, <1>7, <2>3
  <2>5. \A k \in 1 .. more : m \notin groups[last + k].messages
    BY <1>5, <1>7
  <2>6. \A k \in DOMAIN groups : m \in groups[k].messages <=> k = n
    <3> SUFFICES ASSUME NEW k \in 1 .. last + more PROVE m \in groups[k].messages <=> k = n
      BY <1>7
    <3>1. CASE k \in 1 .. last
      BY <2>4, <3>1
    <3>2. ASSUME NEW j \in 1 .. more, k = last + j PROVE m \in groups[k].messages <=> k = n
      <4>1. k # n
        BY <2>2, <3>2
      <4>2. QED
        BY <2>5, <3>2, <4>1
    <3>3. QED
      BY <1>8, <3>1, <3>2
  <2>7. QED
    BY <1>9, <2>2, <2>6
<1>12. ASSUME NEW n \in DOMAIN groups
       PROVE  groups[n].messages \subseteq ToSet(messages)
  <2>1. \A k : InGroup(messages, k) \subseteq ToSet(messages)
    BY DEF InGroup, ToSet
  <2>2. CASE n \in 1 .. last
    <3>1. groups[n].messages = InGroup(messages, n)
      BY <1>3, <1>7, <2>2
    <3>2. QED
      BY <2>1, <3>1
  <2>3. ASSUME NEW k \in 1 .. more, n = last + k PROVE groups[n].messages \subseteq ToSet(messages)
    <3>1. groups[n].messages = {}
      BY <1>5, <1>7, <2>3
    <3>2. QED
      BY <3>1
  <2>4. QED
    BY <1>7, <1>8, <2>2, <2>3
<1>13. ASSUME NEW e \in events
       PROVE  \E n \in DOMAIN groups : e \in groups[n].tools
  <2>1. CASE PromptOf[e] \in Unprompted(messages, events)
    <3>1. PICK k \in 1 .. more : e \in o[k].tools
      BY <1>5, <2>1
    <3>2. last + k \in DOMAIN groups /\ groups[last + k] = o[k]
      BY <1>7, <1>10
    <3>3. QED
      BY <3>1, <3>2
  <2>2. CASE PromptOf[e] \notin Unprompted(messages, events)
    <3>1. PICK m \in ToSet(messages) : m.role = "user" /\ PromptOf[e] = m.turn
      BY <2>2 DEF Unprompted
    <3>2. PICK n \in DOMAIN groups : m \in groups[n].messages
      BY <1>11
    <3>3. n \in 1 .. last
      <4>1. \A k \in 1 .. more : n # last + k
        BY <1>5, <1>7, <3>2
      <4>2. QED
        BY <1>7, <1>8, <3>2, <4>1
    <3>4. QED
      BY <1>3, <1>7, <3>1, <3>2, <3>3
  <2>3. QED
    BY <2>1, <2>2
<1>14. ASSUME NEW n \in DOMAIN groups, NEW e \in events, PromptOf[e] = groups[n].prompt_id
       PROVE  e \in groups[n].tools
  <2>1. PromptOf[e] # NoTurn
    BY ChainAssumption
  <2>2. CASE n \in 1 .. last
    BY <1>3, <1>7, <1>14, <2>1, <2>2
  <2>3. ASSUME NEW k \in 1 .. more, n = last + k PROVE e \in groups[n].tools
    BY <1>5, <1>7, <1>14, <2>3
  <2>4. QED
    BY <1>7, <1>8, <2>2, <2>3
<1>15. QED
  BY <1>1, <1>7, <1>11, <1>12, <1>13, <1>14

-----------------------------------------------------------------------------
(* ExchangeChain: the inductive invariant *)

ExchangeRow ==
    [messages : SUBSET Message, committed : SUBSET Event, links : SUBSET Event,
     prompt_id : Turn \cup {NoTurn}, by : Builder \cup {"capture"}, knew : SUBSET Event]

ChainTypes ==
    /\ memories \in Seq(Message) /\ IsInjective(memories)
    /\ arrived \subseteq Event /\ telemetry \subseteq arrived
    /\ exchanges \in Seq(ExchangeRow)
    /\ buildStage \in [Builder -> {"idle", "found none", "read memories", "recording", "built"}]
    /\ read \in [Builder -> Seq(Message)] /\ saw \in [Builder -> SUBSET Event]
    /\ toBuild \in [Builder -> Seq(Group)]
    /\ chainFaults \in 0 .. MaxChainFaults

\* A row commits to events that came; it is linked to those still there; and a
\* builder put into it all events of its prompt that it knew.
RowFits(x) ==
    /\ x.messages \subseteq Stored
    /\ x.committed \subseteq arrived /\ x.links = x.committed \cap telemetry
    /\ x.by \in Builder => \A e \in x.knew : PromptOf[e] = x.prompt_id => e \in x.committed

RowsFit == \A i \in DOMAIN exchanges : RowFits(exchanges[i])

\* Where a message is that a builder read: in which of its exchanges, and in
\* which of the groups it has yet to record.
Homes(b, m)   == {i \in DOMAIN exchanges : exchanges[i].by = b /\ m \in exchanges[i].messages}
Unrecorded(b, m) == {j \in DOMAIN toBuild[b] : m \in toBuild[b][j].messages}

Placed(b) ==
    /\ \A m \in ToSet(read[b]) :
          \/ Unrecorded(b, m) = {} /\ \E i \in DOMAIN exchanges : Homes(b, m) = {i}
          \/ Homes(b, m) = {} /\ \E j \in DOMAIN toBuild[b] : Unrecorded(b, m) = {j}
    /\ \A e \in saw[b] :
          \/ \E i \in DOMAIN exchanges : exchanges[i].by = b /\ e \in exchanges[i].committed
          \/ \E j \in DOMAIN toBuild[b] : e \in toBuild[b][j].tools

BuilderFits(b) ==
    /\ IsInjective(read[b]) /\ ToSet(read[b]) \subseteq Stored /\ saw[b] \subseteq arrived
    /\ toBuild[b] # <<>> => buildStage[b] = "recording"
    /\ \A j \in DOMAIN toBuild[b] :
          /\ toBuild[b][j].messages \subseteq ToSet(read[b])
          /\ \A e \in saw[b] : PromptOf[e] = toBuild[b][j].prompt_id => e \in toBuild[b][j].tools
    /\ buildStage[b] \in {"found none", "read memories"} =>
          \A i \in DOMAIN exchanges : exchanges[i].by # b
    /\ buildStage[b] \in {"recording", "built"} => Placed(b)

ChainInv ==
    /\ ChainTypes
    /\ RowsFit
    /\ \A b \in Builder : BuilderFits(b)

\* The rows that there were say what they said.
RowsStay ==
    /\ DOMAIN exchanges \subseteq DOMAIN exchanges'
    /\ \A i \in DOMAIN exchanges :
          /\ exchanges'[i].by = exchanges[i].by /\ exchanges'[i].messages = exchanges[i].messages
          /\ exchanges'[i].committed = exchanges[i].committed

LEMMA BuilderStays ==
    ASSUME NEW c \in Builder, BuilderFits(c),
           buildStage'[c] = buildStage[c], read'[c] = read[c], saw'[c] = saw[c],
           toBuild'[c] = toBuild[c], Stored \subseteq Stored', arrived \subseteq arrived',
           RowsStay, \A i \in DOMAIN exchanges' \ DOMAIN exchanges : exchanges'[i].by # c
    PROVE  BuilderFits(c)'
<1>1. \A m : Homes(c, m)' = Homes(c, m) /\ Unrecorded(c, m)' = Unrecorded(c, m)
  BY DEF Homes, Unrecorded, RowsStay
<1>2. Placed(c) => Placed(c)'
  <2> SUFFICES ASSUME Placed(c) PROVE Placed(c)'
    OBVIOUS
  <2>1. ASSUME NEW m \in ToSet(read[c])
        PROVE  \/ (Unrecorded(c, m) = {})' /\ (\E i \in DOMAIN exchanges : Homes(c, m) = {i})'
               \/ (Homes(c, m) = {})' /\ (\E j \in DOMAIN toBuild[c] : Unrecorded(c, m) = {j})'
    BY <1>1 DEF Placed, RowsStay
  <2>2. ASSUME NEW e \in saw[c]
        PROVE  \/ \E i \in DOMAIN exchanges' : exchanges'[i].by = c /\ e \in exchanges'[i].committed
               \/ \E j \in DOMAIN toBuild'[c] : e \in toBuild'[c][j].tools
    BY DEF Placed, RowsStay
  <2>3. QED
    BY <2>1, <2>2 DEF Placed
<1>3. (\A i \in DOMAIN exchanges : exchanges[i].by # c) => \A i \in DOMAIN exchanges' : exchanges'[i].by # c
  BY DEF RowsStay
<1>4. QED
  BY <1>2, <1>3 DEF BuilderFits

\* The session moves while no builder does.
LEMMA SessionMoves ==
    ASSUME ChainInv, UNCHANGED <<builder, chainFaults>>, ChainTypes',
           Stored \subseteq Stored', arrived \subseteq arrived', RowsStay,
           \A i \in DOMAIN exchanges' \ DOMAIN exchanges : exchanges'[i].by = "capture",
           RowsFit'
    PROVE  ChainInv'
<1>1. \A c \in Builder : BuilderFits(c)'
  BY BuilderStays, ChainAssumption DEF ChainInv, builder
<1>2. QED
  BY <1>1 DEF ChainInv

\* A builder moves while the session does not.
LEMMA BuilderMoves ==
    ASSUME ChainInv, UNCHANGED chainSession, NEW b \in Builder, ChainTypes', BuilderFits(b)',
           \A c \in Builder \ {b} : /\ buildStage'[c] = buildStage[c] /\ read'[c] = read[c]
                                    /\ saw'[c] = saw[c] /\ toBuild'[c] = toBuild[c]
    PROVE  ChainInv'
<1>1. RowsStay /\ DOMAIN exchanges' = DOMAIN exchanges /\ Stored' = Stored /\ arrived' = arrived
  BY DEF RowsStay, chainSession, Stored
<1>2. \A c \in Builder \ {b} : BuilderFits(c)'
  BY <1>1, BuilderStays DEF ChainInv
<1>3. RowsFit'
  BY DEF ChainInv, RowsFit, RowFits, chainSession, Stored
<1>4. QED
  BY <1>2, <1>3 DEF ChainInv

LEMMA Storing ==
    ASSUME NEW s \in Seq(Message), IsInjective(s), NEW m \in Message,
           NEW next, next = s \o (IF m \in ToSet(s) THEN <<>> ELSE <<m>>)
    PROVE  next \in Seq(Message) /\ IsInjective(next) /\ ToSet(next) = ToSet(s) \cup {m}
<1>1. CASE m \in ToSet(s)
  <2>1. next = s
    BY <1>1, ConcatEmptySeq
  <2>2. QED
    BY <1>1, <2>1
<1>2. CASE m \notin ToSet(s)
  <2>1. next = Append(s, m)
    BY <1>2, AppendIsConcat
  <2>2. PICK n \in Nat : n = Len(s) /\ DOMAIN s = 1 .. n
    BY LenProperties
  <2>3. /\ next \in Seq(Message) /\ DOMAIN next = 1 .. n + 1
        /\ \A i \in 1 .. n : next[i] = s[i]
        /\ next[n + 1] = m
    BY <2>1, <2>2, AppendProperties, LenProperties
  <2>4. \A i \in 1 .. n : s[i] # m
    BY <1>2, <2>2 DEF ToSet
  <2>5. \A i \in 1 .. n + 1 : i \in 1 .. n \/ i = n + 1
    OBVIOUS
  <2>6. IsInjective(next)
    BY <2>2, <2>3, <2>4, <2>5 DEF IsInjective
  <2>7. ToSet(next) = ToSet(s) \cup {m}
    BY <2>2, <2>3, <2>5 DEF ToSet
  <2>8. QED
    BY <2>3, <2>6, <2>7
<1>3. QED
  BY <1>1, <1>2

\* The transactions of others.
LEMMA StoringStep ==
    ASSUME ChainInv, \/ \E m \in Message : StoreMessage(m)
                     \/ \E e \in Event : RecordTelemetry(e)
    PROVE  ChainInv'
<1>1. UNCHANGED <<builder, chainFaults, exchanges>> /\ arrived \subseteq arrived' /\ RowsStay
  BY DEF StoreMessage, RecordTelemetry, RowsStay
<1>2. /\ memories' \in Seq(Message) /\ IsInjective(memories') /\ Stored \subseteq Stored'
      /\ arrived' \subseteq Event /\ telemetry' \subseteq arrived'
  <2>1. ASSUME NEW m \in Message, StoreMessage(m)
        PROVE  memories' \in Seq(Message) /\ IsInjective(memories') /\ Stored \subseteq Stored'
    <3>1. memories' = memories \o <<m>> /\ m \notin ToSet(memories) /\ memories \in Seq(Message)
      BY <2>1, AppendIsConcat DEF StoreMessage, Stored, ChainInv, ChainTypes
    <3>2. memories' = memories \o (IF m \in ToSet(memories) THEN <<>> ELSE <<m>>)
      BY <3>1
    <3>3. memories' \in Seq(Message) /\ IsInjective(memories') /\ ToSet(memories') = ToSet(memories) \cup {m}
      BY <3>2, Storing DEF ChainInv, ChainTypes
    <3>4. QED
      BY <3>3 DEF Stored
  <2>2. QED
    BY <2>1 DEF StoreMessage, RecordTelemetry, ChainInv, ChainTypes, Stored
<1>3. ChainTypes'
  BY <1>1, <1>2 DEF ChainInv, ChainTypes, builder
<1>4. ASSUME NEW i \in DOMAIN exchanges
      PROVE  exchanges[i].committed \cap telemetry' = exchanges[i].committed \cap telemetry
  BY DEF ChainInv, RowsFit, RowFits, StoreMessage, RecordTelemetry
<1>5. RowsFit'
  BY <1>1, <1>2, <1>4 DEF ChainInv, RowsFit, RowFits
<1>6. QED
  BY <1>1, <1>2, <1>3, <1>5, SessionMoves

LEMMA CaptureStep ==
    ASSUME ChainInv, NEW t \in Turn, NEW spans \in SUBSET Event, Capture(t, spans)
    PROVE  ChainInv'
<1>1. PICK x : x = Row([messages |-> {Prompted(t), Assistant(t)}, tools |-> spans, prompt_id |-> t],
                       "capture", {})
  OBVIOUS
<1>2. x = [messages |-> {Prompted(t), Assistant(t)}, committed |-> spans, links |-> spans,
           prompt_id |-> t, by |-> "capture", knew |-> {}]
  BY <1>1 DEF Row
<1>3. /\ UNCHANGED <<builder, chainFaults>> /\ exchanges' = Append(exchanges, x)
      /\ arrived' = arrived \cup spans /\ telemetry' = telemetry \cup spans
      /\ spans \cap arrived = {}
  BY <1>1 DEF Capture
<1>4. /\ memories' \in Seq(Message) /\ IsInjective(memories')
      /\ Stored' = Stored \cup {Prompted(t), Assistant(t)}
  <2>1. Prompted(t) \in Message /\ Assistant(t) \in Message /\ Prompted(t) # Assistant(t)
    BY DEF Prompted, Assistant, Message
  <2>2. memories \in Seq(Message) /\ IsInjective(memories)
    BY DEF ChainInv, ChainTypes
  <2>3. PICK first : first = memories \o (IF Prompted(t) \in ToSet(memories) THEN <<>> ELSE <<Prompted(t)>>)
    OBVIOUS
  <2>4. first \in Seq(Message) /\ IsInjective(first) /\ ToSet(first) = ToSet(memories) \cup {Prompted(t)}
    BY <2>1, <2>2, <2>3, Storing
  <2>5. memories' = first \o (IF Assistant(t) \in ToSet(first) THEN <<>> ELSE <<Assistant(t)>>)
    <3>1. Assistant(t) \in ToSet(first) <=> Assistant(t) \in ToSet(memories)
      BY <2>1, <2>4
    <3>2. memories' = first \o IfNew(Assistant(t))
      BY <2>3 DEF Capture, IfNew, Stored
    <3>3. QED
      BY <3>1, <3>2 DEF IfNew, Stored
  <2>6. /\ memories' \in Seq(Message) /\ IsInjective(memories')
        /\ ToSet(memories') = ToSet(first) \cup {Assistant(t)}
    BY <2>1, <2>4, <2>5, Storing
  <2>7. QED
    BY <2>4, <2>6 DEF Stored
<1>5. x \in ExchangeRow
  BY <1>2 DEF ExchangeRow, Prompted, Assistant, Message
<1>6. PICK n \in Nat : n = Len(exchanges) /\ DOMAIN exchanges = 1 .. n
  BY LenProperties DEF ChainInv, ChainTypes
<1>7. /\ exchanges' \in Seq(ExchangeRow) /\ DOMAIN exchanges' = 1 .. n + 1
      /\ \A i \in 1 .. n : exchanges'[i] = exchanges[i]
      /\ exchanges'[n + 1] = x
  <2>1. exchanges \in Seq(ExchangeRow)
    BY DEF ChainInv, ChainTypes
  <2>2. /\ exchanges' \in Seq(ExchangeRow) /\ Len(exchanges') = n + 1
        /\ \A i \in 1 .. n : exchanges'[i] = exchanges[i]
        /\ exchanges'[n + 1] = x
    BY <1>3, <1>5, <1>6, <2>1, AppendProperties
  <2>3. QED
    BY <2>2, LenProperties
<1>8. \A i \in 1 .. n + 1 : i \in 1 .. n \/ i = n + 1
  OBVIOUS
<1>9. ChainTypes'
  BY <1>3, <1>4, <1>7 DEF ChainInv, ChainTypes, builder
<1>10. RowsStay /\ \A i \in DOMAIN exchanges' \ DOMAIN exchanges : exchanges'[i].by = "capture"
  BY <1>2, <1>6, <1>7, <1>8 DEF RowsStay
<1>11. ASSUME NEW i \in DOMAIN exchanges, NEW y, y = exchanges[i]
       PROVE  RowFits(y)'
  <2>1. RowFits(y)
    BY <1>11 DEF ChainInv, RowsFit
  <2>2. QED
    BY <1>3, <1>4, <2>1 DEF RowFits
<1>12. RowFits(x)'
  <2>1. "capture" \notin Builder
    BY ChainAssumption
  <2>2. QED
    BY <1>2, <1>3, <1>4, <2>1 DEF RowFits
<1>13. RowsFit'
  <2> SUFFICES ASSUME NEW i \in DOMAIN exchanges', NEW y, y = exchanges'[i] PROVE RowFits(y)'
    BY DEF RowsFit, RowFits
  <2>1. QED
    BY <1>6, <1>7, <1>8, <1>11, <1>12
<1>14. QED
  BY <1>3, <1>4, <1>9, <1>10, <1>13, SessionMoves

LEMMA PruneStep ==
    ASSUME ChainInv, NEW old \in SUBSET telemetry, Prune(old)
    PROVE  ChainInv'
<1>1. /\ UNCHANGED <<memories, arrived, builder, chainFaults>> /\ telemetry' = telemetry \ old
      /\ exchanges' = [i \in DOMAIN exchanges |-> [exchanges[i] EXCEPT !.links = @ \ old]]
  BY DEF Prune
<1>2. PICK n \in Nat : n = Len(exchanges) /\ DOMAIN exchanges = 1 .. n
                       /\ \A i \in 1 .. n : exchanges[i] \in ExchangeRow
  <2>1. exchanges \in Seq(ExchangeRow)
    BY DEF ChainInv, ChainTypes
  <2>2. QED
    BY <2>1, LenProperties, ElementOfSeq
<1>3. ASSUME NEW i \in 1 .. n
      PROVE  /\ exchanges'[i] \in ExchangeRow
             /\ exchanges'[i].links = exchanges[i].links \ old
             /\ exchanges'[i].by = exchanges[i].by /\ exchanges'[i].messages = exchanges[i].messages
             /\ exchanges'[i].committed = exchanges[i].committed
             /\ exchanges'[i].prompt_id = exchanges[i].prompt_id /\ exchanges'[i].knew = exchanges[i].knew
  <2>1. exchanges'[i] = [exchanges[i] EXCEPT !.links = @ \ old] /\ exchanges[i] \in ExchangeRow
    BY <1>1, <1>2
  <2>2. QED
    BY <2>1 DEF ExchangeRow
<1>4. DOMAIN exchanges' = 1 .. n
  BY <1>1, <1>2
<1>5. exchanges' \in Seq(ExchangeRow)
  <2>1. exchanges' = [i \in 1 .. n |-> exchanges'[i]]
    BY <1>1, <1>2
  <2>2. exchanges' \in [1 .. n -> ExchangeRow]
    BY <1>3, <2>1
  <2>3. QED
    BY <2>2
<1>6. ChainTypes'
  BY <1>1, <1>5 DEF ChainInv, ChainTypes, builder
<1>7. RowsStay /\ DOMAIN exchanges' = DOMAIN exchanges
  BY <1>2, <1>3, <1>4 DEF RowsStay
<1>8. RowsFit'
  <2> SUFFICES ASSUME NEW i \in DOMAIN exchanges', NEW y, y = exchanges'[i], NEW x, x = exchanges[i]
               PROVE  RowFits(y)'
    BY DEF RowsFit, RowFits
  <2>1. RowFits(x)
    BY <1>2, <1>4 DEF ChainInv, RowsFit
  <2>2. /\ y.links = x.links \ old /\ y.by = x.by /\ y.messages = x.messages
        /\ y.committed = x.committed /\ y.prompt_id = x.prompt_id /\ y.knew = x.knew
    BY <1>3, <1>4
  <2>3. QED
    BY <1>1, <2>1, <2>2 DEF RowFits, Stored
<1>9. QED
  BY <1>1, <1>6, <1>7, <1>8, SessionMoves DEF Stored

\* A builder that has no groups to record.
LEMMA NoGroupsFits ==
    ASSUME NEW b \in Builder, toBuild'[b] = <<>>, buildStage'[b] \notin {"recording", "built"},
           IsInjective(read'[b]), ToSet(read'[b]) \subseteq Stored', saw'[b] \subseteq arrived',
           \A i \in DOMAIN exchanges' : exchanges'[i].by # b
    PROVE  BuilderFits(b)'
<1>1. DOMAIN toBuild'[b] = {}
  OBVIOUS
<1>2. QED
  BY <1>1 DEF BuilderFits

\* A builder that reads, finishes or leaves.
LEMMA ReadingStep ==
    ASSUME ChainInv, NEW b \in Builder, FindNone(b) \/ ReadMemories(b) \/ ReadEvents(b)
    PROVE  ChainInv'
<1>1. UNCHANGED <<chainSession, chainFaults>>
  BY DEF FindNone, ReadMemories, ReadEvents
<1>2. BuilderFits(b) /\ toBuild[b] = <<>>
  BY DEF ChainInv, BuilderFits, FindNone, ReadMemories, ReadEvents
<1>3. \A c \in Builder \ {b} : /\ buildStage'[c] = buildStage[c] /\ read'[c] = read[c]
                               /\ saw'[c] = saw[c] /\ toBuild'[c] = toBuild[c]
  BY DEF FindNone, ReadMemories, ReadEvents, ChainInv, ChainTypes
<1>4. CASE FindNone(b)
  <2>1. ChainTypes'
    BY <1>4 DEF FindNone, chainSession, ChainInv, ChainTypes
  <2>2. /\ buildStage'[b] = "found none" /\ read'[b] = read[b] /\ saw'[b] = saw[b]
        /\ toBuild'[b] = <<>> /\ exchanges' = <<>> /\ memories' = memories /\ arrived' = arrived
    BY <1>2, <1>4 DEF FindNone, chainSession, ChainInv, ChainTypes
  <2>3. IsInjective(read'[b]) /\ ToSet(read'[b]) \subseteq Stored' /\ saw'[b] \subseteq arrived'
    BY <1>2, <2>2 DEF BuilderFits, Stored
  <2>4. \A i \in DOMAIN exchanges' : exchanges'[i].by # b
    <3>1. exchanges' \in Seq(ExchangeRow) /\ Len(exchanges') = 0
      BY <2>1, <2>2, EmptySeq DEF ChainTypes
    <3>2. DOMAIN exchanges' = 1 .. 0
      BY <3>1, LenProperties
    <3>3. QED
      BY <3>2
  <2>5. BuilderFits(b)'
    BY <2>2, <2>3, <2>4, NoGroupsFits
  <2>6. QED
    BY <1>1, <1>3, <2>1, <2>5, BuilderMoves
<1>5. CASE ReadMemories(b)
  <2>1. PICK k : k = Min({Len(memories), MemoryLimit})
    OBVIOUS
  <2>2. Len(memories) \in Nat /\ DOMAIN memories = 1 .. Len(memories)
    BY LenProperties DEF ChainInv, ChainTypes
  <2>3. k \in Nat /\ k <= Len(memories)
    BY <2>1, <2>2, ChainAssumption DEF Min
  <2>4. PICK r : r = SubSeq(memories, 1, k)
    OBVIOUS
  <2>5. \A i \in 1 .. k : memories[i] \in Message
    <3>1. memories \in Seq(Message)
      BY DEF ChainInv, ChainTypes
    <3>2. \A i \in 1 .. k : i \in 1 .. Len(memories)
      BY <2>2, <2>3
    <3>3. QED
      BY <3>1, <3>2, ElementOfSeq
  <2>6. r \in Seq(Message) /\ Len(r) = k /\ \A i \in 1 .. k : r[i] = memories[i]
    BY <2>3, <2>4, <2>5, SubSeqProperties
  <2>7. DOMAIN r = 1 .. k
    BY <2>6, LenProperties
  <2>8. IsInjective(r) /\ ToSet(r) \subseteq Stored
    <3>1. \A i \in DOMAIN r : i \in DOMAIN memories /\ r[i] = memories[i]
      BY <2>2, <2>3, <2>6, <2>7
    <3>2. IsInjective(memories)
      BY DEF ChainInv, ChainTypes
    <3>3. IsInjective(r)
      BY <3>1, <3>2 DEF IsInjective
    <3>4. QED
      BY <3>1, <3>3 DEF ToSet, Stored
  <2>9. /\ read' = [read EXCEPT ![b] = r] /\ buildStage' = [buildStage EXCEPT ![b] = "read memories"]
        /\ UNCHANGED <<chainSession, saw, toBuild, chainFaults>>
        /\ buildStage[b] = "found none"
    BY <1>5, <2>1, <2>4 DEF ReadMemories
  <2>10. ChainTypes'
    BY <2>6, <2>9 DEF chainSession, ChainInv, ChainTypes
  <2>11. read'[b] = r /\ buildStage'[b] = "read memories" /\ saw'[b] = saw[b] /\ toBuild'[b] = <<>>
    BY <1>2, <2>9 DEF ChainInv, ChainTypes
  <2>12. ToSet(read'[b]) \subseteq Stored' /\ saw'[b] \subseteq arrived'
    BY <1>2, <2>8, <2>9, <2>11 DEF BuilderFits, Stored, chainSession
  <2>13. \A i \in DOMAIN exchanges' : exchanges'[i].by # b
    BY <1>2, <2>9 DEF BuilderFits, chainSession
  <2>14. BuilderFits(b)'
    BY <2>8, <2>11, <2>12, <2>13, NoGroupsFits
  <2>15. QED
    BY <1>1, <1>3, <2>10, <2>14, BuilderMoves
<1>6. CASE ReadEvents(b)
  <2>1. PICK r, events, groups : r = read[b] /\ events = telemetry /\ groups = Groups(read[b], telemetry)
    OBVIOUS
  <2>2. r \in Seq(Message) /\ IsInjective(r) /\ events \in SUBSET Event /\ ToSet(r) \subseteq Stored
    BY <1>2, <2>1 DEF ChainInv, ChainTypes, BuilderFits
  <2>3. /\ groups \in Seq(Group)
        /\ \A m \in ToSet(r) :
             \E n \in DOMAIN groups : {k \in DOMAIN groups : m \in groups[k].messages} = {n}
        /\ \A n \in DOMAIN groups : groups[n].messages \subseteq ToSet(r)
        /\ \A e \in events : \E n \in DOMAIN groups : e \in groups[n].tools
        /\ \A n \in DOMAIN groups : \A e \in events :
             PromptOf[e] = groups[n].prompt_id => e \in groups[n].tools
    BY <2>1, <2>2, GroupsCover
  <2>4. PICK stage : stage = IF r = <<>> /\ events = {} THEN "idle" ELSE "recording"
    OBVIOUS
  <2>5. /\ saw' = [saw EXCEPT ![b] = events] /\ toBuild' = [toBuild EXCEPT ![b] = groups]
        /\ buildStage' = [buildStage EXCEPT ![b] = stage]
        /\ UNCHANGED <<chainSession, read, chainFaults>> /\ buildStage[b] = "read memories"
    BY <1>6, <2>1, <2>4 DEF ReadEvents
  <2>6. ChainTypes'
    <3>1. stage \in {"idle", "recording"}
      BY <2>4
    <3>2. QED
      BY <2>2, <2>3, <2>5, <3>1 DEF chainSession, ChainInv, ChainTypes
  <2>7. read'[b] = r /\ buildStage'[b] = stage /\ saw'[b] = events /\ toBuild'[b] = groups
    BY <2>1, <2>5 DEF ChainInv, ChainTypes
  <2>8. groups # <<>> => stage = "recording"
    <3> SUFFICES ASSUME r = <<>>, events = {} PROVE groups = <<>>
      BY <2>4
    <3>1. Opens(r) = {}
      BY DEF Opens
    <3>2. Cardinality(Opens(r)) = 0
      BY <3>1, FS_EmptySet
    <3>3. ByPrompt(r, events) \in Seq(Group) /\ Len(ByPrompt(r, events)) = 0
      BY <2>2, <3>2, ByPromptGroups
    <3>4. Unprompted(r, events) = {}
      BY DEF Unprompted
    <3>5. Cardinality(Unprompted(r, events)) = 0
      BY <3>4, FS_EmptySet
    <3>6. Orphans(r, events) \in Seq(Group) /\ Len(Orphans(r, events)) = 0
      <4>1. DOMAIN Orphans(r, events) = 1 .. 0
        BY <3>5 DEF Orphans, Unprompted
      <4>2. Orphans(r, events) \in Seq(Group)
        BY <2>2, OrphansGroups
      <4>3. QED
        BY <4>1, <4>2, LenProperties
    <3>7. ByPrompt(r, events) = <<>> /\ Orphans(r, events) = <<>>
      BY <3>3, <3>6, EmptySeq
    <3>8. groups = <<>> \o <<>>
      BY <2>1, <3>7 DEF Groups
    <3>9. QED
      BY <3>8
  <2>9. Placed(b)'
    <3>1. \A m : Unrecorded(b, m)' = {k \in DOMAIN groups : m \in groups[k].messages}
      BY <2>7 DEF Unrecorded
    <3>2. \A m : Homes(b, m)' = {}
      BY <1>2, <2>5 DEF Homes, BuilderFits, chainSession
    <3>3. QED
      BY <2>3, <2>7, <3>1, <3>2 DEF Placed
  <2>10. BuilderFits(b)'
    <3>1. /\ (IsInjective(read[b]) /\ ToSet(read[b]) \subseteq Stored /\ saw[b] \subseteq arrived)'
          /\ (toBuild[b] # <<>> => buildStage[b] = "recording")'
      BY <2>1, <2>2, <2>5, <2>7, <2>8 DEF Stored, chainSession, ChainInv, ChainTypes
    <3>2. (\A j \in DOMAIN toBuild[b] :
              /\ toBuild[b][j].messages \subseteq ToSet(read[b])
              /\ \A e \in saw[b] : PromptOf[e] = toBuild[b][j].prompt_id => e \in toBuild[b][j].tools)'
      BY <2>3, <2>7
    <3>3. buildStage'[b] \notin {"found none", "read memories"}
      BY <2>4, <2>7
    <3>4. QED
      BY <2>9, <3>1, <3>2, <3>3 DEF BuilderFits
  <2>11. QED
    BY <1>1, <1>3, <2>6, <2>10, BuilderMoves
<1>7. QED
  BY <1>4, <1>5, <1>6

LEMMA BuildEndsStep ==
    ASSUME ChainInv, NEW b \in Builder,
           Built(b) \/ ReturnBuild(b) \/ RecordFails(b) \/ BuildStops(b)
    PROVE  ChainInv'
<1>1. UNCHANGED chainSession /\ chainFaults' \in 0 .. MaxChainFaults
  <2>1. UNCHANGED chainSession
    BY DEF Built, ReturnBuild, RecordFails, BuildStops, Leave
  <2>2. chainFaults \in 0 .. MaxChainFaults /\ MaxChainFaults \in Nat
    BY ChainAssumption DEF ChainInv, ChainTypes
  <2>3. chainFaults' = chainFaults \/ (chainFaults < MaxChainFaults /\ chainFaults' = chainFaults + 1)
    BY DEF Built, ReturnBuild, RecordFails, BuildStops
  <2>4. QED
    BY <2>1, <2>2, <2>3
<1>2. CASE Built(b)
  <2>1. /\ buildStage' = [buildStage EXCEPT ![b] = "built"] /\ UNCHANGED <<read, saw, toBuild>>
        /\ buildStage[b] = "recording" /\ toBuild[b] = <<>>
    BY <1>2 DEF Built
  <2>2. ChainTypes'
    BY <1>1, <2>1 DEF ChainInv, ChainTypes, chainSession
  <2>3. buildStage'[b] = "built" /\ read'[b] = read[b] /\ saw'[b] = saw[b] /\ toBuild'[b] = toBuild[b]
    BY <2>1 DEF ChainInv, ChainTypes
  <2>4. BuilderFits(b) /\ Placed(b)
    BY <2>1 DEF ChainInv, BuilderFits
  <2>5. \A m : Homes(b, m)' = Homes(b, m) /\ Unrecorded(b, m)' = Unrecorded(b, m)
    BY <1>1, <2>3 DEF Homes, Unrecorded, chainSession
  <2>6. Placed(b)'
    BY <1>1, <2>3, <2>4, <2>5 DEF Placed, chainSession
  <2>7. BuilderFits(b)'
    BY <1>1, <2>1, <2>3, <2>4, <2>6 DEF BuilderFits, chainSession, Stored
  <2>8. \A c \in Builder \ {b} : /\ buildStage'[c] = buildStage[c] /\ read'[c] = read[c]
                                 /\ saw'[c] = saw[c] /\ toBuild'[c] = toBuild[c]
    BY <2>1 DEF ChainInv, ChainTypes
  <2>9. QED
    BY <1>1, <2>2, <2>7, <2>8, BuilderMoves
<1>3. CASE Leave(b)
  <2>1. /\ buildStage' = [buildStage EXCEPT ![b] = "idle"] /\ read' = [read EXCEPT ![b] = <<>>]
        /\ saw' = [saw EXCEPT ![b] = {}] /\ toBuild' = [toBuild EXCEPT ![b] = <<>>]
    BY <1>3 DEF Leave
  <2>2. ChainTypes'
    <3>1. <<>> \in Seq(Message) /\ <<>> \in Seq(Group)
      BY EmptySeq
    <3>2. QED
      BY <1>1, <2>1, <3>1 DEF ChainInv, ChainTypes, chainSession
  <2>3. buildStage'[b] = "idle" /\ read'[b] = <<>> /\ saw'[b] = {} /\ toBuild'[b] = <<>>
    BY <2>1 DEF ChainInv, ChainTypes
  <2>4. BuilderFits(b)'
    BY <2>3 DEF BuilderFits, IsInjective, ToSet
  <2>5. \A c \in Builder \ {b} : /\ buildStage'[c] = buildStage[c] /\ read'[c] = read[c]
                                 /\ saw'[c] = saw[c] /\ toBuild'[c] = toBuild[c]
    BY <2>1 DEF ChainInv, ChainTypes
  <2>6. QED
    BY <1>1, <2>2, <2>4, <2>5, BuilderMoves
<1>4. QED
  BY <1>2, <1>3 DEF ReturnBuild, RecordFails, BuildStops

\* A group that is recorded moves from what waits to what the builder has made.
LEMMA RecordStep ==
    ASSUME ChainInv, NEW b \in Builder, Record(b)
    PROVE  ChainInv'
<1>1. PICK g, rest, x : /\ g = Head(toBuild[b]) /\ rest = Tail(toBuild[b])
                        /\ x = Row(Head(toBuild[b]), b, saw[b])
  OBVIOUS
<1>2. /\ exchanges' = Append(exchanges, x) /\ toBuild' = [toBuild EXCEPT ![b] = rest]
      /\ UNCHANGED <<memories, arrived, telemetry, buildStage, read, saw, chainFaults>>
      /\ buildStage[b] = "recording" /\ toBuild[b] # <<>> /\ g.tools \subseteq telemetry
  BY <1>1 DEF Record, Recordable
<1>3. x = [messages |-> g.messages, committed |-> g.tools, links |-> g.tools,
           prompt_id |-> g.prompt_id, by |-> b, knew |-> saw[b]]
  BY <1>1 DEF Row
<1>4. toBuild[b] \in Seq(Group) /\ toBuild[b] # <<>> /\ saw[b] \subseteq Event
  BY <1>2 DEF ChainInv, ChainTypes
<1>5. PICK n \in Nat : n = Len(toBuild[b]) /\ n # 0 /\ DOMAIN toBuild[b] = 1 .. n
  BY <1>4, LenProperties, EmptySeq
<1>6. g \in Group /\ g = toBuild[b][1]
  BY <1>1, <1>4, <1>5, HeadTailProperties, ElementOfSeq
<1>7. /\ rest \in Seq(Group) /\ DOMAIN rest = 1 .. n - 1
      /\ \A j \in 1 .. n - 1 : rest[j] = toBuild[b][j + 1]
  <2>1. rest \in Seq(Group) /\ Len(rest) = n - 1 /\ \A j \in 1 .. n - 1 : rest[j] = toBuild[b][j + 1]
    BY <1>1, <1>4, <1>5, HeadTailProperties
  <2>2. QED
    BY <2>1, LenProperties
<1>8. x \in ExchangeRow
  BY <1>3, <1>4, <1>6 DEF ExchangeRow, Group
<1>9. PICK k \in Nat : k = Len(exchanges) /\ DOMAIN exchanges = 1 .. k
  BY LenProperties DEF ChainInv, ChainTypes
<1>10. /\ exchanges' \in Seq(ExchangeRow) /\ DOMAIN exchanges' = 1 .. k + 1
       /\ \A i \in 1 .. k : exchanges'[i] = exchanges[i]
       /\ exchanges'[k + 1] = x
  <2>1. exchanges \in Seq(ExchangeRow)
    BY DEF ChainInv, ChainTypes
  <2>2. /\ exchanges' \in Seq(ExchangeRow) /\ Len(exchanges') = k + 1
        /\ \A i \in 1 .. k : exchanges'[i] = exchanges[i]
        /\ exchanges'[k + 1] = x
    BY <1>2, <1>8, <1>9, <2>1, AppendProperties
  <2>3. QED
    BY <2>2, LenProperties
<1>11. \A i \in 1 .. k + 1 : i \in 1 .. k \/ i = k + 1
  OBVIOUS
<1>12. ChainTypes'
  BY <1>2, <1>7, <1>10 DEF ChainInv, ChainTypes
<1>13. RowsStay /\ \A i \in DOMAIN exchanges' \ DOMAIN exchanges : exchanges'[i].by = b
  BY <1>3, <1>9, <1>10, <1>11 DEF RowsStay
<1>14. BuilderFits(b) /\ Placed(b)
  BY <1>2 DEF ChainInv, BuilderFits
<1>15. RowsFit'
  <2> SUFFICES ASSUME NEW i \in DOMAIN exchanges', NEW y, y = exchanges'[i] PROVE RowFits(y)'
    BY DEF RowsFit, RowFits
  <2>1. CASE i \in 1 .. k
    <3>1. RowFits(y)
      BY <1>9, <1>10, <2>1 DEF ChainInv, RowsFit
    <3>2. QED
      BY <1>2, <3>1 DEF RowFits, Stored
  <2>2. CASE i = k + 1
    <3>1. y = x
      BY <1>10, <2>2
    <3>2. g.messages \subseteq Stored /\ \A e \in saw[b] : PromptOf[e] = g.prompt_id => e \in g.tools
      <4>1. 1 \in DOMAIN toBuild[b]
        BY <1>5
      <4>2. /\ g.messages \subseteq ToSet(read[b])
            /\ \A e \in saw[b] : PromptOf[e] = g.prompt_id => e \in g.tools
        BY <1>6, <1>14, <4>1 DEF BuilderFits
      <4>3. ToSet(read[b]) \subseteq Stored
        BY <1>14 DEF BuilderFits
      <4>4. QED
        BY <4>2, <4>3
    <3>3. g.tools \subseteq arrived
      BY <1>2 DEF ChainInv, ChainTypes
    <3>4. QED
      BY <1>2, <1>3, <3>1, <3>2, <3>3 DEF RowFits, Stored
  <2>3. QED
    BY <1>10, <1>11, <2>1, <2>2
<1>16. toBuild'[b] = rest
  BY <1>2 DEF ChainInv, ChainTypes
<1>17. ASSUME NEW m \in ToSet(read[b])
       PROVE  \/ (Unrecorded(b, m) = {})' /\ (\E i \in DOMAIN exchanges : Homes(b, m) = {i})'
              \/ (Homes(b, m) = {})' /\ (\E j \in DOMAIN toBuild[b] : Unrecorded(b, m) = {j})'
  <2>1. Homes(b, m)' = IF m \in g.messages THEN Homes(b, m) \cup {k + 1} ELSE Homes(b, m)
    BY <1>3, <1>9, <1>10, <1>11 DEF Homes
  <2>2. Unrecorded(b, m)' = {j \in 1 .. n - 1 : m \in toBuild[b][j + 1].messages}
    BY <1>7, <1>16 DEF Unrecorded
  <2>3. m \in g.messages <=> 1 \in Unrecorded(b, m)
    BY <1>5, <1>6 DEF Unrecorded
  <2>4. \A j \in 1 .. n - 1 : j + 1 \in Unrecorded(b, m) <=> j \in Unrecorded(b, m)'
    BY <1>5, <2>2 DEF Unrecorded
  <2>5. CASE Unrecorded(b, m) = {} /\ \E i \in DOMAIN exchanges : Homes(b, m) = {i}
    <3>1. Homes(b, m)' = Homes(b, m) /\ Unrecorded(b, m)' = {}
      BY <2>1, <2>2, <2>3, <2>4, <2>5
    <3>2. QED
      BY <1>9, <1>10, <2>5, <3>1
  <2>6. ASSUME Homes(b, m) = {}, NEW j \in DOMAIN toBuild[b], Unrecorded(b, m) = {j}
        PROVE  \/ (Unrecorded(b, m) = {})' /\ (\E i \in DOMAIN exchanges : Homes(b, m) = {i})'
               \/ (Homes(b, m) = {})' /\ (\E i \in DOMAIN toBuild[b] : Unrecorded(b, m) = {i})'
    <3>1. CASE j = 1
      <4>1. Homes(b, m)' = {k + 1} /\ Unrecorded(b, m)' = {}
        BY <2>1, <2>2, <2>3, <2>4, <2>6, <3>1
      <4>2. QED
        BY <1>10, <4>1
    <3>2. CASE j # 1
      <4>1. j - 1 \in 1 .. n - 1 /\ (j - 1) + 1 = j
        BY <1>5, <3>2
      <4>2. \A i \in 1 .. n - 1 : i + 1 = j <=> i = j - 1
        BY <1>5
      <4>3. Unrecorded(b, m)' = {j - 1}
        BY <2>2, <2>4, <2>6, <4>1, <4>2
      <4>4. Homes(b, m)' = {}
        BY <2>1, <2>3, <2>6, <3>2
      <4>5. QED
        BY <1>7, <1>16, <4>1, <4>3, <4>4
    <3>3. QED
      BY <3>1, <3>2
  <2>7. QED
    BY <1>14, <2>5, <2>6 DEF Placed
<1>18. ASSUME NEW e \in saw[b]
       PROVE  \/ \E i \in DOMAIN exchanges' : exchanges'[i].by = b /\ e \in exchanges'[i].committed
              \/ \E j \in DOMAIN toBuild'[b] : e \in toBuild'[b][j].tools
  <2>1. CASE \E i \in DOMAIN exchanges : exchanges[i].by = b /\ e \in exchanges[i].committed
    BY <1>9, <1>10, <2>1
  <2>2. ASSUME NEW j \in DOMAIN toBuild[b], e \in toBuild[b][j].tools
        PROVE  \/ \E i \in DOMAIN exchanges' : exchanges'[i].by = b /\ e \in exchanges'[i].committed
               \/ \E i \in DOMAIN toBuild'[b] : e \in toBuild'[b][i].tools
    <3>1. CASE j = 1
      <4>1. exchanges'[k + 1].by = b /\ e \in exchanges'[k + 1].committed
        BY <1>3, <1>6, <1>10, <2>2, <3>1
      <4>2. QED
        BY <1>10, <4>1
    <3>2. CASE j # 1
      <4>1. j - 1 \in 1 .. n - 1 /\ (j - 1) + 1 = j
        BY <1>5, <3>2
      <4>2. e \in rest[j - 1].tools
        BY <1>7, <2>2, <4>1
      <4>3. QED
        BY <1>7, <1>16, <4>1, <4>2
    <3>3. QED
      BY <3>1, <3>2
  <2>3. QED
    BY <1>14, <2>1, <2>2 DEF Placed
<1>19. Placed(b)'
  BY <1>2, <1>17, <1>18 DEF Placed
<1>20. BuilderFits(b)'
  <2>1. (\A j \in DOMAIN toBuild[b] :
            /\ toBuild[b][j].messages \subseteq ToSet(read[b])
            /\ \A e \in saw[b] : PromptOf[e] = toBuild[b][j].prompt_id => e \in toBuild[b][j].tools)'
    <3> SUFFICES ASSUME NEW j \in 1 .. n - 1
                 PROVE  /\ rest[j].messages \subseteq ToSet(read[b])
                        /\ \A e \in saw[b] : PromptOf[e] = rest[j].prompt_id => e \in rest[j].tools
      BY <1>2, <1>7, <1>16
    <3>1. j + 1 \in DOMAIN toBuild[b] /\ rest[j] = toBuild[b][j + 1]
      BY <1>5, <1>7
    <3>2. QED
      BY <1>14, <3>1 DEF BuilderFits
  <2>2. (IsInjective(read[b]) /\ ToSet(read[b]) \subseteq Stored /\ saw[b] \subseteq arrived)'
    BY <1>2, <1>14 DEF BuilderFits, Stored
  <2>3. buildStage'[b] = "recording"
    BY <1>2
  <2>4. QED
    BY <1>19, <2>1, <2>2, <2>3 DEF BuilderFits
<1>21. ASSUME NEW c \in Builder \ {b}
       PROVE  BuilderFits(c)'
  <2>1. /\ buildStage'[c] = buildStage[c] /\ read'[c] = read[c] /\ saw'[c] = saw[c]
        /\ toBuild'[c] = toBuild[c]
    BY <1>2 DEF ChainInv, ChainTypes
  <2>2. Stored \subseteq Stored' /\ arrived \subseteq arrived'
    BY <1>2 DEF Stored
  <2>3. BuilderFits(c)
    BY DEF ChainInv
  <2>4. \A i \in DOMAIN exchanges' \ DOMAIN exchanges : exchanges'[i].by # c
    BY <1>13
  <2>5. QED
    BY <1>13, <2>1, <2>2, <2>3, <2>4, BuilderStays
<1>22. QED
  BY <1>12, <1>15, <1>20, <1>21 DEF ChainInv

LEMMA NextChainInv == ChainInv /\ [ChainNext]_chainVars => ChainInv'
<1> SUFFICES ASSUME ChainInv, [ChainNext]_chainVars PROVE ChainInv'
  OBVIOUS
<1>1. CASE UNCHANGED chainVars
  <2>1. UNCHANGED <<memories, arrived, telemetry, exchanges, buildStage, read, saw, toBuild, chainFaults>>
    BY <1>1 DEF chainVars, chainSession, builder
  <2>2. ASSUME NEW b \in Builder PROVE BuilderFits(b)'
    <3>1. RowsStay /\ Stored' = Stored
      BY <2>1 DEF RowsStay, Stored
    <3>2. BuilderFits(b)
      BY DEF ChainInv
    <3>3. QED
      BY <2>1, <3>1, <3>2, BuilderStays
  <2>3. ChainTypes' /\ RowsFit'
    BY <2>1 DEF ChainInv, ChainTypes, RowsFit, RowFits, Stored
  <2>4. QED
    BY <2>2, <2>3 DEF ChainInv
<1>2. CASE (\E m \in Message : StoreMessage(m)) \/ \E e \in Event : RecordTelemetry(e)
  BY <1>2, StoringStep
<1>3. ASSUME NEW t \in Turn, NEW spans \in SUBSET Event, CaptureTurn(t, spans) PROVE ChainInv'
  BY <1>3, CaptureStep DEF CaptureTurn
<1>4. ASSUME NEW old \in SUBSET telemetry, Prune(old) PROVE ChainInv'
  BY <1>4, PruneStep
<1>5. ASSUME NEW b \in Builder,
             \/ FindNone(b) \/ ReadMemories(b) \/ ReadEvents(b) \/ Record(b)
             \/ Built(b) \/ ReturnBuild(b) \/ RecordFails(b) \/ BuildStops(b)
      PROVE  ChainInv'
  BY <1>5, ReadingStep, RecordStep, BuildEndsStep
<1>6. ASSUME NEW t \in Turn, CaptureHook(t) PROVE ChainInv'
  BY <1>6, CaptureStep DEF CaptureHook
<1>7. QED
  BY <1>1, <1>2, <1>3, <1>4, <1>5, <1>6 DEF ChainNext

LEMMA InitChainInv == ChainInit => ChainInv
<1> SUFFICES ASSUME ChainInit PROVE ChainInv
  OBVIOUS
<1>1. /\ <<>> \in Seq(Message) /\ <<>> \in Seq(Group) /\ <<>> \in Seq(ExchangeRow)
      /\ DOMAIN <<>> = {}
  BY EmptySeq
<1>2. ChainTypes
  BY <1>1, ChainAssumption DEF ChainInit, ChainTypes, IsInjective
<1>3. RowsFit
  BY <1>1 DEF ChainInit, RowsFit
<1>4. \A b \in Builder : BuilderFits(b)
  BY <1>1 DEF ChainInit, BuilderFits, IsInjective, ToSet
<1>5. QED
  BY <1>2, <1>3, <1>4 DEF ChainInv

LEMMA AlwaysChainInv == ChainSpec => []ChainInv
  BY InitChainInv, NextChainInv, PTL DEF ChainSpec

(***************************************************************************)
(* The rows of a session have their types: a message is stored once, an    *)
(* exchange is linked to events that are still there and committed to      *)
(* events that came, and only a build in progress has groups to record.    *)
(***************************************************************************)
THEOREM ChainTyped == ChainSpec => []ChainTypeOK
<1>1. ChainInv => ChainTypeOK
  <2> SUFFICES ASSUME ChainInv PROVE ChainTypeOK
    OBVIOUS
  <2>1. ASSUME NEW x \in Chain
        PROVE  /\ x.messages \subseteq Stored
               /\ x.links \subseteq x.committed \cap telemetry /\ x.committed \subseteq arrived
               /\ x.prompt_id \in Turn \cup {NoTurn} /\ x.by \in Builder \cup {"capture"}
    <3>1. PICK i \in DOMAIN exchanges : x = exchanges[i]
      BY DEF Chain, ToSet
    <3>2. x \in ExchangeRow
      BY <3>1, LenProperties, ElementOfSeq DEF ChainInv, ChainTypes
    <3>3. RowFits(x)
      BY <3>1 DEF ChainInv, RowsFit
    <3>4. QED
      BY <3>2, <3>3 DEF RowFits, ExchangeRow
  <2>2. QED
    BY <2>1 DEF ChainInv, ChainTypes, BuilderFits, ChainTypeOK
<1>2. QED
  BY <1>1, AlwaysChainInv, PTL

(***************************************************************************)
(* For any messages, events, builders and captures, and however they       *)
(* interleave with retention and with builds that stop: a build that ends  *)
(* has put each message it read into exactly one of its exchanges and each *)
(* event into at least one, and what it derived verifies until telemetry   *)
(* of it moves (build_session_exchanges, verify_exchange_chain).           *)
(***************************************************************************)
THEOREM ExchangesAlwaysHold == ChainSpec => []ExchangesHold
<1>1. ChainInv => WholeBuild
  <2> SUFFICES ASSUME ChainInv, NEW b \in Builder, buildStage[b] = "built",
                      NEW mine, mine = {i \in DOMAIN exchanges : exchanges[i].by = b}
               PROVE  /\ \A m \in ToSet(read[b]) :
                            Cardinality({i \in mine : m \in exchanges[i].messages}) = 1
                      /\ saw[b] \subseteq UNION {exchanges[i].committed : i \in mine}
    BY DEF WholeBuild
  <2>1. BuilderFits(b) /\ Placed(b) /\ toBuild[b] = <<>>
    BY DEF ChainInv, BuilderFits
  <2>2. DOMAIN toBuild[b] = {}
    BY <2>1
  <2>3. ASSUME NEW m \in ToSet(read[b])
        PROVE  Cardinality({i \in mine : m \in exchanges[i].messages}) = 1
    <3>1. PICK i \in DOMAIN exchanges : Homes(b, m) = {i}
      BY <2>1, <2>2 DEF Placed
    <3>2. {j \in mine : m \in exchanges[j].messages} = {i}
      BY <3>1 DEF Homes
    <3>3. QED
      BY <3>2, FS_Singleton
  <2>4. saw[b] \subseteq UNION {exchanges[i].committed : i \in mine}
    BY <2>1, <2>2 DEF Placed
  <2>5. QED
    BY <2>3, <2>4
<1>2. ChainInv => VerifiesUntilTelemetryMoves
  <2> SUFFICES ASSUME ChainInv, NEW x \in Chain, x.by \in Builder, ~ SessionVerifies(x),
                      x.committed \subseteq telemetry
               PROVE  \E e \in telemetry \ x.knew : PromptOf[e] = x.prompt_id
    BY DEF VerifiesUntilTelemetryMoves
  <2>1. RowFits(x)
    BY DEF ChainInv, RowsFit, Chain, ToSet
  <2>2. x.links = x.committed
    BY <2>1 DEF RowFits
  <2>3. x.links = {}
    BY <2>2 DEF SessionVerifies, ToolCalls
  <2>4. PICK e \in telemetry : PromptOf[e] = x.prompt_id
    BY <2>2, <2>3 DEF SessionVerifies, ToolCalls
  <2>5. e \notin x.knew
    BY <2>1, <2>2, <2>3, <2>4 DEF RowFits
  <2>6. QED
    BY <2>4, <2>5
<1>3. QED
  BY <1>1, <1>2, AlwaysChainInv, PTL DEF ExchangesHold
=============================================================================
