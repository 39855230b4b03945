---------------------------- MODULE HostedProofs -----------------------------
(*************************************************************************)
(* Proofs about the hosted service: Enrollment, Accounts,                *)
(* ManagedTenants, ManagedBilling and ManagedSnapshots, for any number   *)
(* of devices, codes, accounts, subjects, requests, events, files and    *)
(* threads.  A code admits one agent on one device, a reset ends the     *)
(* sessions of the old password, workspaces stay usable, links are       *)
(* undone as they were made, nobody pays twice, and answered writes are  *)
(* copied.  With EvidenceProofs they give what MCHosted states of all    *)
(* parts together.                                                       *)
(*************************************************************************)
EXTENDS MCHosted, EvidenceProofs, SequenceTheorems, FiniteSetTheorems, TLAPS

-----------------------------------------------------------------------------
(* Enrollment *)

Tokens == Pairing \X Workspace

\* What a handler may hold between two of its commits.
HandlerState ==
    {AtRest}
    \cup [op : {"mark", "bind"}, code : Code, device : Device, agent : Agent]
    \cup [op : {"mint", "approve"}, pairing : Pairing, token : Tokens]
    \cup [op : {"expire"}, pairing : Pairing]

PairingRow == [status : {"none", "pending", "approved", "expired"},
               late : BOOLEAN, token : Tokens \cup {NoToken}]
LoginState == [state : {"none", "waiting", "paired", "failed", "loggedOut"},
               token : Tokens \cup {NoToken}]

EnrollmentTypes ==
    /\ device \in [Device -> [status : {"none", "active", "detached", "revoked"}, agent : Agent \cup {Nobody}]]
    /\ code \in [Code -> {"none", "issued", "expired", "redeemed"}]
    /\ tries \in Nat /\ enrollCalls \in Nat
    /\ tries <= enrollCalls /\ enrollCalls <= MaxEnrollCalls
    /\ pairing \in [Pairing -> PairingRow] /\ login \in [Pairing -> LoginState]
    /\ handler \in [Handler -> HandlerState]
    /\ minted \subseteq Tokens /\ projected \subseteq minted

\* A code that admitted somebody is redeemed, and stays so.
WinnersRedeemed == \A x \in winners : code[x[1]] = "redeemed"

\* A token that a row or an approving handler names was minted before.
NamedMinted ==
    /\ \A p \in Pairing : pairing[p].token \in minted \cup {NoToken}
    /\ \A h \in Handler : handler[h].op = "approve" => handler[h].token \in minted

EnrollmentInv ==
    /\ EnrollmentTypes /\ winners \subseteq Code \X Agent \X Device
    /\ WinnersRedeemed /\ OneRedemptionPerCode
    /\ NamedMinted /\ PairedAsRecorded

-----------------------------------------------------------------------------
(* Steps of a handler. *)

\* A handler that takes a request or goes on keeps a state it may be in.
LEMMA HandlerMoves ==
    ASSUME handler \in [Handler -> HandlerState], enrollCalls \in Nat, tries \in Nat,
           tries <= enrollCalls, enrollCalls <= MaxEnrollCalls,
           NEW h \in Handler, NEW next \in HandlerState, Serve(h, next) \/ Proceed(h, next)
    PROVE  /\ handler' = [handler EXCEPT ![h] = next]
           /\ handler' \in [Handler -> HandlerState]
           /\ enrollCalls' \in Nat /\ enrollCalls' <= MaxEnrollCalls
           /\ tries <= enrollCalls'
           /\ Serve(h, next) => enrollCalls' = enrollCalls + 1
  BY EnrollmentAssumption DEF Serve, Proceed

\* The steps of redemptions and associations, which leave the pairings alone.
LEMMA PairingsKept ==
    ASSUME EnrollmentInv, UNCHANGED pairVars, EnrollmentTypes',
           \A h \in Handler : handler'[h].op = "approve" => handler'[h] = handler[h],
           winners' \subseteq Code \X Agent \X Device, WinnersRedeemed', OneRedemptionPerCode'
    PROVE  EnrollmentInv'
  BY DEF EnrollmentInv, pairVars, NamedMinted, PairedAsRecorded

\* The steps of pairings, which leave codes and devices alone.
LEMMA CodesKept ==
    ASSUME EnrollmentInv, UNCHANGED <<device, codeVars>>, EnrollmentTypes', NamedMinted', PairedAsRecorded'
    PROVE  EnrollmentInv'
  BY DEF EnrollmentInv, codeVars, WinnersRedeemed, OneRedemptionPerCode

LEMMA InitEnrollmentInv == EnrollmentInit => EnrollmentInv
  BY EnrollmentAssumption
     DEF EnrollmentInit, EnrollmentInv, EnrollmentTypes, PairingRow, LoginState, HandlerState, AtRest, NoRow, NoToken,
         WinnersRedeemed, OneRedemptionPerCode, NamedMinted, PairedAsRecorded

LEMMA Associating ==
    ASSUME EnrollmentInv, NEW d \in Device, NEW a \in Agent
    PROVE  Associated(d, a) \in [Device -> [status : {"none", "active", "detached", "revoked"},
                                            agent : Agent \cup {Nobody}]]
  BY DEF EnrollmentInv, EnrollmentTypes, Associated

\* Associations of devices, by an operator, an opening store or a redemption.
LEMMA DeviceStep ==
    ASSUME EnrollmentInv, NEW h \in Handler,
           \/ \E d \in Device, a \in Agent : OperatorAssociates(h, d, a) \/ StoreOpens(h, d, a)
           \/ \E d \in Device, status \in {"detached", "revoked"} : OperatorSets(h, d, status)
           \/ RedeemBind(h)
    PROVE  EnrollmentInv'
<1>1. /\ AtRest \in HandlerState /\ AtRest.op = "rest"
      /\ Serve(h, AtRest) \/ Proceed(h, AtRest)
      /\ UNCHANGED <<codeVars, pairVars>>
  BY DEF OperatorAssociates, StoreOpens, OperatorSets, RedeemBind, AtRest, HandlerState
<1>2. handler' = [handler EXCEPT ![h] = AtRest] /\ handler' \in [Handler -> HandlerState]
      /\ enrollCalls' \in Nat /\ enrollCalls' <= MaxEnrollCalls /\ tries <= enrollCalls'
  <2> HIDE DEF AtRest, HandlerState
  <2> QED BY <1>1, HandlerMoves DEF EnrollmentInv, EnrollmentTypes
<1>3. device' \in [Device -> [status : {"none", "active", "detached", "revoked"},
                              agent : Agent \cup {Nobody}]]
  <2>1. CASE RedeemBind(h)
    <3>1. handler[h].device \in Device /\ handler[h].agent \in Agent
      BY <2>1 DEF RedeemBind, EnrollmentInv, EnrollmentTypes, HandlerState, AtRest
    <3>2. QED
      BY <2>1, <3>1, Associating DEF RedeemBind
  <2>2. ASSUME NEW d \in Device, NEW a \in Agent, OperatorAssociates(h, d, a) \/ StoreOpens(h, d, a)
        PROVE  device' \in [Device -> [status : {"none", "active", "detached", "revoked"},
                                       agent : Agent \cup {Nobody}]]
    BY <2>2, Associating DEF OperatorAssociates, StoreOpens
  <2>3. ASSUME NEW d \in Device, NEW s \in {"detached", "revoked"}, OperatorSets(h, d, s)
        PROVE  device' \in [Device -> [status : {"none", "active", "detached", "revoked"},
                                       agent : Agent \cup {Nobody}]]
    BY <2>3 DEF OperatorSets, EnrollmentInv, EnrollmentTypes
  <2>4. QED
    BY <2>1, <2>2, <2>3
<1>4. EnrollmentTypes' /\ WinnersRedeemed' /\ OneRedemptionPerCode' /\ winners' = winners
  BY <1>1, <1>2, <1>3
     DEF EnrollmentInv, EnrollmentTypes, codeVars, pairVars, WinnersRedeemed, OneRedemptionPerCode
<1>5. \A x \in Handler : handler'[x].op = "approve" => handler'[x] = handler[x]
  BY <1>1, <1>2
<1>6. QED
  BY <1>1, <1>4, <1>5, PairingsKept DEF EnrollmentInv

\* Codes are issued, expire and are looked up before they are spent.
LEMMA CodeStep ==
    ASSUME EnrollmentInv,
           \/ \E h \in Handler, c \in Code : IssueCode(h, c)
           \/ \E c \in Code : CodeExpires(c)
           \/ WindowSlides
    PROVE  EnrollmentInv'
<1>1. CASE \E h \in Handler, c \in Code : IssueCode(h, c)
  <2>1. PICK h \in Handler, c \in Code : IssueCode(h, c)
    BY <1>1
  <2>2. AtRest \in HandlerState /\ AtRest.op = "rest" /\ Serve(h, AtRest)
    BY <2>1 DEF IssueCode, AtRest, HandlerState
  <2>3. handler' = [handler EXCEPT ![h] = AtRest] /\ handler' \in [Handler -> HandlerState]
        /\ enrollCalls' \in Nat /\ enrollCalls' <= MaxEnrollCalls /\ tries <= enrollCalls'
    <3> HIDE DEF AtRest, HandlerState
    <3> QED BY <2>2, HandlerMoves DEF EnrollmentInv, EnrollmentTypes
  <2>4. EnrollmentTypes' /\ WinnersRedeemed' /\ OneRedemptionPerCode' /\ winners' = winners
    BY <2>1, <2>3 DEF IssueCode, pairVars, EnrollmentInv, EnrollmentTypes, WinnersRedeemed, OneRedemptionPerCode
  <2>5. \A x \in Handler : handler'[x].op = "approve" => handler'[x] = handler[x]
    BY <2>2, <2>3
  <2>6. QED
    BY <2>1, <2>4, <2>5, PairingsKept DEF IssueCode, EnrollmentInv
<1>2. CASE WindowSlides \/ \E c \in Code : CodeExpires(c)
  <2>1. UNCHANGED pairVars /\ UNCHANGED <<handler, winners>>
    BY <1>2 DEF WindowSlides, CodeExpires
  <2>2. EnrollmentTypes' /\ WinnersRedeemed' /\ OneRedemptionPerCode'
    BY <1>2
       DEF WindowSlides, CodeExpires, pairVars, EnrollmentInv, EnrollmentTypes, WinnersRedeemed,
           OneRedemptionPerCode
  <2>3. QED
    BY <2>1, <2>2, PairingsKept DEF EnrollmentInv
<1>3. QED
  BY <1>1, <1>2

LEMMA RedeemReadStep ==
    ASSUME EnrollmentInv, NEW h \in Handler, NEW c \in Code, NEW d \in Device, NEW a \in Agent,
           RedeemRead(h, c, d, a)
    PROVE  EnrollmentInv'
<1> DEFINE mark == [op |-> "mark", code |-> c, device |-> d, agent |-> a]
<1>1. PICK next \in {AtRest, mark} : Serve(h, next)
  BY DEF RedeemRead
<1>2. next \in HandlerState /\ next.op \in {"rest", "mark"}
  BY <1>1 DEF AtRest, HandlerState
<1>3. handler' = [handler EXCEPT ![h] = next] /\ handler' \in [Handler -> HandlerState]
      /\ enrollCalls' = enrollCalls + 1 /\ enrollCalls' <= MaxEnrollCalls
  <2> HIDE DEF HandlerState
  <2> QED BY <1>1, <1>2, HandlerMoves DEF EnrollmentInv, EnrollmentTypes
<1>4. EnrollmentTypes' /\ WinnersRedeemed' /\ OneRedemptionPerCode' /\ winners' = winners
  BY <1>3
     DEF RedeemRead, pairVars, EnrollmentInv, EnrollmentTypes, WinnersRedeemed, OneRedemptionPerCode
<1>5. \A x \in Handler : handler'[x].op = "approve" => handler'[x] = handler[x]
  BY <1>2, <1>3 DEF EnrollmentInv, EnrollmentTypes
<1>6. QED
  BY <1>4, <1>5, PairingsKept DEF RedeemRead, EnrollmentInv

\* The update admits only one: the row of the code is redeemed from then on.
LEMMA RedeemMarkStep ==
    ASSUME EnrollmentInv, NEW h \in Handler, RedeemMark(h)
    PROVE  EnrollmentInv'
<1> DEFINE c == handler[h].code
           bind == [handler[h] EXCEPT !.op = "bind"]
           one == <<c, handler[h].agent, handler[h].device>>
<1>1. /\ handler[h] \in [op : {"mark"}, code : Code, device : Device, agent : Agent]
      /\ AtRest \in HandlerState /\ AtRest.op = "rest"
  BY DEF RedeemMark, EnrollmentInv, EnrollmentTypes, HandlerState, AtRest
<1>2. /\ bind \in [op : {"mark", "bind"}, code : Code, device : Device, agent : Agent]
      /\ bind.op = "bind" /\ bind \in HandlerState
  BY <1>1 DEF HandlerState
<1>3. \/ /\ Unredeemed(c) /\ Proceed(h, bind)
         /\ code' = [code EXCEPT ![c] = "redeemed"] /\ winners' = winners \cup {one}
      \/ Proceed(h, AtRest) /\ UNCHANGED <<code, winners>>
  BY DEF RedeemMark
<1>4. PICK next \in {AtRest, bind} : Proceed(h, next)
  BY <1>3
<1>5. next \in HandlerState /\ next.op \in {"rest", "bind"}
  BY <1>1, <1>2, <1>4
<1>6. handler' = [handler EXCEPT ![h] = next] /\ handler' \in [Handler -> HandlerState]
      /\ enrollCalls' = enrollCalls
  <2> HIDE DEF AtRest, HandlerState, bind
  <2> QED BY <1>4, <1>5, HandlerMoves DEF Proceed, EnrollmentInv, EnrollmentTypes
<1>7. EnrollmentTypes'
  BY <1>1, <1>3, <1>6 DEF RedeemMark, pairVars, EnrollmentInv, EnrollmentTypes
<1>8. winners' \subseteq Code \X Agent \X Device /\ WinnersRedeemed' /\ OneRedemptionPerCode'
  <2>1. CASE UNCHANGED <<code, winners>>
    BY <2>1 DEF EnrollmentInv, WinnersRedeemed, OneRedemptionPerCode
  <2>2. CASE /\ Unredeemed(c)
             /\ code' = [code EXCEPT ![c] = "redeemed"] /\ winners' = winners \cup {one}
    <3>1. one \in Code \X Agent \X Device /\ one[1] = c /\ c \in Code
      BY <1>1
    <3>2. \A x \in winners : x[1] \in Code /\ x[1] # c
      BY <2>2 DEF Unredeemed, EnrollmentInv, WinnersRedeemed
    <3>3. \A x \in winners : code'[x[1]] = "redeemed"
      BY <2>2, <3>1, <3>2 DEF EnrollmentInv, EnrollmentTypes, WinnersRedeemed
    <3> HIDE DEF one, c
    <3>4. QED
      BY <2>2, <3>1, <3>2, <3>3 DEF EnrollmentInv, EnrollmentTypes, WinnersRedeemed, OneRedemptionPerCode
  <2>3. QED
    BY <1>3, <2>1, <2>2
<1>9. \A x \in Handler : handler'[x].op = "approve" => handler'[x] = handler[x]
  BY <1>5, <1>6 DEF EnrollmentInv, EnrollmentTypes
<1>10. QED
  BY <1>7, <1>8, <1>9, PairingsKept DEF RedeemMark

-----------------------------------------------------------------------------
(* Steps of pairings. *)

\* The fields of a row and of a login that was edited.
LEMMA RowEdits ==
    ASSUME NEW row \in PairingRow, NEW s \in {"none", "pending", "approved", "expired"},
           NEW t \in Tokens \cup {NoToken}
    PROVE  /\ [row EXCEPT !.status = s] \in PairingRow
           /\ [row EXCEPT !.status = s].status = s /\ [row EXCEPT !.status = s].token = row.token
           /\ [row EXCEPT !.status = s, !.token = t] \in PairingRow
           /\ [row EXCEPT !.status = s, !.token = t].status = s
           /\ [row EXCEPT !.status = s, !.token = t].token = t
  BY DEF PairingRow

LEMMA LoginEdits ==
    ASSUME NEW l \in LoginState, NEW s \in {"none", "waiting", "paired", "failed", "loggedOut"},
           NEW t \in Tokens \cup {NoToken}
    PROVE  /\ [l EXCEPT !.state = s] \in LoginState /\ [l EXCEPT !.state = s].state = s
           /\ [state |-> s, token |-> t] \in LoginState
  BY DEF LoginState

LEMMA RowsTyped ==
    ASSUME EnrollmentInv, NEW p \in Pairing
    PROVE  pairing[p] \in PairingRow /\ login[p] \in LoginState /\ pairing[p].token \in Tokens \cup {NoToken}
  BY DEF EnrollmentInv, EnrollmentTypes, PairingRow

\* What the device itself does, and time, with no handler involved.
LEMMA LoginStep ==
    ASSUME EnrollmentInv, NEW p \in Pairing, PairGrowsOld(p) \/ LoginTimesOut(p) \/ Logout(p)
    PROVE  EnrollmentInv'
<1>1. pairing[p] \in PairingRow /\ login[p] \in LoginState
  BY DEF EnrollmentInv, EnrollmentTypes
<1>2. /\ EnrollmentTypes' /\ UNCHANGED <<device, codeVars, minted, projected, handler, crossedPair>>
      /\ \A q \in Pairing :
            /\ pairing'[q].status = pairing[q].status /\ pairing'[q].token = pairing[q].token
            /\ login'[q].state = "paired" => login'[q] = login[q]
  <2>1. CASE PairGrowsOld(p)
    <3> DEFINE r == [pairing[p] EXCEPT !.late = TRUE]
    <3>1. r \in PairingRow /\ r.status = pairing[p].status /\ r.token = pairing[p].token
      BY <1>1 DEF PairingRow
    <3>2. pairing' = [pairing EXCEPT ![p] = r]
      BY <2>1 DEF PairGrowsOld
    <3> HIDE DEF r
    <3>3. QED
      BY <2>1, <3>1, <3>2 DEF PairGrowsOld, codeVars, EnrollmentInv, EnrollmentTypes
  <2>2. CASE LoginTimesOut(p)
    <3> DEFINE r == [login[p] EXCEPT !.state = "failed"]
    <3>1. r \in LoginState /\ r.state = "failed"
      BY <1>1 DEF LoginState
    <3>2. login' = [login EXCEPT ![p] = r]
      BY <2>2 DEF LoginTimesOut, Failed
    <3> HIDE DEF r
    <3>3. QED
      BY <2>2, <3>1, <3>2 DEF LoginTimesOut, codeVars, EnrollmentInv, EnrollmentTypes
  <2>3. CASE Logout(p)
    BY <2>3 DEF Logout, LoginState, codeVars, EnrollmentInv, EnrollmentTypes
  <2>4. QED
    BY <2>1, <2>2, <2>3
<1>3. NamedMinted' /\ PairedAsRecorded'
  BY <1>2 DEF EnrollmentInv, NamedMinted, PairedAsRecorded
<1>4. QED
  BY <1>2, <1>3, CodesKept

\* A request that is not served in one commit: nothing but its handler moves.
LEMMA HandlerStep ==
    ASSUME EnrollmentInv, NEW h \in Handler, NEW next \in HandlerState,
           Serve(h, next) \/ Proceed(h, next), next.op # "approve",
           UNCHANGED <<device, codeVars, pairVars>>
    PROVE  EnrollmentInv'
<1>1. handler' = [handler EXCEPT ![h] = next] /\ handler' \in [Handler -> HandlerState]
      /\ enrollCalls' \in Nat /\ enrollCalls' <= MaxEnrollCalls /\ tries <= enrollCalls'
  BY HandlerMoves DEF EnrollmentInv, EnrollmentTypes
<1>2. EnrollmentTypes'
  BY <1>1 DEF codeVars, pairVars, EnrollmentInv, EnrollmentTypes
<1>3. NamedMinted' /\ PairedAsRecorded'
  BY <1>1 DEF pairVars, EnrollmentInv, EnrollmentTypes, NamedMinted, PairedAsRecorded
<1>4. QED
  BY <1>2, <1>3, CodesKept

LEMMA PairRequestStep ==
    ASSUME EnrollmentInv, NEW h \in Handler, NEW p \in Pairing, PairRequest(h, p)
    PROVE  EnrollmentInv'
<1>1. AtRest \in HandlerState /\ AtRest.op = "rest" /\ Serve(h, AtRest)
  BY DEF PairRequest, AtRest, HandlerState
<1>2. handler' = [handler EXCEPT ![h] = AtRest] /\ handler' \in [Handler -> HandlerState]
      /\ enrollCalls' \in Nat /\ enrollCalls' <= MaxEnrollCalls /\ tries <= enrollCalls'
  <2> HIDE DEF AtRest, HandlerState
  <2> QED BY <1>1, HandlerMoves DEF EnrollmentInv, EnrollmentTypes
<1> DEFINE r == [pairing[p] EXCEPT !.status = "pending"]
           g == [login[p] EXCEPT !.state = "waiting"]
<1>3. /\ r \in PairingRow /\ r.token = pairing[p].token
      /\ g \in LoginState /\ g.state = "waiting"
  BY RowsTyped, RowEdits, LoginEdits
<1>4. pairing' = [pairing EXCEPT ![p] = r] /\ login' = [login EXCEPT ![p] = g]
  BY DEF PairRequest
<1> HIDE DEF r, g
<1>5. EnrollmentTypes'
  BY <1>2, <1>3, <1>4 DEF PairRequest, codeVars, EnrollmentInv, EnrollmentTypes
<1>6. NamedMinted'
  BY <1>1, <1>2, <1>3, <1>4 DEF PairRequest, EnrollmentInv, EnrollmentTypes, NamedMinted
<1>7. PairedAsRecorded'
  BY <1>3, <1>4 DEF PairRequest, EnrollmentInv, EnrollmentTypes, PairedAsRecorded
<1>8. QED
  BY <1>5, <1>6, <1>7, CodesKept DEF PairRequest

LEMMA ApproveReadStep ==
    ASSUME EnrollmentInv, NEW h \in Handler, NEW p \in Pairing, NEW w \in Workspace, ApproveRead(h, p, w)
    PROVE  EnrollmentInv'
<1> DEFINE mint == [op |-> "mint", pairing |-> p, token |-> <<p, w>>]
           r == [pairing[p] EXCEPT !.status = "expired"]
<1>1. /\ r \in PairingRow
      /\ r.token = pairing[p].token /\ r.status = "expired"
  BY DEF EnrollmentInv, EnrollmentTypes, PairingRow
<1>2. pairing[p].status = "pending"
  BY DEF ApproveRead
<1> HIDE DEF r
<1>3. CASE ~pairing[p].late
  <2>1. mint \in HandlerState /\ mint.op = "mint" /\ Serve(h, mint)
    BY <1>3 DEF ApproveRead, HandlerState, Tokens
  <2> HIDE DEF mint
  <2>2. UNCHANGED <<device, codeVars, pairVars>>
    BY <1>3 DEF ApproveRead, pairVars
  <2>3. QED
    BY <2>1, <2>2, HandlerStep
<1>4. CASE pairing[p].late
  <2>1. AtRest \in HandlerState /\ AtRest.op = "rest" /\ Serve(h, AtRest)
    BY <1>4 DEF ApproveRead, AtRest, HandlerState
  <2>2. handler' = [handler EXCEPT ![h] = AtRest] /\ handler' \in [Handler -> HandlerState]
        /\ enrollCalls' \in Nat /\ enrollCalls' <= MaxEnrollCalls /\ tries <= enrollCalls'
    <3> HIDE DEF AtRest, HandlerState
    <3> QED BY <2>1, HandlerMoves DEF EnrollmentInv, EnrollmentTypes
  <2>3. pairing' = [pairing EXCEPT ![p] = r] /\ UNCHANGED <<device, codeVars, minted, login, projected, crossedPair>>
    BY <1>4 DEF ApproveRead, r
  <2>4. EnrollmentTypes'
    BY <1>1, <2>2, <2>3 DEF codeVars, EnrollmentInv, EnrollmentTypes
  <2>5. NamedMinted' /\ PairedAsRecorded'
    BY <1>1, <1>2, <2>1, <2>2, <2>3 DEF EnrollmentInv, EnrollmentTypes, NamedMinted, PairedAsRecorded
  <2>6. QED
    BY <2>3, <2>4, <2>5, CodesKept
<1>5. QED
  BY <1>3, <1>4 DEF EnrollmentInv, EnrollmentTypes

LEMMA ApproveMintStep ==
    ASSUME EnrollmentInv, NEW h \in Handler, ApproveMint(h)
    PROVE  EnrollmentInv'
<1> DEFINE next == [handler[h] EXCEPT !.op = "approve"]
<1>1. handler[h] \in [op : {"mint"}, pairing : Pairing, token : Tokens]
  BY DEF ApproveMint, EnrollmentInv, EnrollmentTypes, HandlerState, AtRest
<1>2. next \in HandlerState /\ next.op = "approve" /\ next.token = handler[h].token
  BY <1>1 DEF HandlerState
<1>3. /\ handler' = [handler EXCEPT ![h] = next] /\ handler' \in [Handler -> HandlerState]
      /\ enrollCalls' = enrollCalls
  <2>1. Proceed(h, next)
    BY DEF ApproveMint
  <2> HIDE DEF next, HandlerState
  <2>2. QED
    BY <1>2, <2>1, HandlerMoves DEF Proceed, EnrollmentInv, EnrollmentTypes
<1>4. EnrollmentTypes'
  BY <1>1, <1>3 DEF ApproveMint, codeVars, EnrollmentInv, EnrollmentTypes
<1> HIDE DEF next
<1>5. NamedMinted' /\ PairedAsRecorded'
  BY <1>1, <1>2, <1>3 DEF ApproveMint, EnrollmentInv, EnrollmentTypes, NamedMinted, PairedAsRecorded
<1>6. QED
  BY <1>4, <1>5, CodesKept DEF ApproveMint

\* The row is written with the token in hand; it counts as crossed if it was
\* not pending any more, so a device that already holds a token is safe.
LEMMA ApproveWriteStep ==
    ASSUME EnrollmentInv, NEW h \in Handler, NEW loopback \in BOOLEAN, ApproveWrite(h, loopback)
    PROVE  EnrollmentInv'
<1> DEFINE p == handler[h].pairing
           t == handler[h].token
           r == [pairing[p] EXCEPT !.status = "approved", !.token = t]
           g == [state |-> "paired", token |-> t]
<1>1. p \in Pairing /\ t \in Tokens /\ t \in minted
  BY DEF ApproveWrite, EnrollmentInv, EnrollmentTypes, HandlerState, AtRest, NamedMinted
<1>2. /\ pairing' = [pairing EXCEPT ![p].status = "approved", ![p].token = t]
      /\ crossedPair' = IF pairing[p].status = "pending" THEN crossedPair ELSE crossedPair \cup {p}
      /\ projected' \in {projected, projected \cup {t}}
      /\ UNCHANGED <<device, codeVars, minted>>
  BY DEF ApproveWrite, Crossing, Recorded
<1>3. \/ login' = login
      \/ login' = [login EXCEPT ![p] = g] /\ Waiting(p)
  BY DEF ApproveWrite, LoopbackHas, Collected
<1> HIDE DEF p, t
<1>4. /\ r \in PairingRow /\ r.status = "approved" /\ r.token = t
      /\ g \in LoginState /\ g.state = "paired" /\ g.token = t
  <2>1. pairing[p] \in PairingRow
    BY <1>1, RowsTyped
  <2>2. QED
    BY <1>1, <2>1 DEF PairingRow, LoginState
<1>5. pairing' = [pairing EXCEPT ![p] = r]
  BY <1>1, <1>2 DEF EnrollmentInv, EnrollmentTypes
<1>6. AtRest \in HandlerState /\ AtRest.op = "rest" /\ Proceed(h, AtRest)
  BY DEF ApproveWrite, AtRest, HandlerState
<1>7. handler' = [handler EXCEPT ![h] = AtRest] /\ handler' \in [Handler -> HandlerState]
      /\ enrollCalls' = enrollCalls
  <2> HIDE DEF AtRest, HandlerState
  <2> QED BY <1>6, HandlerMoves DEF Proceed, EnrollmentInv, EnrollmentTypes
<1> HIDE DEF r, g
<1>8. EnrollmentTypes'
  BY <1>1, <1>4, <1>5, <1>2, <1>3, <1>7 DEF codeVars, EnrollmentInv, EnrollmentTypes
<1>9. NamedMinted'
  BY <1>1, <1>4, <1>5, <1>2, <1>6, <1>7 DEF EnrollmentInv, EnrollmentTypes, NamedMinted
<1>10. PairedAsRecorded'
  BY <1>1, <1>4, <1>5, <1>2, <1>3 DEF Waiting, EnrollmentInv, EnrollmentTypes, PairedAsRecorded
<1>11. QED
  BY <1>5, <1>2, <1>8, <1>9, <1>10, CodesKept

LEMMA PollReadStep ==
    ASSUME EnrollmentInv, NEW h \in Handler, NEW p \in Pairing, PollRead(h, p)
    PROVE  EnrollmentInv'
<1> DEFINE expire == [op |-> "expire", pairing |-> p]
           g == [state |-> "paired", token |-> pairing[p].token]
           f == [login[p] EXCEPT !.state = "failed"]
<1>1. /\ g \in LoginState /\ g.state = "paired" /\ g.token = pairing[p].token
      /\ f \in LoginState /\ f.state = "failed"
      /\ expire \in HandlerState /\ expire.op = "expire"
      /\ AtRest \in HandlerState /\ AtRest.op = "rest"
  BY RowsTyped, LoginEdits DEF HandlerState, AtRest
<1>2. UNCHANGED <<device, codeVars, pairing, minted, projected, crossedPair>>
  BY DEF PollRead
<1>3. \/ Serve(h, expire) /\ UNCHANGED login
      \/ /\ Serve(h, AtRest)
         /\ \/ login' = [login EXCEPT ![p] = g] /\ pairing[p].status = "approved"
            \/ login' = [login EXCEPT ![p] = f]
  BY DEF PollRead, Collected, Failed
<1> HIDE DEF expire, g, f, AtRest, HandlerState
<1>4. CASE Serve(h, expire) /\ UNCHANGED login
  BY <1>1, <1>2, <1>4, HandlerStep DEF pairVars
<1>5. CASE /\ Serve(h, AtRest)
           /\ \/ login' = [login EXCEPT ![p] = g] /\ pairing[p].status = "approved"
              \/ login' = [login EXCEPT ![p] = f]
  <2>1. handler' = [handler EXCEPT ![h] = AtRest] /\ handler' \in [Handler -> HandlerState]
        /\ enrollCalls' \in Nat /\ enrollCalls' <= MaxEnrollCalls /\ tries <= enrollCalls'
    <3>1. Serve(h, AtRest)
      BY <1>5
    <3>2. QED
      BY <1>1, <3>1, HandlerMoves DEF EnrollmentInv, EnrollmentTypes
  <2>2. EnrollmentTypes'
    BY <1>1, <1>2, <1>5, <2>1 DEF codeVars, EnrollmentInv, EnrollmentTypes
  <2>3. NamedMinted'
    BY <1>1, <1>2, <2>1 DEF EnrollmentInv, EnrollmentTypes, NamedMinted
  <2>4. PairedAsRecorded'
    BY <1>1, <1>2, <1>5 DEF EnrollmentInv, EnrollmentTypes, PairedAsRecorded
  <2>5. QED
    BY <1>2, <2>2, <2>3, <2>4, CodesKept
<1>6. QED
  BY <1>3, <1>4, <1>5

LEMMA PollExpireStep ==
    ASSUME EnrollmentInv, NEW h \in Handler, PollExpire(h)
    PROVE  EnrollmentInv'
<1> DEFINE p == handler[h].pairing
           r == [pairing[p] EXCEPT !.status = "expired"]
           f == [login[p] EXCEPT !.state = "failed"]
<1>1. p \in Pairing
  BY DEF PollExpire, EnrollmentInv, EnrollmentTypes, HandlerState, AtRest
<1>2. /\ r \in PairingRow /\ r.status = "expired" /\ r.token = pairing[p].token
      /\ f \in LoginState /\ f.state = "failed"
  <2>1. pairing[p] \in PairingRow /\ login[p] \in LoginState
    BY <1>1, RowsTyped
  <2>2. r \in PairingRow /\ r.status = "expired" /\ r.token = pairing[p].token
    BY <2>1, RowEdits
  <2>3. f \in LoginState /\ f.state = "failed"
    BY <2>1, LoginEdits
  <2>4. QED
    BY <2>2, <2>3
<1>3. AtRest \in HandlerState /\ AtRest.op = "rest" /\ Proceed(h, AtRest)
  BY DEF PollExpire, HandlerState, AtRest
<1>4. /\ pairing' = [pairing EXCEPT ![p] = r]
      /\ crossedPair' = IF pairing[p].status = "pending" THEN crossedPair ELSE crossedPair \cup {p}
      /\ login' = login \/ login' = [login EXCEPT ![p] = f]
      /\ UNCHANGED <<device, codeVars, minted, projected>>
  BY DEF PollExpire, Crossing, Failed
<1> HIDE DEF p, r, f, AtRest, HandlerState
<1>5. handler' = [handler EXCEPT ![h] = AtRest] /\ handler' \in [Handler -> HandlerState]
      /\ enrollCalls' = enrollCalls
  BY <1>3, HandlerMoves DEF Proceed, EnrollmentInv, EnrollmentTypes
<1>6. EnrollmentTypes'
  BY <1>1, <1>2, <1>4, <1>5 DEF codeVars, EnrollmentInv, EnrollmentTypes
<1>7. NamedMinted'
  BY <1>1, <1>2, <1>4, <1>5, <1>3 DEF EnrollmentInv, EnrollmentTypes, NamedMinted
<1>8. PairedAsRecorded'
  BY <1>1, <1>2, <1>4 DEF EnrollmentInv, EnrollmentTypes, PairedAsRecorded
<1>9. QED
  BY <1>4, <1>6, <1>7, <1>8, CodesKept

-----------------------------------------------------------------------------
LEMMA NextEnrollmentInv == EnrollmentInv /\ [EnrollmentNext]_enrollmentVars => EnrollmentInv'
<1> SUFFICES ASSUME EnrollmentInv, [EnrollmentNext]_enrollmentVars PROVE EnrollmentInv'
  OBVIOUS
<1>1. CASE EnrollRestart
  <2>1. handler' = [h \in Handler |-> AtRest] /\ UNCHANGED <<device, codeVars, pairVars, enrollCalls>>
    BY <1>1 DEF EnrollRestart
  <2>2. AtRest \in HandlerState /\ AtRest.op = "rest"
    BY DEF HandlerState, AtRest
  <2> HIDE DEF HandlerState, AtRest
  <2>3. EnrollmentTypes'
    BY <2>1, <2>2 DEF codeVars, pairVars, EnrollmentInv, EnrollmentTypes
  <2>4. NamedMinted' /\ PairedAsRecorded'
    BY <2>1, <2>2 DEF pairVars, EnrollmentInv, NamedMinted, PairedAsRecorded
  <2>5. QED
    BY <2>1, <2>3, <2>4, CodesKept
<1>2. CASE UNCHANGED enrollmentVars
  BY <1>2, CodesKept
     DEF enrollmentVars, codeVars, EnrollmentInv, EnrollmentTypes, NamedMinted, PairedAsRecorded
<1>3. QED
  BY <1>1, <1>2, DeviceStep, CodeStep, RedeemReadStep, RedeemMarkStep, LoginStep, PairRequestStep,
     ApproveReadStep, ApproveMintStep, ApproveWriteStep, PollReadStep, PollExpireStep
     DEF EnrollmentNext

LEMMA AlwaysEnrollmentInv == EnrollmentSpec => []EnrollmentInv
  BY InitEnrollmentInv, NextEnrollmentInv, PTL DEF EnrollmentSpec

(***************************************************************************)
(* The rows of devices, codes and pairing requests have their types, and a *)
(* row names only a token that was minted (device_pairing.py).             *)
(***************************************************************************)
THEOREM EnrollmentTyped == EnrollmentSpec => []EnrollmentTypeOK
<1>1. EnrollmentInv => EnrollmentTypeOK
  BY EnrollmentAssumption
     DEF EnrollmentInv, EnrollmentTypes, PairingRow, LoginState, NamedMinted, Tokens, EnrollmentTypeOK
<1>2. QED
  BY AlwaysEnrollmentInv, <1>1, PTL

(***************************************************************************)
(* However redemptions, approvals and polls of whatever handlers overlap,  *)
(* a code admits one agent on one device, and a device that collected a    *)
(* token holds the one its request names, unless the row was decided on    *)
(* after another request changed it (redeem_code, poll_status,             *)
(* approve_pairing_request).                                               *)
(***************************************************************************)
THEOREM PairingsAlwaysHold == EnrollmentSpec => []PairingsHold
<1>1. EnrollmentInv => PairingsHold
  BY DEF EnrollmentInv, PairingsHold
<1>2. QED
  BY AlwaysEnrollmentInv, <1>1, PTL

-----------------------------------------------------------------------------
(* Accounts. *)

UserRow == [exists : BOOLEAN, approved : BOOLEAN, password : Nat, failed : Nat,
            locked : BOOLEAN, local : SUBSET LocalAgent, reset : Nat]
SessionRow == [kind : {"session", "key"}, user : User \cup {CHOOSE u \in User : TRUE},
               password : Nat, agents : SUBSET (ChainAgent \cup LocalAgent),
               state : {"live", "revoked", "expired"}, late : BOOLEAN]
RegistryRow == [block : -1 .. MaxBlock, agents : SUBSET ChainAgent, crossed : BOOLEAN]

\* What a request may hold between two of its commits.
RequestState ==
    {Idle}
    \cup [op : {"issue", "fail"}, user : User, row : UserRow]
    \cup [op : {"link", "create"}, user : User, identity : Identity]
    \cup [op : {"rotate"}, token : Nat, row : UserRow]
    \cup [op : {"change", "reset", "revoke"}, user : User]
    \cup [op : {"sync", "tokens"}, user : User, block : 0 .. MaxBlock]
    \cup [op : {"key"}]

AccountTypes ==
    /\ user \in [User -> UserRow]
    /\ session \in Seq(SessionRow) /\ Len(session) <= MaxSession
    /\ resetToken \in [User -> {"none", "open", "used"}]
    /\ registry \in [User -> RegistryRow]
    /\ identity \in [Identity -> SUBSET User]
    /\ served \in [AuthThread -> RequestState]
    /\ authCalls \in 0 .. MaxAuthCalls

\* Only a session belongs to the account it names; a key stands for a workspace.
OwnedSessions == \A i \in DOMAIN session : session[i].kind = "session" => session[i].user \in User

\* A token is rotated where it was issued.
RotatesFit ==
    \A h \in AuthThread : served[h].op = "rotate" =>
        served[h].token \in DOMAIN session /\ session[served[h].token].kind = "session"

\* A registry row that a snapshot wrote lists the agents of its block.
RegistryListed ==
    \A u \in User : registry[u].agents = IF registry[u].block = -1 THEN {} ELSE Listed(registry[u].block)

ResetsBelow == \A u \in User : user[u].reset <= user[u].password

\* A reset of u, or a sync of u, between its two commits or cut off there.
Revoking(u) == <<"revoke", u>> \in lost \/ \E h \in AuthThread : served[h] = [op |-> "revoke", user |-> u]
Syncing(u) ==
    <<"tokens", u>> \in lost \/ \E h \in AuthThread : served[h].op = "tokens" /\ served[h].user = u

UsableRow(r) == r.kind = "session" /\ r.state = "live"

\* ResetEndsSessions and AgentsFollowRegistry of one row of the table.
EndedRow(r) == UsableRow(r) /\ r.password < user[r.user].reset => r.late \/ Revoking(r.user)
Follows(r) ==
    UsableRow(r) /\ ~(r.agents \cap ChainAgent \subseteq registry[r.user].agents)
        => registry[r.user].crossed \/ Syncing(r.user)
RowsHold == \A i \in DOMAIN session : EndedRow(session[i]) /\ Follows(session[i])

AccountsInv ==
    /\ AccountTypes /\ OwnedSessions /\ RotatesFit
    /\ RegistryListed /\ ResetsBelow /\ RowsHold

-----------------------------------------------------------------------------
(* The state after a step, for a row of the state after it. *)

RevokingThen(u) ==
    <<"revoke", u>> \in lost' \/ \E h \in AuthThread : served'[h] = [op |-> "revoke", user |-> u]
SyncingThen(u) ==
    <<"tokens", u>> \in lost' \/ \E h \in AuthThread : served'[h].op = "tokens" /\ served'[h].user = u
EndedThen(r) == UsableRow(r) /\ r.password < user'[r.user].reset => r.late \/ RevokingThen(r.user)
FollowsThen(r) ==
    UsableRow(r) /\ ~(r.agents \cap ChainAgent \subseteq registry'[r.user].agents)
        => registry'[r.user].crossed \/ SyncingThen(r.user)

LEMMA RowsHoldThen ==
    ASSUME \A i \in DOMAIN session' : EndedThen(session'[i]) /\ FollowsThen(session'[i])
    PROVE  RowsHold'
  BY DEF RowsHold, EndedRow, Follows, EndedThen, FollowsThen, Revoking, RevokingThen, Syncing, SyncingThen, UsableRow

\* A row that changes only by ending keeps what held of it.
LEMMA RowKept ==
    ASSUME NEW r, NEW t, EndedRow(r), Follows(r),
           t.kind = r.kind, t.user = r.user, t.password = r.password, t.agents = r.agents,
           r.late => t.late, t.state = "live" => r.state = "live",
           r.kind = "session" => user'[r.user].reset = user[r.user].reset,
           r.kind = "session" => registry'[r.user] = registry[r.user],
           Revoking(r.user) => RevokingThen(r.user), Syncing(r.user) => SyncingThen(r.user)
    PROVE  EndedThen(t) /\ FollowsThen(t)
  BY DEF EndedRow, Follows, EndedThen, FollowsThen, UsableRow

\* A request takes a step: another one is where it was.
LEMMA RequestMoves ==
    ASSUME served \in [AuthThread -> RequestState], authCalls \in 0 .. MaxAuthCalls,
           NEW h \in AuthThread, NEW next \in RequestState, Start(h, next) \/ Continue(h, next)
    PROVE  /\ served' = [served EXCEPT ![h] = next] /\ served' \in [AuthThread -> RequestState]
           /\ authCalls' \in 0 .. MaxAuthCalls /\ lost' = lost
  BY AccountsAssumption DEF Start, Accept, Continue

\* One that was not between the commits of a reset or a sync leaves them be.
LEMMA RequestLeaves ==
    ASSUME NEW h \in AuthThread, NEW next, served \in [AuthThread -> RequestState],
           served' = [served EXCEPT ![h] = next], lost' = lost, NEW u
    PROVE  /\ served[h] # [op |-> "revoke", user |-> u] /\ Revoking(u) => RevokingThen(u)
           /\ ~(served[h].op = "tokens" /\ served[h].user = u) /\ Syncing(u) => SyncingThen(u)
<1>1. \A x \in AuthThread : x # h => served'[x] = served[x]
  OBVIOUS
<1>2. QED
  BY <1>1 DEF Revoking, RevokingThen, Syncing, SyncingThen

LEMMA InitAccountsInv == AccountsInit => AccountsInv
<1> SUFFICES ASSUME AccountsInit PROVE AccountsInv
  OBVIOUS
<1>1. session = <<>> /\ session \in Seq(SessionRow) /\ Len(session) = 0 /\ DOMAIN session = {}
  BY EmptySeq DEF AccountsInit
<1>2. Idle \in RequestState /\ Idle.op = "idle"
  BY DEF Idle, RequestState
<1>3. \A u \in User : user[u] \in UserRow
  BY DEF AccountsInit, UserRow
<1>4. -1 \in -1 .. MaxBlock /\ 0 \in 0 .. MaxAuthCalls
  BY AccountsAssumption
<1>5. AccountTypes
  BY <1>1, <1>2, <1>3, <1>4, AccountsAssumption DEF AccountsInit, AccountTypes, RegistryRow
<1>6. QED
  BY <1>1, <1>2, <1>5
     DEF AccountsInit, AccountsInv, OwnedSessions, RotatesFit, RegistryListed, ResetsBelow, RowsHold

\* Steps that write no token and no registration.
LEMMA QuietStep ==
    ASSUME AccountsInv, UNCHANGED <<session, registry>>, AccountTypes', RotatesFit',
           \A u \in User : user'[u].reset = user[u].reset /\ user[u].password <= user'[u].password,
           \A u \in User : (Revoking(u) => RevokingThen(u)) /\ (Syncing(u) => SyncingThen(u))
    PROVE  AccountsInv'
<1>1. RowsHold'
  <2>1. SUFFICES ASSUME NEW i \in DOMAIN session'
                 PROVE  EndedThen(session'[i]) /\ FollowsThen(session'[i])
    BY RowsHoldThen
  <2>2. CASE session[i].kind = "session"
    <3>1. i \in DOMAIN session /\ session'[i] = session[i] /\ session[i].user \in User
      BY <2>1, <2>2 DEF AccountsInv, OwnedSessions
    <3>2. EndedRow(session[i]) /\ Follows(session[i])
      BY <3>1 DEF AccountsInv, RowsHold
    <3>3. QED
      BY <3>1, <3>2, RowKept
  <2>3. CASE session[i].kind # "session"
    BY <2>3 DEF EndedThen, FollowsThen, UsableRow
  <2>4. QED
    BY <2>2, <2>3
<1>2. ResetsBelow'
  <2>1. SUFFICES ASSUME NEW u \in User PROVE user'[u].reset <= user'[u].password
    BY DEF ResetsBelow
  <2>2. user[u] \in UserRow /\ user'[u] \in UserRow /\ user[u].reset <= user[u].password
    BY DEF AccountsInv, AccountTypes, ResetsBelow
  <2>3. user[u].reset \in Nat /\ user[u].password \in Nat /\ user'[u].password \in Nat
    BY <2>2 DEF UserRow
  <2>4. QED
    BY <2>2, <2>3
<1>3. OwnedSessions' /\ RegistryListed'
  BY DEF AccountsInv, OwnedSessions, RegistryListed
<1>4. QED
  BY <1>1, <1>2, <1>3 DEF AccountsInv

LEMMA OneStepIsStart == ASSUME NEW h \in AuthThread, served \in [AuthThread -> RequestState], OneStep(h)
                        PROVE  Start(h, Idle) /\ served[h].op = "idle" /\ Idle \in RequestState
<1>1. [served EXCEPT ![h] = Idle] = served
  BY DEF OneStep, Accept
<1>2. QED
  BY <1>1 DEF OneStep, Start, Accept, Idle, RequestState

\* A request that takes a step, and writes no token and no registration.
LEMMA QuietRequest ==
    ASSUME AccountsInv, NEW h \in AuthThread, NEW next \in RequestState,
           Start(h, next) \/ Continue(h, next), served[h].op \notin {"revoke", "tokens"},
           UNCHANGED <<session, registry>>,
           user' \in [User -> UserRow], resetToken' \in [User -> {"none", "open", "used"}],
           identity' \in [Identity -> SUBSET User],
           \A u \in User : user'[u].reset = user[u].reset /\ user[u].password <= user'[u].password,
           next.op = "rotate" => next.token \in DOMAIN session /\ session[next.token].kind = "session"
    PROVE  AccountsInv'
<1>1. /\ served' = [served EXCEPT ![h] = next] /\ served' \in [AuthThread -> RequestState]
      /\ authCalls' \in 0 .. MaxAuthCalls /\ lost' = lost
  <2>1. served \in [AuthThread -> RequestState] /\ authCalls \in 0 .. MaxAuthCalls
    BY DEF AccountsInv, AccountTypes
  <2>2. QED
    BY <2>1, RequestMoves
<1>2. \A u \in User : (Revoking(u) => RevokingThen(u)) /\ (Syncing(u) => SyncingThen(u))
  <2>1. SUFFICES ASSUME NEW u \in User
                 PROVE  (Revoking(u) => RevokingThen(u)) /\ (Syncing(u) => SyncingThen(u))
    OBVIOUS
  <2>2. served[h] # [op |-> "revoke", user |-> u] /\ ~(served[h].op = "tokens" /\ served[h].user = u)
    OBVIOUS
  <2>3. QED
    BY <1>1, <2>2, RequestLeaves DEF AccountsInv, AccountTypes
<1>3. AccountTypes'
  BY <1>1 DEF AccountsInv, AccountTypes
<1>4. RotatesFit'
  <2>1. \A x \in AuthThread : x # h => served'[x] = served[x]
    BY <1>1
  <2>2. served'[h] = next
    BY <1>1 DEF AccountsInv, AccountTypes
  <2>3. QED
    BY <2>1, <2>2 DEF AccountsInv, RotatesFit
<1>5. QED
  BY <1>2, <1>3, <1>4, QuietStep

LEMMA NextStates ==
    ASSUME AccountsInv
    PROVE  /\ \A op \in {"issue", "fail"}, u \in User, row \in UserRow :
                 [op |-> op, user |-> u, row |-> row] \in RequestState
           /\ \A op \in {"link", "create"}, u \in User, d \in Identity :
                 [op |-> op, user |-> u, identity |-> d] \in RequestState
           /\ \A i \in Nat, row \in UserRow : [op |-> "rotate", token |-> i, row |-> row] \in RequestState
           /\ \A op \in {"change", "reset", "revoke"}, u \in User : [op |-> op, user |-> u] \in RequestState
           /\ \A op \in {"sync", "tokens"}, u \in User, b \in 0 .. MaxBlock :
                 [op |-> op, user |-> u, block |-> b] \in RequestState
           /\ [op |-> "key"] \in RequestState /\ Idle \in RequestState
  BY DEF RequestState

\* What the state of a request holds, by what it does next.
LEMMA StateFields ==
    ASSUME NEW s \in RequestState
    PROVE  /\ s.op \in {"issue", "fail"} => s \in [op : {"issue", "fail"}, user : User, row : UserRow]
           /\ s.op \in {"link", "create"} => s \in [op : {"link", "create"}, user : User, identity : Identity]
           /\ s.op = "rotate" => s \in [op : {"rotate"}, token : Nat, row : UserRow]
           /\ s.op \in {"change", "reset", "revoke"} =>
                 s \in [op : {"change", "reset", "revoke"}, user : User]
           /\ s.op \in {"sync", "tokens"} =>
                 s \in [op : {"sync", "tokens"}, user : User, block : 0 .. MaxBlock]
  BY DEF RequestState, Idle

\* Requests that have only read.
LEMMA ReadStep ==
    ASSUME AccountsInv, NEW h \in AuthThread, NEW next \in RequestState, Start(h, next),
           UNCHANGED <<user, session, resetToken, registry, identity>>,
           next.op = "rotate" => next.token \in DOMAIN session /\ session[next.token].kind = "session"
    PROVE  AccountsInv'
<1>1. served[h].op \notin {"revoke", "tokens"}
  BY DEF Start, Accept, Idle
<1>2. \A u \in User : user[u].password \in Nat
  BY DEF AccountsInv, AccountTypes, UserRow
<1>3. \A u \in User : user'[u].reset = user[u].reset /\ user[u].password <= user'[u].password
  BY <1>2
<1>4. user' \in [User -> UserRow] /\ resetToken' \in [User -> {"none", "open", "used"}]
      /\ identity' \in [Identity -> SUBSET User]
  BY DEF AccountsInv, AccountTypes
<1>5. QED
  BY <1>1, <1>3, <1>4, QuietRequest

LEMMA LoginReads == ASSUME AccountsInv, NEW h \in AuthThread, NEW u \in User, NEW right \in BOOLEAN,
                           LoginRead(h, u, right)
                    PROVE  AccountsInv'
<1>1. PICK next : next = [op |-> IF right THEN "issue" ELSE "fail", user |-> u, row |-> user[u]]
  OBVIOUS
<1>2. user[u] \in UserRow
  BY DEF AccountsInv, AccountTypes
<1>3. next \in RequestState /\ next.op # "rotate"
  BY <1>1, <1>2, NextStates
<1>4. QED
  BY <1>1, <1>3, ReadStep DEF LoginRead

LEMMA ResetReads == ASSUME AccountsInv, NEW h \in AuthThread, NEW u \in User, ResetRead(h, u)
                    PROVE  AccountsInv'
<1>1. PICK next : next = [op |-> "reset", user |-> u]
  OBVIOUS
<1>2. next \in RequestState /\ next.op # "rotate"
  BY <1>1, NextStates
<1>3. QED
  BY <1>1, <1>2, ReadStep DEF ResetRead

LEMMA SyncReads == ASSUME AccountsInv, NEW h \in AuthThread, NEW u \in User, NEW b \in 0 .. MaxBlock,
                          SyncRead(h, u, b)
                   PROVE  AccountsInv'
<1>1. PICK next : next = [op |-> "sync", user |-> u, block |-> b]
  OBVIOUS
<1>2. next \in RequestState /\ next.op # "rotate"
  BY <1>1, NextStates
<1>3. QED
  BY <1>1, <1>2, ReadStep DEF SyncRead

LEMMA KeyCounts == ASSUME AccountsInv, NEW h \in AuthThread, KeyCount(h) PROVE AccountsInv'
<1>1. PICK next : next = [op |-> "key"]
  OBVIOUS
<1>2. next \in RequestState /\ next.op # "rotate"
  BY <1>1, NextStates
<1>3. QED
  BY <1>1, <1>2, ReadStep DEF KeyCount

LEMMA TokenReads == ASSUME AccountsInv, NEW h \in AuthThread, NEW i \in DOMAIN session,
                           RotateRead(h, i) \/ ChangePasswordRead(h, i)
                    PROVE  AccountsInv'
<1>1. session[i].kind = "session" /\ session[i].user \in User /\ i \in Nat
  <2>1. session[i].kind = "session"
    BY DEF RotateRead, ChangePasswordRead
  <2>2. DOMAIN session = 1 .. Len(session) /\ Len(session) \in Nat
    BY LenProperties DEF AccountsInv, AccountTypes
  <2>3. QED
    BY <2>1, <2>2 DEF AccountsInv, OwnedSessions
<1>2. user[session[i].user] \in UserRow
  BY <1>1 DEF AccountsInv, AccountTypes
<1>3. CASE RotateRead(h, i)
  <2>1. PICK next : next = [op |-> "rotate", token |-> i, row |-> user[session[i].user]]
    OBVIOUS
  <2>2. next \in RequestState /\ next.token = i
    BY <1>1, <1>2, <2>1, NextStates
  <2>3. QED
    BY <1>1, <1>3, <2>1, <2>2, ReadStep DEF RotateRead
<1>4. CASE ChangePasswordRead(h, i)
  <2>1. PICK next : next = [op |-> "change", user |-> session[i].user]
    OBVIOUS
  <2>2. next \in RequestState /\ next.op # "rotate"
    BY <1>1, <2>1, NextStates
  <2>3. QED
    BY <1>4, <2>1, <2>2, ReadStep DEF ChangePasswordRead
<1>5. QED
  BY <1>3, <1>4

LEMMA SignInReads == ASSUME AccountsInv, NEW h \in AuthThread, NEW d \in Identity, OAuthCallback(h, d)
                     PROVE  AccountsInv'
<1>1. PICK u \in Address : OAuthSignIn(h, d, u)
  BY DEF OAuthCallback, Address, GoogleAddress, GitHubAddress
<1>2. u \in User
  BY <1>1 DEF OAuthSignIn, Address
<1>3. PICK next : next = OAuthNext(d, u)
  OBVIOUS
<1>4. next \in RequestState /\ next.op # "rotate"
  <2>1. CASE identity[d] # {}
    <3>1. PICK v \in User : v = CHOOSE x \in identity[d] : TRUE
      BY <2>1 DEF AccountsInv, AccountTypes
    <3>2. user[v] \in UserRow
      BY DEF AccountsInv, AccountTypes
    <3>3. next = [op |-> "issue", user |-> v, row |-> user[v]]
      BY <1>3, <2>1, <3>1 DEF OAuthNext
    <3>4. QED
      BY <3>2, <3>3, NextStates
  <2>2. CASE identity[d] = {}
    <3>1. PICK op \in {"link", "create"} : next = [op |-> op, user |-> u, identity |-> d]
      BY <1>3, <2>2 DEF OAuthNext
    <3>2. QED
      BY <1>2, <3>1, NextStates
  <2>3. QED
    BY <2>1, <2>2
<1>5. QED
  BY <1>1, <1>3, <1>4, ReadStep DEF OAuthSignIn

\* A step that writes one row of accounts, and no password of a reset.
LEMMA RowWritten ==
    ASSUME AccountsInv, NEW u \in User, NEW row \in UserRow, user' = [user EXCEPT ![u] = row],
           row.reset = user[u].reset, user[u].password <= row.password
    PROVE  /\ user' \in [User -> UserRow]
           /\ \A w \in User : user'[w].reset = user[w].reset /\ user[w].password <= user'[w].password
<1>1. user \in [User -> UserRow]
  BY DEF AccountsInv, AccountTypes
<1>2. \A w \in User : user[w].password \in Nat
  BY <1>1 DEF UserRow
<1>3. QED
  BY <1>1, <1>2

LEMMA WriteStep ==
    ASSUME AccountsInv, NEW h \in AuthThread, NEW next \in RequestState, next.op # "rotate",
           Start(h, next) \/ Continue(h, next), served[h].op \notin {"revoke", "tokens"},
           NEW u \in User, NEW row \in UserRow, user' = [user EXCEPT ![u] = row],
           row.reset = user[u].reset, user[u].password <= row.password,
           UNCHANGED <<session, resetToken, registry>>, identity' \in [Identity -> SUBSET User]
    PROVE  AccountsInv'
<1>1. resetToken' \in [User -> {"none", "open", "used"}]
  BY DEF AccountsInv, AccountTypes
<1>2. /\ user' \in [User -> UserRow]
      /\ \A w \in User : user'[w].reset = user[w].reset /\ user[w].password <= user'[w].password
  BY RowWritten
<1>3. QED
  BY <1>1, <1>2, QuietRequest

LEMMA RowFields ==
    ASSUME AccountsInv, NEW u \in User
    PROVE  user[u] \in UserRow /\ user[u].password \in Nat /\ user[u].password <= user[u].password
  BY DEF AccountsInv, AccountTypes, UserRow

LEMMA AccountSteps ==
    ASSUME AccountsInv, NEW h \in AuthThread, NEW u \in User,
           \/ \E approved \in BOOLEAN : CreateAccount(h, u, approved)
           \/ ApproveAccount(h, u)
           \/ \E agents \in SUBSET LocalAgent : SetLocalAgents(h, u, agents)
    PROVE  AccountsInv'
<1>1. OneStep(h) /\ UNCHANGED <<session, resetToken, registry, identity>>
  BY DEF CreateAccount, ApproveAccount, SetLocalAgents
<1>2. Start(h, Idle) /\ served[h].op = "idle" /\ Idle \in RequestState
  BY <1>1, OneStepIsStart DEF AccountsInv, AccountTypes
<1>3. \E row \in UserRow : user' = [user EXCEPT ![u] = row] /\ row.reset = user[u].reset
                              /\ row.password = user[u].password
  <2>1. CASE \E approved \in BOOLEAN : CreateAccount(h, u, approved)
    <3>1. PICK b \in BOOLEAN : CreateAccount(h, u, b)
      BY <2>1
    <3>2. PICK row : row = [user[u] EXCEPT !.exists = TRUE, !.approved = b]
      OBVIOUS
    <3>3. row \in UserRow /\ row.reset = user[u].reset /\ row.password = user[u].password
      BY <3>2, RowFields DEF UserRow
    <3>4. user' = [user EXCEPT ![u] = row]
      BY <3>1, <3>2 DEF CreateAccount, AccountsInv, AccountTypes
    <3>5. QED
      BY <3>3, <3>4
  <2>2. CASE ApproveAccount(h, u)
    <3>1. PICK row : row = [user[u] EXCEPT !.approved = TRUE]
      OBVIOUS
    <3>2. row \in UserRow /\ row.reset = user[u].reset /\ row.password = user[u].password
      BY <3>1, RowFields DEF UserRow
    <3>3. user' = [user EXCEPT ![u] = row]
      BY <2>2, <3>1 DEF ApproveAccount, AccountsInv, AccountTypes
    <3>4. QED
      BY <3>2, <3>3
  <2>3. CASE \E agents \in SUBSET LocalAgent : SetLocalAgents(h, u, agents)
    <3>1. PICK A \in SUBSET LocalAgent : SetLocalAgents(h, u, A)
      BY <2>3
    <3>2. PICK row : row = [user[u] EXCEPT !.local = A]
      OBVIOUS
    <3>3. row \in UserRow /\ row.reset = user[u].reset /\ row.password = user[u].password
      BY <3>2, RowFields DEF UserRow
    <3>4. user' = [user EXCEPT ![u] = row]
      BY <3>1, <3>2 DEF SetLocalAgents, AccountsInv, AccountTypes
    <3>5. QED
      BY <3>3, <3>4
  <2>4. QED
    BY <2>1, <2>2, <2>3
<1>4. PICK row \in UserRow : user' = [user EXCEPT ![u] = row] /\ row.reset = user[u].reset
                                /\ row.password = user[u].password
  BY <1>3
<1>5. user[u].password <= row.password
  BY <1>4, RowFields
<1>6. identity' \in [Identity -> SUBSET User] /\ Idle.op # "rotate"
  BY <1>1 DEF AccountsInv, AccountTypes, Idle
<1>7. QED
  BY <1>1, <1>2, <1>4, <1>5, <1>6, WriteStep

LEMMA LoginFails == ASSUME AccountsInv, NEW h \in AuthThread, LoginFail(h) PROVE AccountsInv'
<1>1. served[h].op = "fail" /\ served[h] \in RequestState
  BY DEF LoginFail, AccountsInv, AccountTypes
<1>2. PICK u : u = served[h].user
  OBVIOUS
<1>3. u \in User /\ served[h].row.failed \in Nat
  BY <1>1, <1>2, StateFields DEF UserRow
<1>4. PICK counted \in Nat : counted = served[h].row.failed + 1
  BY <1>3
<1>5. PICK locks \in BOOLEAN : locks = (counted >= LockAfter)
  <2>1. counted \in Int /\ LockAfter \in Int
    BY AccountsAssumption
  <2>2. CASE counted >= LockAfter
    <3>1. TRUE = (counted >= LockAfter)
      BY <2>1, <2>2
    <3>2. QED
      BY <3>1
  <2>3. CASE ~(counted >= LockAfter)
    <3>1. FALSE = (counted >= LockAfter)
      BY <2>1, <2>3
    <3>2. QED
      BY <3>1
  <2>4. QED
    BY <2>2, <2>3
<1>6. PICK row : row = [user[u] EXCEPT !.failed = counted, !.locked = locks]
  OBVIOUS
<1>7. row \in UserRow /\ row.reset = user[u].reset /\ row.password = user[u].password
  <2>1. user[u] \in UserRow
    BY <1>3, RowFields
  <2>2. QED
    BY <1>6, <2>1 DEF UserRow
<1>8. user' = [user EXCEPT ![u] = row]
  BY <1>2, <1>3, <1>4, <1>5, <1>6 DEF LoginFail, AccountsInv, AccountTypes
<1>9. Idle \in RequestState /\ Idle.op # "rotate" /\ Continue(h, Idle)
      /\ UNCHANGED <<session, resetToken, registry, identity>>
  BY NextStates DEF Idle, LoginFail
<1>10. identity' \in [Identity -> SUBSET User] /\ user[u].password <= row.password
  BY <1>3, <1>7, <1>9, RowFields DEF AccountsInv, AccountTypes
<1>11. QED
  BY <1>1, <1>3, <1>7, <1>8, <1>9, <1>10, WriteStep

LEMMA PasswordChanges == ASSUME AccountsInv, NEW h \in AuthThread, ChangePasswordWrite(h) PROVE AccountsInv'
<1>1. served[h].op = "change" /\ served[h] \in RequestState
  BY DEF ChangePasswordWrite, AccountsInv, AccountTypes
<1>2. PICK u : u = served[h].user
  OBVIOUS
<1>3. u \in User
  BY <1>1, <1>2, StateFields
<1>4. PICK row : row = [user[u] EXCEPT !.password = user[u].password + 1, !.failed = 0, !.locked = FALSE]
  OBVIOUS
<1>5. row \in UserRow /\ row.reset = user[u].reset /\ row.password = user[u].password + 1
  <2>1. user[u] \in UserRow
    BY <1>3, RowFields
  <2>2. user[u].password + 1 \in Nat
    BY <1>3, RowFields
  <2>3. QED
    BY <1>4, <2>1, <2>2 DEF UserRow
<1>6. user' = [user EXCEPT ![u] = row]
  BY <1>2, <1>3, <1>4 DEF ChangePasswordWrite, AccountsInv, AccountTypes
<1>7. Idle \in RequestState /\ Idle.op # "rotate" /\ Continue(h, Idle)
      /\ UNCHANGED <<session, resetToken, registry, identity>>
  BY NextStates DEF Idle, ChangePasswordWrite
<1>8. identity' \in [Identity -> SUBSET User] /\ user[u].password <= row.password
  BY <1>3, <1>5, <1>7, RowFields DEF AccountsInv, AccountTypes
<1>9. QED
  BY <1>1, <1>3, <1>5, <1>6, <1>7, <1>8, WriteStep

LEMMA SignInCreates == ASSUME AccountsInv, NEW h \in AuthThread, OAuthCreate(h) PROVE AccountsInv'
<1>1. served[h].op = "create" /\ served[h] \in RequestState
  BY DEF OAuthCreate, AccountsInv, AccountTypes
<1>2. PICK u : u = served[h].user
  OBVIOUS
<1>3. u \in User /\ served[h] \in [op : {"link", "create"}, user : User, identity : Identity]
  BY <1>1, <1>2, StateFields
<1>4. PICK b \in BOOLEAN : b <=> user[u].approved \/ ~user[u].exists
  OBVIOUS
<1>5. PICK row : row = [user[u] EXCEPT !.exists = TRUE, !.approved = (user[u].approved \/ ~user[u].exists)]
  OBVIOUS
<1>6. row \in UserRow /\ row.reset = user[u].reset /\ row.password = user[u].password
  BY <1>3, <1>5, RowFields DEF UserRow
<1>7. user' = [user EXCEPT ![u] = row]
  BY <1>2, <1>3, <1>5 DEF OAuthCreate, AccountsInv, AccountTypes
<1>8. PICK next : next = IF user[u].exists THEN Idle ELSE [served[h] EXCEPT !.op = "link"]
  OBVIOUS
<1>9. next \in RequestState /\ next.op # "rotate"
  <2>1. Idle \in RequestState /\ Idle.op # "rotate"
    BY NextStates DEF Idle
  <2>2. PICK t : t = [served[h] EXCEPT !.op = "link"]
    OBVIOUS
  <2>3. t \in [op : {"link", "create"}, user : User, identity : Identity] /\ t.op = "link"
    BY <1>3, <2>2
  <2>4. t \in RequestState
    BY <2>3 DEF RequestState
  <2>5. QED
    BY <1>8, <2>1, <2>2, <2>3, <2>4
<1>10. Continue(h, next) /\ UNCHANGED <<session, resetToken, registry, identity>>
  BY <1>2, <1>8 DEF OAuthCreate
<1>11. identity' \in [Identity -> SUBSET User] /\ user[u].password <= row.password
  BY <1>3, <1>6, <1>10, RowFields DEF AccountsInv, AccountTypes
<1>12. QED
  BY <1>1, <1>3, <1>6, <1>7, <1>9, <1>10, <1>11, WriteStep

LEMMA SignInLinks == ASSUME AccountsInv, NEW h \in AuthThread, OAuthLink(h) PROVE AccountsInv'
<1>1. served[h].op = "link" /\ served[h] \in RequestState
  BY DEF OAuthLink, AccountsInv, AccountTypes
<1>2. PICK u : u = served[h].user
  OBVIOUS
<1>3. u \in User /\ served[h].identity \in Identity
  BY <1>1, <1>2, StateFields
<1>4. PICK row : row = [user[u] EXCEPT !.approved = TRUE]
  OBVIOUS
<1>5. row \in UserRow /\ row.reset = user[u].reset /\ row.password = user[u].password
  BY <1>3, <1>4, RowFields DEF UserRow
<1>6. PICK next : next = [op |-> "issue", user |-> u, row |-> row]
  OBVIOUS
<1>7. next \in RequestState /\ next.op # "rotate"
  BY <1>3, <1>5, <1>6, NextStates
<1>8. /\ user' = [user EXCEPT ![u] = row] /\ Continue(h, next)
      /\ identity' = [identity EXCEPT ![served[h].identity] = {u}]
      /\ UNCHANGED <<session, resetToken, registry>>
  BY <1>2, <1>4, <1>6 DEF OAuthLink
<1>9. identity' \in [Identity -> SUBSET User] /\ user[u].password <= row.password
  BY <1>3, <1>5, <1>8, RowFields DEF AccountsInv, AccountTypes
<1>10. QED
  BY <1>1, <1>3, <1>5, <1>7, <1>8, <1>9, WriteStep

LEMMA ResetRequests == ASSUME AccountsInv, NEW h \in AuthThread, NEW u \in User, NEW delivered \in BOOLEAN,
                              RequestReset(h, u, delivered)
                       PROVE  AccountsInv'
<1>1. OneStep(h) /\ UNCHANGED <<user, session, registry, identity>>
  BY DEF RequestReset
<1>2. Start(h, Idle) /\ served[h].op = "idle" /\ Idle \in RequestState /\ Idle.op # "rotate"
  BY <1>1, OneStepIsStart DEF AccountsInv, AccountTypes, Idle
<1>3. resetToken' \in [User -> {"none", "open", "used"}] /\ user' \in [User -> UserRow]
      /\ identity' \in [Identity -> SUBSET User]
  BY <1>1 DEF RequestReset, AccountsInv, AccountTypes
<1>4. \A w \in User : user'[w].reset = user[w].reset /\ user[w].password <= user'[w].password
  BY <1>1, RowFields
<1>5. QED
  BY <1>1, <1>2, <1>3, <1>4, QuietRequest

LEMMA LocksRunOut == ASSUME AccountsInv, NEW u \in User, LockRunsOut(u) PROVE AccountsInv'
<1>1. PICK row : row = [user[u] EXCEPT !.locked = FALSE]
  OBVIOUS
<1>2. row \in UserRow /\ row.reset = user[u].reset /\ row.password = user[u].password
  BY <1>1, RowFields DEF UserRow
<1>3. user' = [user EXCEPT ![u] = row] /\ user[u].password <= row.password
  BY <1>1, <1>2, RowFields DEF LockRunsOut, AccountsInv, AccountTypes
<1>4. /\ user' \in [User -> UserRow]
      /\ \A w \in User : user'[w].reset = user[w].reset /\ user[w].password <= user'[w].password
  BY <1>2, <1>3, RowWritten
<1>5. UNCHANGED <<session, resetToken, registry, identity, served, lost, authCalls>>
  BY DEF LockRunsOut
<1>6. AccountTypes' /\ RotatesFit'
  BY <1>4, <1>5 DEF AccountsInv, AccountTypes, RotatesFit
<1>7. \A w \in User : (Revoking(w) => RevokingThen(w)) /\ (Syncing(w) => SyncingThen(w))
  BY <1>5 DEF Revoking, RevokingThen, Syncing, SyncingThen
<1>8. QED
  BY <1>4, <1>5, <1>6, <1>7, QuietStep

\* A restart forgets what the requests had read, and remembers what it cut off.
LEMMA Restarts == ASSUME AccountsInv, AuthRestart PROVE AccountsInv'
<1>1. UNCHANGED <<user, session, resetToken, registry, identity, authCalls>>
  BY DEF AuthRestart
<1>2. Idle \in RequestState /\ Idle.op = "idle"
  BY NextStates DEF Idle
<1>3. AccountTypes' /\ RotatesFit'
  BY <1>1, <1>2 DEF AuthRestart, AccountsInv, AccountTypes, RotatesFit
<1>4. \A w \in User : (Revoking(w) => RevokingThen(w)) /\ (Syncing(w) => SyncingThen(w))
  <2>1. \A x \in AuthThread : served[x].op \in {"revoke", "tokens"} => <<served[x].op, served[x].user>> \in lost'
    BY DEF AuthRestart
  <2>2. lost \subseteq lost'
    BY DEF AuthRestart
  <2>3. SUFFICES ASSUME NEW w \in User
                 PROVE  (Revoking(w) => RevokingThen(w)) /\ (Syncing(w) => SyncingThen(w))
    OBVIOUS
  <2>4. ASSUME NEW x \in AuthThread, served[x] = [op |-> "revoke", user |-> w]
        PROVE  <<"revoke", w>> \in lost'
    <3>1. served[x].op = "revoke" /\ served[x].user = w
      BY <2>4
    <3>2. QED
      BY <2>1, <3>1
  <2>5. ASSUME NEW x \in AuthThread, served[x].op = "tokens", served[x].user = w
        PROVE  <<"tokens", w>> \in lost'
    BY <2>1, <2>5
  <2>6. QED
    BY <2>2, <2>4, <2>5 DEF Revoking, RevokingThen, Syncing, SyncingThen
<1>5. \A w \in User : user'[w].reset = user[w].reset /\ user[w].password <= user'[w].password
  BY <1>1, RowFields
<1>6. QED
  BY <1>1, <1>3, <1>4, <1>5, QuietStep

-----------------------------------------------------------------------------
(* Steps that write tokens or registrations. *)

\* A table of the same length whose rows are rows is a table.
LEMMA RowsOfTable ==
    ASSUME NEW f, NEW S, NEW q \in Seq(S), DOMAIN f = DOMAIN q, f = [i \in DOMAIN q |-> f[i]],
           \A i \in DOMAIN q : f[i] \in S
    PROVE  f \in Seq(S) /\ Len(f) = Len(q)
<1>1. Len(q) \in Nat /\ DOMAIN q = 1 .. Len(q)
  BY LenProperties
<1>2. f \in [1 .. Len(q) -> S]
  BY <1>1
<1>3. f \in Seq(S)
  <2>1. [1 .. Len(q) -> S] \in {[1 .. n -> S] : n \in Nat}
    BY <1>1
  <2>2. f \in UNION {[1 .. n -> S] : n \in Nat}
    BY <1>2, <2>1
  <2>3. QED
    BY <2>2, SeqDef
<1>4. Len(f) \in Nat /\ DOMAIN f = 1 .. Len(f)
  BY <1>3, LenProperties
<1>5. Len(f) = Len(q)
  <2>1. 1 .. Len(f) = 1 .. Len(q)
    BY <1>1, <1>4
  <2>2. QED
    BY <1>1, <1>4, <2>1
<1>6. QED
  BY <1>3, <1>5

\* A step that writes the table keeps the invariant when its rows fit.
LEMMA TableStep ==
    ASSUME AccountsInv, AccountTypes', ResetsBelow', RegistryListed',
           \A i \in DOMAIN session : i \in DOMAIN session' /\ session'[i].kind = session[i].kind,
           \A h \in AuthThread : served'[h].op = "rotate" => served'[h] = served[h],
           \A i \in DOMAIN session' : session'[i].kind = "session" =>
              session'[i].user \in User /\ EndedThen(session'[i]) /\ FollowsThen(session'[i])
    PROVE  AccountsInv'
<1>1. RowsHold'
  <2>1. \A i \in DOMAIN session' : EndedThen(session'[i]) /\ FollowsThen(session'[i])
    BY DEF EndedThen, FollowsThen, UsableRow
  <2>2. QED
    BY <2>1, RowsHoldThen
<1>2. OwnedSessions'
  BY DEF OwnedSessions
<1>3. RotatesFit'
  BY DEF AccountsInv, RotatesFit
<1>4. QED
  BY <1>1, <1>2, <1>3 DEF AccountsInv

LEMMA RevokedTable ==
    ASSUME AccountsInv, NEW I
    PROVE  /\ Revoked(I) \in Seq(SessionRow) /\ Len(Revoked(I)) = Len(session)
           /\ DOMAIN Revoked(I) = DOMAIN session
           /\ \A i \in DOMAIN session :
                 /\ Revoked(I)[i].kind = session[i].kind /\ Revoked(I)[i].user = session[i].user
                 /\ Revoked(I)[i].password = session[i].password
                 /\ Revoked(I)[i].agents = session[i].agents /\ Revoked(I)[i].late = session[i].late
                 /\ Revoked(I)[i].state = IF i \in I /\ Live(i) THEN "revoked" ELSE session[i].state
<1>1. session \in Seq(SessionRow)
  BY DEF AccountsInv, AccountTypes
<1>2. PICK f : f = Revoked(I)
  OBVIOUS
<1>3. DOMAIN f = DOMAIN session /\ f = [i \in DOMAIN session |-> f[i]]
  BY <1>2 DEF Revoked
<1>4. ASSUME NEW i \in DOMAIN session
      PROVE  /\ f[i] \in SessionRow
             /\ f[i].kind = session[i].kind /\ f[i].user = session[i].user
             /\ f[i].password = session[i].password /\ f[i].agents = session[i].agents
             /\ f[i].late = session[i].late
             /\ f[i].state = IF i \in I /\ Live(i) THEN "revoked" ELSE session[i].state
  <2>1. session[i] \in SessionRow
    BY <1>1, <1>4, LenProperties, ElementOfSeq
  <2>2. PICK t : t = [session[i] EXCEPT !.state = "revoked"]
    OBVIOUS
  <2>3. /\ t \in SessionRow /\ t.kind = session[i].kind /\ t.user = session[i].user
        /\ t.password = session[i].password /\ t.agents = session[i].agents
        /\ t.late = session[i].late /\ t.state = "revoked"
    BY <2>1, <2>2 DEF SessionRow
  <2>4. f[i] = IF i \in I /\ Live(i) THEN t ELSE session[i]
    BY <1>2, <1>4, <2>2 DEF Revoked
  <2>5. QED
    BY <2>1, <2>3, <2>4
<1>5. f \in Seq(SessionRow) /\ Len(f) = Len(session)
  BY <1>1, <1>3, <1>4, RowsOfTable
<1>6. QED
  BY <1>2, <1>3, <1>4, <1>5

LEMMA ResetsStay == ASSUME AccountsInv, UNCHANGED <<user, registry>> PROVE ResetsBelow' /\ RegistryListed'
  BY DEF AccountsInv, ResetsBelow, RegistryListed

\* A step that only ends tokens.
LEMMA EndingStep ==
    ASSUME AccountsInv, UNCHANGED <<user, registry, resetToken, identity>>,
           session' \in Seq(SessionRow), Len(session') = Len(session),
           \A i \in DOMAIN session :
              /\ session'[i].kind = session[i].kind /\ session'[i].user = session[i].user
              /\ session'[i].password = session[i].password
              /\ session'[i].agents = session[i].agents /\ session'[i].late = session[i].late
              /\ session'[i].state = "live" => session[i].state = "live",
           served' \in [AuthThread -> RequestState], authCalls' \in 0 .. MaxAuthCalls,
           \A h \in AuthThread : served'[h].op = "rotate" => served'[h] = served[h],
           \A i \in DOMAIN session : UsableRow(session'[i]) =>
              /\ Revoking(session[i].user) => RevokingThen(session[i].user)
              /\ Syncing(session[i].user) => SyncingThen(session[i].user)
    PROVE  AccountsInv'
<1>1. DOMAIN session' = DOMAIN session
  BY LenProperties DEF AccountsInv, AccountTypes
<1>2. AccountTypes'
  BY DEF AccountsInv, AccountTypes
<1>3. ASSUME NEW i \in DOMAIN session', session'[i].kind = "session"
      PROVE  session'[i].user \in User /\ EndedThen(session'[i]) /\ FollowsThen(session'[i])
  <2>1. i \in DOMAIN session /\ session[i].kind = "session"
    BY <1>1, <1>3
  <2>2. session'[i].user \in User /\ EndedRow(session[i]) /\ Follows(session[i])
    BY <2>1 DEF AccountsInv, OwnedSessions, RowsHold
  <2>3. CASE UsableRow(session'[i])
    BY <2>1, <2>2, <2>3, RowKept
  <2>4. CASE ~UsableRow(session'[i])
    BY <2>2, <2>4 DEF EndedThen, FollowsThen
  <2>5. QED
    BY <2>3, <2>4
<1>4. QED
  BY <1>1, <1>2, <1>3, ResetsStay, TableStep

LEMMA Revokes == ASSUME AccountsInv, NEW h \in AuthThread, NEW i \in DOMAIN session, Revoke(h, i)
                 PROVE  AccountsInv'
<1>1. /\ OneStep(h) /\ session' = Revoked({i})
      /\ UNCHANGED <<user, resetToken, registry, identity>>
  BY DEF Revoke
<1>2. served' = served /\ lost' = lost /\ served' \in [AuthThread -> RequestState]
      /\ authCalls' \in 0 .. MaxAuthCalls
  BY <1>1, AccountsAssumption DEF OneStep, Accept, AccountsInv, AccountTypes
<1>3. \A w : (Revoking(w) => RevokingThen(w)) /\ (Syncing(w) => SyncingThen(w))
  BY <1>2 DEF Revoking, RevokingThen, Syncing, SyncingThen
<1>4. /\ session' \in Seq(SessionRow) /\ Len(session') = Len(session)
      /\ \A j \in DOMAIN session :
            /\ session'[j].kind = session[j].kind /\ session'[j].user = session[j].user
            /\ session'[j].password = session[j].password
            /\ session'[j].agents = session[j].agents /\ session'[j].late = session[j].late
            /\ session'[j].state = "live" => session[j].state = "live"
  BY <1>1, RevokedTable
<1>5. QED
  BY <1>1, <1>2, <1>3, <1>4, EndingStep

LEMMA Expires == ASSUME AccountsInv, NEW i \in DOMAIN session, SessionExpires(i) PROVE AccountsInv'
<1>1. session \in Seq(SessionRow) /\ DOMAIN session = 1 .. Len(session)
  BY LenProperties DEF AccountsInv, AccountTypes
<1>2. session[i] \in SessionRow
  BY <1>1, ElementOfSeq
<1>3. PICK t : t = [session[i] EXCEPT !.state = "expired"]
  OBVIOUS
<1>4. /\ t \in SessionRow /\ t.kind = session[i].kind /\ t.user = session[i].user
      /\ t.password = session[i].password /\ t.agents = session[i].agents
      /\ t.late = session[i].late /\ t.state = "expired"
  BY <1>2, <1>3 DEF SessionRow
<1>5. session' = [session EXCEPT ![i] = t]
  BY <1>3 DEF SessionExpires
<1>6. /\ session' \in Seq(SessionRow) /\ Len(session') = Len(session)
      /\ \A j \in 1 .. Len(session) : session'[j] = IF j = i THEN t ELSE session[j]
  BY <1>1, <1>4, <1>5, ExceptSeq
<1>7. /\ UNCHANGED <<user, resetToken, registry, identity, served, lost>>
      /\ authCalls' \in 0 .. MaxAuthCalls /\ served' \in [AuthThread -> RequestState]
  BY DEF SessionExpires, AccountsInv, AccountTypes
<1>8. \A w : (Revoking(w) => RevokingThen(w)) /\ (Syncing(w) => SyncingThen(w))
  BY <1>7 DEF Revoking, RevokingThen, Syncing, SyncingThen
<1>9. \A j \in DOMAIN session :
            /\ session'[j].kind = session[j].kind /\ session'[j].user = session[j].user
            /\ session'[j].password = session[j].password
            /\ session'[j].agents = session[j].agents /\ session'[j].late = session[j].late
            /\ session'[j].state = "live" => session[j].state = "live"
  BY <1>1, <1>4, <1>6
<1>10. QED
  BY <1>6, <1>7, <1>8, <1>9, EndingStep

\* The second commit of a reset: no session of the account is left to it.
LEMMA ResetsRevoke == ASSUME AccountsInv, NEW h \in AuthThread, ResetRevoke(h) PROVE AccountsInv'
<1>1. served[h].op = "revoke" /\ served[h] \in RequestState
  BY DEF ResetRevoke, AccountsInv, AccountTypes
<1>2. PICK u : u = served[h].user
  OBVIOUS
<1>3. /\ Continue(h, Idle) /\ session' = Revoked(SessionsOf(u))
      /\ UNCHANGED <<user, resetToken, registry, identity>>
  BY <1>2 DEF ResetRevoke
<1>4. Idle \in RequestState /\ Idle.op # "rotate"
  BY NextStates DEF Idle
<1>5. /\ served' = [served EXCEPT ![h] = Idle] /\ served' \in [AuthThread -> RequestState]
      /\ authCalls' \in 0 .. MaxAuthCalls /\ lost' = lost
  <2>1. served \in [AuthThread -> RequestState] /\ authCalls \in 0 .. MaxAuthCalls
    BY DEF AccountsInv, AccountTypes
  <2>2. QED
    BY <1>3, <1>4, <2>1, RequestMoves
<1>6. \A x \in AuthThread : served'[x].op = "rotate" => served'[x] = served[x]
  BY <1>4, <1>5 DEF AccountsInv, AccountTypes
<1>7. /\ session' \in Seq(SessionRow) /\ Len(session') = Len(session)
      /\ \A j \in DOMAIN session :
            /\ session'[j].kind = session[j].kind /\ session'[j].user = session[j].user
            /\ session'[j].password = session[j].password
            /\ session'[j].agents = session[j].agents /\ session'[j].late = session[j].late
            /\ session'[j].state = "live" => session[j].state = "live"
  BY <1>3, RevokedTable
<1>8. ASSUME NEW j \in DOMAIN session, UsableRow(session'[j])
      PROVE  /\ Revoking(session[j].user) => RevokingThen(session[j].user)
             /\ Syncing(session[j].user) => SyncingThen(session[j].user)
  <2>1. session'[j].kind = "session" /\ session'[j].state = "live"
    BY <1>8 DEF UsableRow
  <2>2. session[j].kind = "session" /\ Live(j) /\ j \notin SessionsOf(u)
    BY <1>3, <1>7, <2>1, RevokedTable DEF Live
  <2>3. session[j].user # u
    BY <2>2 DEF SessionsOf
  <2>4. served[h] # [op |-> "revoke", user |-> session[j].user]
    BY <1>2, <2>3
  <2>5. ~(served[h].op = "tokens" /\ served[h].user = session[j].user)
    BY <1>1
  <2>6. served \in [AuthThread -> RequestState]
    BY DEF AccountsInv, AccountTypes
  <2>7. QED
    BY <1>5, <2>4, <2>5, <2>6, RequestLeaves
<1>9. QED
  BY <1>3, <1>5, <1>6, <1>7, <1>8, EndingStep

\* A request that issues a token and is done.
LEMMA IssuingStep ==
    ASSUME AccountsInv, NEW h \in AuthThread, served[h].op \notin {"revoke", "tokens"}, Continue(h, Idle),
           NEW T \in Seq(SessionRow), Len(T) = Len(session),
           \A i \in DOMAIN session :
              /\ T[i].kind = session[i].kind /\ T[i].user = session[i].user
              /\ T[i].password = session[i].password
              /\ T[i].agents = session[i].agents /\ T[i].late = session[i].late
              /\ T[i].state = "live" => session[i].state = "live",
           NEW row \in SessionRow, session' = Append(T, row), Len(session) < MaxSession,
           UNCHANGED <<resetToken, registry, identity>>, user' \in [User -> UserRow],
           \A u \in User : user'[u].reset = user[u].reset /\ user[u].password <= user'[u].password,
           row.kind = "session" => row.user \in User /\ EndedThen(row) /\ FollowsThen(row)
    PROVE  AccountsInv'
<1>1. Idle \in RequestState /\ Idle.op # "rotate"
  BY NextStates DEF Idle
<1>2. /\ served' = [served EXCEPT ![h] = Idle] /\ served' \in [AuthThread -> RequestState]
      /\ authCalls' \in 0 .. MaxAuthCalls /\ lost' = lost /\ served \in [AuthThread -> RequestState]
  <2>1. served \in [AuthThread -> RequestState] /\ authCalls \in 0 .. MaxAuthCalls
    BY DEF AccountsInv, AccountTypes
  <2>2. QED
    BY <1>1, <2>1, RequestMoves
<1>3. \A x \in AuthThread : served'[x].op = "rotate" => served'[x] = served[x]
  BY <1>1, <1>2
<1>4. session \in Seq(SessionRow) /\ Len(session) \in Nat /\ DOMAIN session = 1 .. Len(session)
  BY LenProperties DEF AccountsInv, AccountTypes
<1>5. /\ session' \in Seq(SessionRow) /\ Len(session') = Len(session) + 1
      /\ \A j \in 1 .. Len(session) : session'[j] = T[j]
      /\ session'[Len(session) + 1] = row
  BY AppendProperties
<1>6. DOMAIN session' = 1 .. Len(session) + 1
  BY <1>5, LenProperties
<1>7. AccountTypes'
  <2>1. Len(session') <= MaxSession
    BY <1>4, <1>5, AccountsAssumption
  <2>2. QED
    BY <1>2, <1>5, <2>1 DEF AccountsInv, AccountTypes
<1>8. ResetsBelow' /\ RegistryListed'
  <2>1. RegistryListed'
    BY DEF AccountsInv, RegistryListed
  <2>2. SUFFICES ASSUME NEW u \in User PROVE user'[u].reset <= user'[u].password
    BY <2>1 DEF ResetsBelow
  <2>3. user[u] \in UserRow /\ user'[u] \in UserRow /\ user[u].reset <= user[u].password
    BY DEF AccountsInv, AccountTypes, ResetsBelow
  <2>4. user[u].reset \in Nat /\ user[u].password \in Nat /\ user'[u].password \in Nat
    BY <2>3 DEF UserRow
  <2>5. QED
    BY <2>3, <2>4
<1>9. \A i \in DOMAIN session : i \in DOMAIN session' /\ session'[i].kind = session[i].kind
  BY <1>4, <1>5, <1>6
<1>10. ASSUME NEW i \in DOMAIN session', session'[i].kind = "session"
       PROVE  session'[i].user \in User /\ EndedThen(session'[i]) /\ FollowsThen(session'[i])
  <2>1. CASE i = Len(session) + 1
    BY <1>5, <1>10, <2>1
  <2>2. CASE i \in DOMAIN session
    <3>1. session[i].kind = "session" /\ session'[i] = T[i]
      BY <1>4, <1>5, <1>9, <1>10, <2>2
    <3>2. session[i].user \in User /\ EndedRow(session[i]) /\ Follows(session[i])
      BY <2>2, <3>1 DEF AccountsInv, OwnedSessions, RowsHold
    <3>3. /\ Revoking(session[i].user) => RevokingThen(session[i].user)
          /\ Syncing(session[i].user) => SyncingThen(session[i].user)
      <4>1. served[h] # [op |-> "revoke", user |-> session[i].user]
            /\ ~(served[h].op = "tokens" /\ served[h].user = session[i].user)
        OBVIOUS
      <4>2. QED
        BY <1>2, <4>1, RequestLeaves
    <3>4. EndedThen(T[i]) /\ FollowsThen(T[i])
      BY <2>2, <3>1, <3>2, <3>3, RowKept
    <3>5. QED
      BY <2>2, <3>1, <3>2, <3>4
  <2>3. QED
    BY <1>4, <1>6, <2>1, <2>2
<1>11. QED
  BY <1>3, <1>7, <1>8, <1>9, <1>10, TableStep

\* The table as it is, as the table an issued token joins.
LEMMA SameTable ==
    ASSUME AccountsInv
    PROVE  session \in Seq(SessionRow) /\ Len(session) \in Nat /\ Len(session) <= MaxSession
  BY LenProperties DEF AccountsInv, AccountTypes

LEMMA KeysIssued == ASSUME AccountsInv, NEW h \in AuthThread, KeyIssue(h) PROVE AccountsInv'
<1>1. PICK row : row = [kind |-> "key", user |-> CHOOSE u \in User : TRUE, password |-> 0,
                        agents |-> {}, state |-> "live", late |-> FALSE]
  OBVIOUS
<1>2. row \in SessionRow /\ row.kind # "session"
  BY <1>1 DEF SessionRow
<1>3. /\ session' = Append(session, row) /\ Len(session) < MaxSession /\ served[h].op = "key"
      /\ Continue(h, Idle) /\ UNCHANGED <<user, resetToken, registry, identity>>
  BY <1>1 DEF KeyIssue, Append1
<1>4. user' \in [User -> UserRow]
      /\ \A u \in User : user'[u].reset = user[u].reset /\ user[u].password <= user'[u].password
  BY <1>3, RowFields DEF AccountsInv, AccountTypes
<1>5. QED
  BY <1>2, <1>3, <1>4, SameTable, IssuingStep

\* A row that was read carries no on-chain agent of its own.
LEMMA EffectiveFollows ==
    ASSUME AccountsInv, NEW u \in User, NEW row \in UserRow
    PROVE  /\ EffectiveAgents(u, row) \in SUBSET (ChainAgent \cup LocalAgent)
           /\ EffectiveAgents(u, row) \cap ChainAgent \subseteq registry[u].agents
<1>1. row.local \subseteq LocalAgent
  BY DEF UserRow
<1>2. registry[u].agents \subseteq ChainAgent
  BY DEF AccountsInv, AccountTypes, RegistryRow
<1>3. QED
  BY <1>1, <1>2, AccountsAssumption DEF EffectiveAgents

LEMMA LoginsIssue == ASSUME AccountsInv, NEW h \in AuthThread, LoginIssue(h) PROVE AccountsInv'
<1>1. served[h].op = "issue" /\ served[h] \in RequestState
  BY DEF LoginIssue, AccountsInv, AccountTypes
<1>2. PICK u : u = served[h].user
  OBVIOUS
<1>3. PICK was : was = served[h].row
  OBVIOUS
<1>4. u \in User /\ was \in UserRow
  BY <1>1, <1>2, <1>3, StateFields
<1>5. PICK edited : edited = [user[u] EXCEPT !.failed = 0, !.locked = FALSE]
  OBVIOUS
<1>6. edited \in UserRow /\ edited.reset = user[u].reset /\ edited.password = user[u].password
  BY <1>4, <1>5, RowFields DEF UserRow
<1>7. PICK late \in BOOLEAN : late = (was.password # user[u].password)
  OBVIOUS
<1>8. PICK row : row = [kind |-> "session", user |-> u, password |-> was.password,
                        agents |-> EffectiveAgents(u, was), state |-> "live", late |-> late]
  OBVIOUS
<1>9. was.password \in Nat /\ EffectiveAgents(u, was) \in SUBSET (ChainAgent \cup LocalAgent)
      /\ EffectiveAgents(u, was) \cap ChainAgent \subseteq registry[u].agents
  BY <1>4, EffectiveFollows DEF UserRow
<1>10. row \in SessionRow
  BY <1>4, <1>8, <1>9 DEF SessionRow
<1>11. /\ user' = [user EXCEPT ![u] = edited] /\ session' = Append(session, row)
       /\ Len(session) < MaxSession /\ Continue(h, Idle)
       /\ UNCHANGED <<resetToken, registry, identity>>
  BY <1>2, <1>3, <1>4, <1>5, <1>7, <1>8 DEF LoginIssue, Append1, AccountsInv, AccountTypes
<1>12. /\ user' \in [User -> UserRow]
       /\ \A w \in User : user'[w].reset = user[w].reset /\ user[w].password <= user'[w].password
  <2>1. user[u].password <= edited.password
    BY <1>4, <1>6, RowFields
  <2>2. QED
    BY <1>4, <1>6, <1>11, <2>1, RowWritten
<1>13. EndedThen(row)
  <2>1. SUFFICES ASSUME row.password < user'[u].reset PROVE row.late
    BY <1>8 DEF EndedThen
  <2>2. was.password < user[u].reset /\ user[u].reset <= user[u].password
    BY <1>4, <1>8, <1>12, <2>1 DEF AccountsInv, ResetsBelow
  <2>3. user[u].reset \in Nat /\ user[u].password \in Nat
    BY <1>4, RowFields DEF UserRow
  <2>4. was.password # user[u].password
    BY <1>9, <2>2, <2>3
  <2>5. QED
    BY <1>7, <1>8, <2>4
<1>14. FollowsThen(row)
  BY <1>8, <1>9, <1>11 DEF FollowsThen
<1>15. QED
  BY <1>1, <1>4, <1>8, <1>10, <1>11, <1>12, <1>13, <1>14, SameTable, IssuingStep

LEMMA Rotates == ASSUME AccountsInv, NEW h \in AuthThread, RotateWrite(h) PROVE AccountsInv'
<1>1. served[h].op = "rotate" /\ served[h] \in RequestState
  BY DEF RotateWrite, AccountsInv, AccountTypes
<1>2. PICK i : i = served[h].token
  OBVIOUS
<1>3. PICK was : was = served[h].row
  OBVIOUS
<1>4. i \in DOMAIN session /\ session[i].kind = "session" /\ was \in UserRow
  BY <1>1, <1>2, <1>3, StateFields DEF AccountsInv, RotatesFit
<1>5. PICK u \in User : u = session[i].user
  BY <1>4 DEF AccountsInv, OwnedSessions
<1>6. session[i] \in SessionRow
  BY <1>4, SameTable, LenProperties, ElementOfSeq
<1>7. PICK late \in BOOLEAN : late = (session[i].late \/ ~Live(i))
  OBVIOUS
<1>8. EffectiveAgents(u, was) \in SUBSET (ChainAgent \cup LocalAgent)
      /\ EffectiveAgents(u, was) \cap ChainAgent \subseteq registry[u].agents
  BY <1>4, EffectiveFollows
<1>9. PICK row : row = [session[i] EXCEPT !.state = "live", !.late = late,
                                          !.agents = EffectiveAgents(u, was)]
  OBVIOUS
<1>10. /\ row \in SessionRow /\ row.kind = "session" /\ row.user = u
       /\ row.password = session[i].password /\ row.late = late
       /\ row.agents = EffectiveAgents(u, was)
  BY <1>4, <1>5, <1>6, <1>8, <1>9 DEF SessionRow
<1>11. /\ session' = Append(Revoked({i}), row) /\ Len(session) < MaxSession
       /\ Continue(h, Idle) /\ UNCHANGED <<user, resetToken, registry, identity>>
  BY <1>2, <1>3, <1>5, <1>7, <1>9 DEF RotateWrite
<1>12. user' \in [User -> UserRow]
       /\ \A w \in User : user'[w].reset = user[w].reset /\ user[w].password <= user'[w].password
  BY <1>11, RowFields DEF AccountsInv, AccountTypes
<1>13. EndedThen(row)
  <2>1. SUFFICES ASSUME row.password < user'[u].reset, ~row.late PROVE RevokingThen(u)
    BY <1>10 DEF EndedThen
  <2>2. UsableRow(session[i]) /\ ~session[i].late
    BY <1>4, <1>7, <1>10, <2>1 DEF UsableRow, Live
  <2>3. Revoking(u)
    BY <1>4, <1>5, <1>10, <1>11, <2>1, <2>2 DEF AccountsInv, RowsHold, EndedRow
  <2>4. served[h] # [op |-> "revoke", user |-> u] /\ ~(served[h].op = "tokens" /\ served[h].user = u)
    BY <1>1
  <2>5. served' = [served EXCEPT ![h] = Idle] /\ lost' = lost /\ served \in [AuthThread -> RequestState]
    BY <1>11 DEF Continue, AccountsInv, AccountTypes
  <2>6. QED
    BY <2>3, <2>4, <2>5, RequestLeaves
<1>14. FollowsThen(row)
  BY <1>8, <1>10, <1>11 DEF FollowsThen
<1>15. /\ Revoked({i}) \in Seq(SessionRow) /\ Len(Revoked({i})) = Len(session)
       /\ \A j \in DOMAIN session :
             /\ Revoked({i})[j].kind = session[j].kind /\ Revoked({i})[j].user = session[j].user
             /\ Revoked({i})[j].password = session[j].password
             /\ Revoked({i})[j].agents = session[j].agents /\ Revoked({i})[j].late = session[j].late
             /\ Revoked({i})[j].state = "live" => session[j].state = "live"
  BY RevokedTable
<1>16. QED
  BY <1>1, <1>10, <1>11, <1>12, <1>13, <1>14, <1>15, IssuingStep

\* The first commit of a reset: its request goes on to the second.
LEMMA Resets == ASSUME AccountsInv, NEW h \in AuthThread, ResetWrite(h) PROVE AccountsInv'
<1>1. served[h].op = "reset" /\ served[h] \in RequestState
  BY DEF ResetWrite, AccountsInv, AccountTypes
<1>2. PICK u : u = served[h].user
  OBVIOUS
<1>3. u \in User
  BY <1>1, <1>2, StateFields
<1>4. PICK n \in Nat : n = user[u].password + 1
  BY <1>3, RowFields
<1>5. PICK row : row = [user[u] EXCEPT !.password = n, !.failed = 0, !.locked = FALSE, !.reset = n]
  OBVIOUS
<1>6. row \in UserRow /\ row.reset = n /\ row.password = n
  <2>1. user[u] \in UserRow
    BY <1>3, RowFields
  <2>2. QED
    BY <1>5, <2>1 DEF UserRow
<1>7. PICK next : next = [op |-> "revoke", user |-> u]
  OBVIOUS
<1>8. next \in RequestState /\ next.op = "revoke"
  BY <1>3, <1>7, NextStates
<1>9. /\ user' = [user EXCEPT ![u] = row] /\ resetToken' = [resetToken EXCEPT ![u] = "used"]
      /\ Continue(h, next) /\ UNCHANGED <<session, registry, identity>>
  BY <1>2, <1>3, <1>4, <1>5, <1>7 DEF ResetWrite, AccountsInv, AccountTypes
<1>10. /\ served' = [served EXCEPT ![h] = next] /\ served' \in [AuthThread -> RequestState]
       /\ authCalls' \in 0 .. MaxAuthCalls /\ lost' = lost /\ served \in [AuthThread -> RequestState]
  <2>1. served \in [AuthThread -> RequestState] /\ authCalls \in 0 .. MaxAuthCalls
    BY DEF AccountsInv, AccountTypes
  <2>2. QED
    BY <1>8, <1>9, <2>1, RequestMoves
<1>11. AccountTypes'
  BY <1>3, <1>6, <1>9, <1>10 DEF AccountsInv, AccountTypes
<1>12. ResetsBelow' /\ RegistryListed'
  <2>1. RegistryListed'
    BY <1>9 DEF AccountsInv, RegistryListed
  <2>2. \A w \in User : w # u => user'[w] = user[w]
    BY <1>9 DEF AccountsInv, AccountTypes
  <2>3. user'[u].reset = n /\ user'[u].password = n /\ n <= n
    BY <1>3, <1>4, <1>6, <1>9 DEF AccountsInv, AccountTypes
  <2>4. QED
    BY <2>1, <2>2, <2>3 DEF AccountsInv, ResetsBelow
<1>13. RevokingThen(u)
  BY <1>7, <1>10 DEF RevokingThen
<1>14. ASSUME NEW i \in DOMAIN session', session'[i].kind = "session"
       PROVE  session'[i].user \in User /\ EndedThen(session'[i]) /\ FollowsThen(session'[i])
  <2>1. /\ session'[i] = session[i] /\ session[i].user \in User
        /\ EndedRow(session[i]) /\ Follows(session[i])
    BY <1>9, <1>14 DEF AccountsInv, OwnedSessions, RowsHold
  <2>2. /\ Revoking(session[i].user) => RevokingThen(session[i].user)
        /\ Syncing(session[i].user) => SyncingThen(session[i].user)
    <3>1. served[h] # [op |-> "revoke", user |-> session[i].user]
          /\ ~(served[h].op = "tokens" /\ served[h].user = session[i].user)
      BY <1>1
    <3>2. QED
      BY <1>10, <3>1, RequestLeaves
  <2>3. CASE session[i].user = u
    BY <1>9, <1>13, <2>1, <2>2, <2>3 DEF EndedThen, Follows, FollowsThen
  <2>4. CASE session[i].user # u
    <3>1. user'[session[i].user].reset = user[session[i].user].reset
      BY <1>9, <2>1, <2>4 DEF AccountsInv, AccountTypes
    <3>2. registry'[session[i].user] = registry[session[i].user]
      BY <1>9
    <3>3. QED
      BY <2>1, <2>2, <3>1, <3>2, RowKept
  <2>5. QED
    BY <2>3, <2>4
<1>15. \A x \in AuthThread : served'[x].op = "rotate" => served'[x] = served[x]
  BY <1>8, <1>10
<1>16. \A i \in DOMAIN session : i \in DOMAIN session' /\ session'[i].kind = session[i].kind
  BY <1>9
<1>17. QED
  BY <1>11, <1>12, <1>14, <1>15, <1>16, TableStep

\* The registrations of a snapshot: the tokens follow in a transaction of their own.
LEMMA SyncsWrite == ASSUME AccountsInv, NEW h \in AuthThread, SyncWrite(h) PROVE AccountsInv'
<1>1. served[h].op = "sync" /\ served[h] \in RequestState
  BY DEF SyncWrite, AccountsInv, AccountTypes
<1>2. PICK u : u = served[h].user
  OBVIOUS
<1>3. PICK b : b = served[h].block
  OBVIOUS
<1>4. u \in User /\ b \in 0 .. MaxBlock
      /\ served[h] \in [op : {"sync", "tokens"}, user : User, block : 0 .. MaxBlock]
  BY <1>1, <1>2, <1>3, StateFields
<1>5. b \in Int /\ 0 <= b /\ b # -1 /\ b \in -1 .. MaxBlock
  BY <1>4, AccountsAssumption
<1>6. Listed(b) \in SUBSET ChainAgent
  BY DEF Listed
<1>7. PICK row : row = [registry[u] EXCEPT !.block = b, !.agents = Listed(b)]
  OBVIOUS
<1>8. row \in RegistryRow /\ row.block = b /\ row.agents = Listed(b)
  <2>1. registry[u] \in RegistryRow
    BY <1>4 DEF AccountsInv, AccountTypes
  <2>2. QED
    BY <1>5, <1>6, <1>7, <2>1 DEF RegistryRow
<1>9. PICK next : next = [served[h] EXCEPT !.op = "tokens"]
  OBVIOUS
<1>10. next \in RequestState /\ next.op = "tokens" /\ next.user = u
  <2>1. next \in [op : {"sync", "tokens"}, user : User, block : 0 .. MaxBlock]
        /\ next.op = "tokens" /\ next.user = u
    BY <1>2, <1>4, <1>9
  <2>2. QED
    BY <2>1 DEF RequestState
<1>11. /\ registry' = [registry EXCEPT ![u] = row] /\ Continue(h, next)
       /\ UNCHANGED <<user, session, resetToken, identity>>
  BY <1>2, <1>3, <1>4, <1>7, <1>9 DEF SyncWrite, AccountsInv, AccountTypes
<1>12. /\ served' = [served EXCEPT ![h] = next] /\ served' \in [AuthThread -> RequestState]
       /\ authCalls' \in 0 .. MaxAuthCalls /\ lost' = lost /\ served \in [AuthThread -> RequestState]
  <2>1. served \in [AuthThread -> RequestState] /\ authCalls \in 0 .. MaxAuthCalls
    BY DEF AccountsInv, AccountTypes
  <2>2. QED
    BY <1>10, <1>11, <2>1, RequestMoves
<1>13. AccountTypes'
  BY <1>4, <1>8, <1>11, <1>12 DEF AccountsInv, AccountTypes
<1>14. ResetsBelow' /\ RegistryListed'
  <2>1. ResetsBelow'
    BY <1>11 DEF AccountsInv, ResetsBelow
  <2>2. \A w \in User : w # u => registry'[w] = registry[w]
    BY <1>11 DEF AccountsInv, AccountTypes
  <2>3. registry'[u] = row
    BY <1>4, <1>11 DEF AccountsInv, AccountTypes
  <2>4. QED
    BY <1>5, <1>8, <2>1, <2>2, <2>3 DEF AccountsInv, RegistryListed
<1>15. SyncingThen(u)
  BY <1>10, <1>12 DEF SyncingThen
<1>16. ASSUME NEW i \in DOMAIN session', session'[i].kind = "session"
       PROVE  session'[i].user \in User /\ EndedThen(session'[i]) /\ FollowsThen(session'[i])
  <2>1. /\ session'[i] = session[i] /\ session[i].user \in User
        /\ EndedRow(session[i]) /\ Follows(session[i])
    BY <1>11, <1>16 DEF AccountsInv, OwnedSessions, RowsHold
  <2>2. /\ Revoking(session[i].user) => RevokingThen(session[i].user)
        /\ Syncing(session[i].user) => SyncingThen(session[i].user)
    <3>1. served[h] # [op |-> "revoke", user |-> session[i].user]
          /\ ~(served[h].op = "tokens" /\ served[h].user = session[i].user)
      BY <1>1
    <3>2. QED
      BY <1>12, <3>1, RequestLeaves
  <2>3. CASE session[i].user = u
    BY <1>11, <1>15, <2>1, <2>2, <2>3 DEF EndedRow, EndedThen, FollowsThen
  <2>4. CASE session[i].user # u
    <3>1. registry'[session[i].user] = registry[session[i].user]
      BY <1>11, <2>1, <2>4 DEF AccountsInv, AccountTypes
    <3>2. user'[session[i].user].reset = user[session[i].user].reset
      BY <1>11
    <3>3. QED
      BY <2>1, <2>2, <3>1, <3>2, RowKept
  <2>5. QED
    BY <2>3, <2>4
<1>17. \A x \in AuthThread : served'[x].op = "rotate" => served'[x] = served[x]
  BY <1>10, <1>12
<1>18. \A i \in DOMAIN session : i \in DOMAIN session' /\ session'[i].kind = session[i].kind
  BY <1>11
<1>19. QED
  BY <1>13, <1>14, <1>16, <1>17, <1>18, TableStep

\* The tokens follow a snapshot: they carry its agents, or the row says another came between.
LEMMA SyncsTokens == ASSUME AccountsInv, NEW h \in AuthThread, SyncTokens(h) PROVE AccountsInv'
<1>1. served[h].op = "tokens" /\ served[h] \in RequestState
  BY DEF SyncTokens, AccountsInv, AccountTypes
<1>2. PICK u : u = served[h].user
  OBVIOUS
<1>3. PICK b : b = served[h].block
  OBVIOUS
<1>4. u \in User /\ b \in 0 .. MaxBlock
  BY <1>1, <1>2, <1>3, StateFields
<1>5. b # -1 /\ Listed(b) \in SUBSET (ChainAgent \cup LocalAgent)
  <2>1. b \in Int /\ 0 <= b
    BY <1>4, AccountsAssumption
  <2>2. QED
    BY <2>1 DEF Listed
<1>6. PICK crossed \in BOOLEAN : crossed = (registry[u].block # b)
  OBVIOUS
<1>7. PICK row : row = [registry[u] EXCEPT !.crossed = crossed]
  OBVIOUS
<1>8. /\ row \in RegistryRow /\ row.block = registry[u].block
      /\ row.agents = registry[u].agents /\ row.crossed = crossed
  <2>1. registry[u] \in RegistryRow
    BY <1>4 DEF AccountsInv, AccountTypes
  <2>2. QED
    BY <1>7, <2>1 DEF RegistryRow
<1>9. PICK f : f = [i \in DOMAIN session |->
                      IF i \in SessionsOf(u) /\ session[i].state # "revoked"
                      THEN [session[i] EXCEPT !.agents = Listed(b)] ELSE session[i]]
  OBVIOUS
<1>10. /\ registry' = [registry EXCEPT ![u] = row] /\ session' = f /\ Continue(h, Idle)
       /\ UNCHANGED <<user, resetToken, identity>>
  BY <1>2, <1>3, <1>4, <1>6, <1>7, <1>9 DEF SyncTokens, Crossed, AccountsInv, AccountTypes
<1>11. ASSUME NEW i \in DOMAIN session
       PROVE  /\ f[i] \in SessionRow /\ f[i].kind = session[i].kind /\ f[i].user = session[i].user
              /\ f[i].password = session[i].password /\ f[i].late = session[i].late
              /\ f[i].state = session[i].state
              /\ f[i].agents = IF i \in SessionsOf(u) /\ session[i].state # "revoked"
                               THEN Listed(b) ELSE session[i].agents
  <2>1. session[i] \in SessionRow
    BY <1>11, SameTable, LenProperties, ElementOfSeq
  <2>2. PICK t : t = [session[i] EXCEPT !.agents = Listed(b)]
    OBVIOUS
  <2>3. /\ t \in SessionRow /\ t.kind = session[i].kind /\ t.user = session[i].user
        /\ t.password = session[i].password /\ t.late = session[i].late
        /\ t.state = session[i].state /\ t.agents = Listed(b)
    BY <1>5, <2>1, <2>2 DEF SessionRow
  <2>4. f[i] = IF i \in SessionsOf(u) /\ session[i].state # "revoked" THEN t ELSE session[i]
    BY <1>9, <1>11, <2>2
  <2>5. QED
    BY <2>1, <2>3, <2>4
<1>12. f \in Seq(SessionRow) /\ Len(f) = Len(session) /\ DOMAIN f = DOMAIN session
  <2>1. DOMAIN f = DOMAIN session /\ f = [i \in DOMAIN session |-> f[i]]
    BY <1>9
  <2>2. QED
    BY <1>11, <2>1, SameTable, RowsOfTable
<1>13. Idle \in RequestState /\ Idle.op # "rotate"
  BY NextStates DEF Idle
<1>14. /\ served' = [served EXCEPT ![h] = Idle] /\ served' \in [AuthThread -> RequestState]
       /\ authCalls' \in 0 .. MaxAuthCalls /\ lost' = lost /\ served \in [AuthThread -> RequestState]
  <2>1. served \in [AuthThread -> RequestState] /\ authCalls \in 0 .. MaxAuthCalls
    BY DEF AccountsInv, AccountTypes
  <2>2. QED
    BY <1>10, <1>13, <2>1, RequestMoves
<1>15. AccountTypes'
  BY <1>4, <1>8, <1>10, <1>12, <1>14, SameTable DEF AccountsInv, AccountTypes
<1>16. registry'[u] = row /\ \A w \in User : w # u => registry'[w] = registry[w]
  BY <1>4, <1>10 DEF AccountsInv, AccountTypes
<1>17. ResetsBelow' /\ RegistryListed'
  BY <1>8, <1>10, <1>16 DEF AccountsInv, ResetsBelow, RegistryListed
<1>18. ASSUME NEW i \in DOMAIN session', session'[i].kind = "session"
       PROVE  session'[i].user \in User /\ EndedThen(session'[i]) /\ FollowsThen(session'[i])
  <2>1. /\ i \in DOMAIN session /\ session[i].kind = "session" /\ session'[i].user = session[i].user
        /\ session[i].user \in User /\ EndedRow(session[i]) /\ Follows(session[i])
    <3>1. i \in DOMAIN session
      BY <1>10, <1>12, <1>18
    <3>2. session[i].kind = "session" /\ session'[i].user = session[i].user
      BY <1>10, <1>11, <1>18, <3>1
    <3>3. QED
      BY <3>1, <3>2 DEF AccountsInv, OwnedSessions, RowsHold
  <2>2. Revoking(session[i].user) => RevokingThen(session[i].user)
    <3>1. served[h] # [op |-> "revoke", user |-> session[i].user]
      BY <1>1
    <3>2. QED
      BY <1>14, <3>1, RequestLeaves
  <2>3. EndedThen(session'[i])
    BY <1>10, <1>11, <2>1, <2>2 DEF EndedRow, EndedThen, UsableRow
  <2>4. CASE session[i].user = u
    <3>1. i \in SessionsOf(u)
      BY <2>1, <2>4 DEF SessionsOf
    <3>2. SUFFICES ASSUME session'[i].state = "live", ~registry'[u].crossed
                   PROVE  session'[i].agents \cap ChainAgent \subseteq registry'[u].agents
      BY <2>1, <2>3, <2>4 DEF FollowsThen, UsableRow
    <3>3. registry[u].block = b
      BY <1>6, <1>8, <1>16, <3>2
    <3>4. registry[u].agents = Listed(b)
      BY <1>4, <1>5, <3>3 DEF AccountsInv, RegistryListed
    <3>5. session'[i].agents = Listed(b)
      BY <1>10, <1>11, <2>1, <3>1, <3>2
    <3>6. QED
      BY <1>8, <1>16, <3>4, <3>5
  <2>5. CASE session[i].user # u
    <3>1. i \notin SessionsOf(u)
      BY <2>5 DEF SessionsOf
    <3>2. session'[i].agents = session[i].agents /\ session'[i].state = session[i].state
      BY <1>10, <1>11, <2>1, <3>1
    <3>3. Syncing(session[i].user) => SyncingThen(session[i].user)
      <4>1. ~(served[h].op = "tokens" /\ served[h].user = session[i].user)
            /\ served[h] # [op |-> "revoke", user |-> session[i].user]
        BY <1>1, <1>2, <2>5
      <4>2. QED
        BY <1>14, <4>1, RequestLeaves
    <3>4. registry'[session[i].user] = registry[session[i].user]
      BY <1>16, <2>1, <2>5
    <3>5. QED
      BY <2>1, <2>3, <3>2, <3>3, <3>4, <1>18 DEF Follows, FollowsThen, UsableRow
  <2>6. QED
    BY <2>1, <2>3, <2>4, <2>5
<1>19. \A x \in AuthThread : served'[x].op = "rotate" => served'[x] = served[x]
  BY <1>13, <1>14
<1>20. \A i \in DOMAIN session : i \in DOMAIN session' /\ session'[i].kind = session[i].kind
  BY <1>10, <1>11, <1>12
<1>21. QED
  BY <1>15, <1>17, <1>18, <1>19, <1>20, TableStep

LEMMA NextAccountsInv == AccountsInv /\ [AccountsNext]_accountsVars => AccountsInv'
<1> SUFFICES ASSUME AccountsInv, [AccountsNext]_accountsVars PROVE AccountsInv'
  OBVIOUS
<1>1. CASE UNCHANGED accountsVars
  BY <1>1 DEF accountsVars, AccountsInv, AccountTypes, OwnedSessions, RotatesFit, RegistryListed,
              ResetsBelow, RowsHold, EndedRow, Follows, Revoking, Syncing
<1>2. ASSUME NEW h \in AuthThread, NEW u \in User,
             \/ \E approved \in BOOLEAN : CreateAccount(h, u, approved)
             \/ ApproveAccount(h, u)
             \/ \E right \in BOOLEAN : LoginRead(h, u, right)
             \/ \E delivered \in BOOLEAN : RequestReset(h, u, delivered)
             \/ ResetRead(h, u)
             \/ \E agents \in SUBSET LocalAgent : SetLocalAgents(h, u, agents)
             \/ \E b \in 0 .. MaxBlock : SyncRead(h, u, b)
      PROVE  AccountsInv'
  BY <1>2, AccountSteps, LoginReads, ResetRequests, ResetReads, SyncReads
<1>3. ASSUME NEW h \in AuthThread,
             \/ LoginFail(h) \/ LoginIssue(h) \/ RotateWrite(h) \/ ChangePasswordWrite(h)
             \/ ResetWrite(h) \/ ResetRevoke(h) \/ SyncWrite(h) \/ SyncTokens(h)
             \/ KeyCount(h) \/ KeyIssue(h) \/ OAuthCreate(h) \/ OAuthLink(h)
      PROVE  AccountsInv'
  BY <1>3, LoginFails, LoginsIssue, Rotates, PasswordChanges, Resets, ResetsRevoke,
     SyncsWrite, SyncsTokens, KeyCounts, KeysIssued, SignInCreates, SignInLinks
<1>4. ASSUME NEW h \in AuthThread, NEW d \in Identity, OAuthCallback(h, d) PROVE AccountsInv'
  BY <1>4, SignInReads
<1>5. ASSUME NEW h \in AuthThread, NEW i \in DOMAIN session,
             RotateRead(h, i) \/ Revoke(h, i) \/ ChangePasswordRead(h, i)
      PROVE  AccountsInv'
  BY <1>5, TokenReads, Revokes
<1>6. ASSUME NEW u \in User, LockRunsOut(u) PROVE AccountsInv'
  BY <1>6, LocksRunOut
<1>7. ASSUME NEW i \in DOMAIN session, SessionExpires(i) PROVE AccountsInv'
  BY <1>7, Expires
<1>8. CASE AuthRestart
  BY <1>8, Restarts
<1>9. QED
  BY <1>1, <1>2, <1>3, <1>4, <1>5, <1>6, <1>7, <1>8 DEF AccountsNext

LEMMA AlwaysAccountsInv == AccountsSpec => []AccountsInv
  BY InitAccountsInv, NextAccountsInv, PTL DEF AccountsSpec

(***************************************************************************)
(* However sign-ins, resets, rotations, revocations and registry reads of  *)
(* whatever accounts overlap, and wherever the service restarts, a reset   *)
(* ends the sessions of the old password, but those whose request had read *)
(* the account before it, and no live session carries an on-chain agent    *)
(* that the applied snapshot does not list, but after two syncs that       *)
(* crossed (issue_account_session, rotate, reset_password,                 *)
(* sync_account_registrations).                                            *)
(***************************************************************************)
THEOREM AccountsAlwaysHold == AccountsSpec => []AccountsHold
<1>1. AccountsInv => ResetEndsSessions
  BY DEF AccountsInv, RowsHold, EndedRow, UsableRow, Revoking, ResetEndsSessions, SessionsOf, Live
<1>2. AccountsInv => AgentsFollowRegistry
  BY DEF AccountsInv, RowsHold, Follows, UsableRow, Syncing, AgentsFollowRegistry, SessionsOf, Live
<1>3. QED
  BY AlwaysAccountsInv, <1>1, <1>2, PTL DEF AccountsHold

-----------------------------------------------------------------------------
(* Accounts: what the counters of an account count. *)

\* Requests that may still change a password or count a failure.
Unanswered == {h \in AuthThread : served[h].op \notin {"idle", "revoke"}}

\* n stands for requests that are done.
Done(n) == n + Cardinality(Unanswered) <= authCalls

CountsFit ==
    /\ IsFiniteSet(Unanswered)
    /\ \A u \in User : Done(user[u].password) /\ Done(user[u].failed)
    /\ \A h \in AuthThread : served[h].op = "fail" => Done(served[h].row.failed)

\* gain is what a counter may grow by when a request is done.
LEMMA CountsMove ==
    ASSUME AccountsInv, AccountsInv', CountsFit, IsFiniteSet(Unanswered'), NEW gain \in Nat,
           Cardinality(Unanswered') + gain + authCalls <= Cardinality(Unanswered) + authCalls',
           \A u \in User : \E n \in Nat : Done(n) /\ user'[u].password <= n + gain,
           \A u \in User : \E n \in Nat : Done(n) /\ user'[u].failed <= n + gain,
           \A h \in AuthThread : served'[h].op = "fail" =>
               \E n \in Nat : Done(n) /\ served'[h].row.failed <= n + gain
    PROVE  CountsFit'
<1>1. Cardinality(Unanswered) \in Nat /\ Cardinality(Unanswered') \in Nat /\ authCalls \in Nat /\ authCalls' \in Nat
  BY AccountsAssumption, FS_CardinalityType DEF CountsFit, AccountsInv, AccountTypes
<1>2. ASSUME NEW n \in Nat, NEW m \in Nat, Done(n), m <= n + gain
      PROVE  m + Cardinality(Unanswered') <= authCalls'
  BY <1>1, <1>2 DEF Done
<1>3. \A u \in User : user'[u].password \in Nat /\ user'[u].failed \in Nat
  BY DEF AccountsInv, AccountTypes, UserRow
<1>4. ASSUME NEW h \in AuthThread, served'[h].op = "fail" PROVE served'[h].row.failed \in Nat
  <2>1. served'[h] \in RequestState
    BY DEF AccountsInv, AccountTypes
  <2>2. served'[h] \in [op : {"issue", "fail"}, user : User, row : UserRow]
    BY <1>4, <2>1, StateFields
  <2>3. QED
    BY <2>2 DEF UserRow
<1>5. \A u \in User : Done(user[u].password)' /\ Done(user[u].failed)'
  BY <1>2, <1>3 DEF Done
<1>6. \A h \in AuthThread : served'[h].op = "fail" => Done(served[h].row.failed)'
  BY <1>2, <1>4 DEF Done
<1>7. QED
  BY <1>5, <1>6 DEF CountsFit

LEMMA CountsAreNat ==
    ASSUME AccountsInv, NEW u \in User
    PROVE  user[u] \in UserRow /\ user[u].password \in Nat /\ user[u].failed \in Nat
  BY DEF AccountsInv, AccountTypes, UserRow

\* A request that starts may be one more to be done.
LEMMA StartCounts ==
    ASSUME AccountsInv, AccountsInv', CountsFit, NEW h \in AuthThread, NEW next, Start(h, next),
           \A u \in User : user'[u].password = user[u].password /\ user'[u].failed = user[u].failed,
           next.op = "fail" => \E u \in User : next.row.failed = user[u].failed
    PROVE  CountsFit'
<1>1. /\ served' = [served EXCEPT ![h] = next] /\ authCalls' = authCalls + 1
      /\ served \in [AuthThread -> RequestState] /\ authCalls \in Nat
  BY AccountsAssumption DEF Start, Accept, AccountsInv, AccountTypes
<1>2. Unanswered' \subseteq Unanswered \cup {h}
  BY <1>1 DEF Unanswered
<1>3. /\ IsFiniteSet(Unanswered') /\ Cardinality(Unanswered') <= Cardinality(Unanswered) + 1
      /\ Cardinality(Unanswered') \in Nat /\ Cardinality(Unanswered) \in Nat
  <2>1. IsFiniteSet(Unanswered \cup {h}) /\ Cardinality(Unanswered \cup {h}) <= Cardinality(Unanswered) + 1
        /\ Cardinality(Unanswered) \in Nat
    BY FS_AddElement, FS_CardinalityType DEF CountsFit
  <2>2. /\ IsFiniteSet(Unanswered') /\ Cardinality(Unanswered') <= Cardinality(Unanswered \cup {h})
    BY <1>2, <2>1, FS_Subset
  <2>3. Cardinality(Unanswered') \in Nat /\ Cardinality(Unanswered \cup {h}) \in Nat
    BY <2>1, <2>2, FS_CardinalityType
  <2>4. QED
    BY <2>1, <2>2, <2>3
<1>4. \A u \in User : /\ \E n \in Nat : Done(n) /\ user'[u].password <= n + 0
                      /\ \E n \in Nat : Done(n) /\ user'[u].failed <= n + 0
  BY CountsAreNat DEF CountsFit
<1>5. ASSUME NEW x \in AuthThread, served'[x].op = "fail"
      PROVE  \E n \in Nat : Done(n) /\ served'[x].row.failed <= n + 0
  <2>1. CASE x = h
    BY <1>1, <1>5, <2>1, CountsAreNat DEF CountsFit
  <2>2. CASE x # h
    <3>1. served'[x] = served[x] /\ served[x] \in RequestState
      BY <1>1, <2>2
    <3>2. served[x].row.failed \in Nat
      BY <1>5, <3>1, StateFields DEF UserRow
    <3>3. QED
      BY <1>5, <3>1, <3>2 DEF CountsFit
  <2>3. QED
    BY <2>1, <2>2
<1>6. 0 \in Nat /\ Cardinality(Unanswered') + 0 + authCalls <= Cardinality(Unanswered) + authCalls'
  BY <1>1, <1>3
<1>7. QED
  BY <1>3, <1>4, <1>5, <1>6, CountsMove

\* Every other request keeps the failures it had read.
LEMMA FailuresKept ==
    ASSUME AccountsInv, CountsFit, NEW h \in AuthThread, NEW next, Continue(h, next), next.op # "fail",
           NEW gain \in Nat, NEW x \in AuthThread, served'[x].op = "fail"
    PROVE  \E n \in Nat : Done(n) /\ served'[x].row.failed <= n + gain
<1>1. served \in [AuthThread -> RequestState] /\ served' = [served EXCEPT ![h] = next]
  BY DEF Continue, AccountsInv, AccountTypes
<1>2. x # h /\ served'[x] = served[x] /\ served[x] \in RequestState
  BY <1>1
<1>3. served[x].row.failed \in Nat
  BY <1>2, StateFields DEF UserRow
<1>4. QED
  BY <1>2, <1>3 DEF CountsFit

\* A request that is done is counted once.
LEMMA DoneCounts ==
    ASSUME AccountsInv, AccountsInv', CountsFit, NEW h \in AuthThread, NEW next, Continue(h, next),
           served[h].op \notin {"idle", "revoke"}, next.op \in {"idle", "revoke"},
           \A u \in User : user'[u].password <= user[u].password + 1,
           \A u \in User : \/ user'[u].failed <= user[u].failed
                           \/ served[h].op = "fail" /\ user'[u].failed <= served[h].row.failed + 1
    PROVE  CountsFit'
<1>1. /\ served' = [served EXCEPT ![h] = next] /\ authCalls' = authCalls /\ next.op # "fail"
      /\ served \in [AuthThread -> RequestState] /\ authCalls \in Nat
  BY AccountsAssumption DEF Continue, AccountsInv, AccountTypes
<1>2. Unanswered' = Unanswered \ {h} /\ h \in Unanswered
  BY <1>1 DEF Unanswered
<1>3. IsFiniteSet(Unanswered') /\ Cardinality(Unanswered') = Cardinality(Unanswered) - 1 /\ Cardinality(Unanswered) \in Nat
  BY <1>2, FS_RemoveElement, FS_CardinalityType DEF CountsFit
<1>4. ASSUME NEW u \in User
      PROVE  /\ \E n \in Nat : Done(n) /\ user'[u].password <= n + 1
             /\ \E n \in Nat : Done(n) /\ user'[u].failed <= n + 1
  <2>1. user[u].password \in Nat /\ user[u].failed \in Nat /\ user'[u].failed \in Nat
    BY CountsAreNat DEF AccountsInv, AccountTypes, UserRow
  <2>2. \E n \in Nat : Done(n) /\ user'[u].password <= n + 1
    BY <2>1 DEF CountsFit
  <2>3. CASE user'[u].failed <= user[u].failed
    BY <2>1, <2>2, <2>3 DEF CountsFit
  <2>4. CASE served[h].op = "fail" /\ user'[u].failed <= served[h].row.failed + 1
    <3>1. served[h].row.failed \in Nat
      BY <1>1, <2>4, StateFields DEF UserRow
    <3>2. QED
      BY <2>2, <2>4, <3>1 DEF CountsFit
  <2>5. QED
    BY <2>3, <2>4
<1>5. \A x \in AuthThread : served'[x].op = "fail" => \E n \in Nat : Done(n) /\ served'[x].row.failed <= n + 1
  BY <1>1, FailuresKept
<1>6. 1 \in Nat /\ Cardinality(Unanswered') + 1 + authCalls <= Cardinality(Unanswered) + authCalls'
  BY <1>1, <1>3
<1>7. QED
  BY <1>3, <1>4, <1>5, <1>6, CountsMove

\* A request that goes on without counting.
LEMMA GoingCounts ==
    ASSUME AccountsInv, AccountsInv', CountsFit, NEW h \in AuthThread, NEW next, Continue(h, next),
           next.op # "fail", next.op = "idle" \/ served[h].op \notin {"idle", "revoke"},
           \A u \in User : user'[u].password = user[u].password /\ user'[u].failed <= user[u].failed
    PROVE  CountsFit'
<1>1. /\ served' = [served EXCEPT ![h] = next] /\ authCalls' = authCalls
      /\ served \in [AuthThread -> RequestState] /\ authCalls \in Nat
  BY AccountsAssumption DEF Continue, AccountsInv, AccountTypes
<1>2. Unanswered' \subseteq Unanswered
  BY <1>1 DEF Unanswered
<1>3. /\ IsFiniteSet(Unanswered') /\ Cardinality(Unanswered') <= Cardinality(Unanswered)
      /\ Cardinality(Unanswered') \in Nat /\ Cardinality(Unanswered) \in Nat
  BY <1>2, FS_Subset, FS_CardinalityType DEF CountsFit
<1>4. \A u \in User : user'[u].failed \in Nat
  BY DEF AccountsInv, AccountTypes, UserRow
<1>5. \A u \in User : /\ \E n \in Nat : Done(n) /\ user'[u].password <= n + 0
                      /\ \E n \in Nat : Done(n) /\ user'[u].failed <= n + 0
  BY <1>4, CountsAreNat DEF CountsFit
<1>6. \A x \in AuthThread : served'[x].op = "fail" => \E n \in Nat : Done(n) /\ served'[x].row.failed <= n + 0
  BY FailuresKept
<1>7. 0 \in Nat /\ Cardinality(Unanswered') + 0 + authCalls <= Cardinality(Unanswered) + authCalls'
  BY <1>1, <1>3
<1>8. QED
  BY <1>3, <1>5, <1>6, <1>7, CountsMove

\* Requests of one step that write no counter.
LEMMA OneStepCounts ==
    ASSUME AccountsInv, AccountsInv', CountsFit, NEW h \in AuthThread, OneStep(h),
           \A w \in User : user'[w].password = user[w].password /\ user'[w].failed = user[w].failed
    PROVE  CountsFit'
<1>1. Start(h, Idle) /\ Idle.op # "fail"
  BY OneStepIsStart DEF AccountsInv, AccountTypes, Idle
<1>2. QED
  BY <1>1, StartCounts

LEMMA CreatesFit ==
    ASSUME AccountsInv, AccountsInv', CountsFit, NEW h \in AuthThread, NEW u \in User,
           NEW approved \in BOOLEAN, CreateAccount(h, u, approved)
    PROVE  CountsFit'
<1>1. \A w \in User : user'[w].password = user[w].password /\ user'[w].failed = user[w].failed
  BY DEF CreateAccount, AccountsInv, AccountTypes, UserRow
<1>2. QED
  BY <1>1, OneStepCounts DEF CreateAccount

LEMMA ApprovesFit ==
    ASSUME AccountsInv, AccountsInv', CountsFit, NEW h \in AuthThread, NEW u \in User,
           ApproveAccount(h, u)
    PROVE  CountsFit'
<1>1. \A w \in User : user'[w].password = user[w].password /\ user'[w].failed = user[w].failed
  BY DEF ApproveAccount, AccountsInv, AccountTypes, UserRow
<1>2. QED
  BY <1>1, OneStepCounts DEF ApproveAccount

LEMMA BindingsFit ==
    ASSUME AccountsInv, AccountsInv', CountsFit, NEW h \in AuthThread, NEW u \in User,
           NEW agents \in SUBSET LocalAgent, SetLocalAgents(h, u, agents)
    PROVE  CountsFit'
<1>1. \A w \in User : user'[w].password = user[w].password /\ user'[w].failed = user[w].failed
  BY DEF SetLocalAgents, AccountsInv, AccountTypes, UserRow
<1>2. QED
  BY <1>1, OneStepCounts DEF SetLocalAgents

\* Requests that have only read, and those of one step.
LEMMA StartsFit ==
    ASSUME AccountsInv, AccountsInv', CountsFit, NEW h \in AuthThread, NEW u \in User,
           \/ \E approved \in BOOLEAN : CreateAccount(h, u, approved)
           \/ ApproveAccount(h, u)
           \/ \E right \in BOOLEAN : LoginRead(h, u, right)
           \/ \E delivered \in BOOLEAN : RequestReset(h, u, delivered)
           \/ ResetRead(h, u)
           \/ \E agents \in SUBSET LocalAgent : SetLocalAgents(h, u, agents)
           \/ \E b \in 0 .. MaxBlock : SyncRead(h, u, b)
    PROVE  CountsFit'
<1>1. ASSUME NEW delivered \in BOOLEAN, RequestReset(h, u, delivered) PROVE CountsFit'
  BY <1>1, OneStepCounts DEF RequestReset
<1>2. CASE \/ \E approved \in BOOLEAN : CreateAccount(h, u, approved)
           \/ ApproveAccount(h, u)
           \/ \E agents \in SUBSET LocalAgent : SetLocalAgents(h, u, agents)
  BY <1>2, CreatesFit, ApprovesFit, BindingsFit
<1>3. ASSUME NEW right \in BOOLEAN, LoginRead(h, u, right) PROVE CountsFit'
  <2>1. PICK next : next = [op |-> IF right THEN "issue" ELSE "fail", user |-> u, row |-> user[u]]
    OBVIOUS
  <2>2. Start(h, next) /\ user' = user /\ next.row.failed = user[u].failed
    BY <1>3, <2>1 DEF LoginRead
  <2>3. QED
    BY <2>2, StartCounts
<1>4. CASE ResetRead(h, u)
  <2>1. PICK next : next = [op |-> "reset", user |-> u]
    OBVIOUS
  <2>2. Start(h, next) /\ user' = user /\ next.op # "fail"
    BY <1>4, <2>1 DEF ResetRead
  <2>3. QED
    BY <2>2, StartCounts
<1>5. ASSUME NEW b \in 0 .. MaxBlock, SyncRead(h, u, b) PROVE CountsFit'
  <2>1. PICK next : next = [op |-> "sync", user |-> u, block |-> b]
    OBVIOUS
  <2>2. Start(h, next) /\ user' = user /\ next.op # "fail"
    BY <1>5, <2>1 DEF SyncRead
  <2>3. QED
    BY <2>2, StartCounts
<1>6. QED
  BY <1>1, <1>2, <1>3, <1>4, <1>5

LEMMA TokenStartsFit ==
    ASSUME AccountsInv, AccountsInv', CountsFit, NEW h \in AuthThread,
           \/ KeyCount(h)
           \/ \E d \in Identity : OAuthCallback(h, d)
           \/ \E i \in DOMAIN session : RotateRead(h, i) \/ Revoke(h, i) \/ ChangePasswordRead(h, i)
    PROVE  CountsFit'
<1>1. CASE KeyCount(h)
  <2>1. PICK next : next = [op |-> "key"]
    OBVIOUS
  <2>2. Start(h, next) /\ user' = user /\ next.op # "fail"
    BY <1>1, <2>1 DEF KeyCount
  <2>3. QED
    BY <2>2, StartCounts
<1>2. ASSUME NEW d \in Identity, OAuthCallback(h, d) PROVE CountsFit'
  <2>1. PICK u \in Address : OAuthSignIn(h, d, u)
    BY <1>2 DEF OAuthCallback, Address, GoogleAddress, GitHubAddress
  <2>2. PICK next : next = OAuthNext(d, u)
    OBVIOUS
  <2>3. Start(h, next) /\ user' = user /\ next.op # "fail"
    BY <2>1, <2>2 DEF OAuthSignIn, OAuthNext
  <2>4. QED
    BY <2>3, StartCounts
<1>3. ASSUME NEW i \in DOMAIN session, RotateRead(h, i) PROVE CountsFit'
  <2>1. PICK next : next = [op |-> "rotate", token |-> i, row |-> user[session[i].user]]
    OBVIOUS
  <2>2. Start(h, next) /\ user' = user /\ next.op # "fail"
    BY <1>3, <2>1 DEF RotateRead
  <2>3. QED
    BY <2>2, StartCounts
<1>4. ASSUME NEW i \in DOMAIN session, Revoke(h, i) PROVE CountsFit'
  <2>1. Start(h, Idle) /\ Idle.op # "fail" /\ user' = user
    BY <1>4, OneStepIsStart DEF Revoke, AccountsInv, AccountTypes, Idle
  <2>2. QED
    BY <2>1, StartCounts
<1>5. ASSUME NEW i \in DOMAIN session, ChangePasswordRead(h, i) PROVE CountsFit'
  <2>1. PICK next : next = [op |-> "change", user |-> session[i].user]
    OBVIOUS
  <2>2. Start(h, next) /\ user' = user /\ next.op # "fail"
    BY <1>5, <2>1 DEF ChangePasswordRead
  <2>3. QED
    BY <2>2, StartCounts
<1>6. QED
  BY <1>1, <1>2, <1>3, <1>4, <1>5

\* Requests that write what they had read.
LEMMA WritesFit ==
    ASSUME AccountsInv, AccountsInv', CountsFit, NEW h \in AuthThread,
           \/ LoginFail(h) \/ LoginIssue(h) \/ RotateWrite(h) \/ ChangePasswordWrite(h)
           \/ ResetWrite(h) \/ ResetRevoke(h) \/ SyncWrite(h) \/ SyncTokens(h)
           \/ KeyIssue(h) \/ OAuthCreate(h) \/ OAuthLink(h)
    PROVE  CountsFit'
<1>1. user \in [User -> UserRow] /\ served[h] \in RequestState /\ Idle.op = "idle"
      /\ \A w \in User : user[w].password \in Nat /\ user[w].failed \in Nat
  BY DEF AccountsInv, AccountTypes, UserRow, Idle
<1>2. CASE LoginFail(h)
  <2>1. served[h].op = "fail" /\ served[h].user \in User /\ served[h].row.failed \in Nat
    BY <1>1, <1>2, StateFields DEF LoginFail, UserRow
  <2>2. PICK row : /\ user' = [user EXCEPT ![served[h].user] = row]
                   /\ row = [user[served[h].user] EXCEPT !.failed = served[h].row.failed + 1,
                                                         !.locked = served[h].row.failed + 1 >= LockAfter]
    BY <1>1, <1>2 DEF LoginFail
  <2>3. row.password = user[served[h].user].password /\ row.failed = served[h].row.failed + 1
    BY <1>1, <2>1, <2>2 DEF UserRow
  <2>4. \A w \in User : /\ user'[w].password <= user[w].password + 1
                        /\ user'[w].failed <= user[w].failed \/ user'[w].failed <= served[h].row.failed + 1
    BY <1>1, <2>1, <2>2, <2>3
  <2>5. QED
    BY <1>1, <1>2, <2>1, <2>4, DoneCounts DEF LoginFail
<1>3. CASE LoginIssue(h)
  <2>1. served[h].user \in User
    BY <1>1, <1>3, StateFields DEF LoginIssue
  <2>2. \A w \in User : user'[w].password = user[w].password /\ user'[w].failed <= user[w].failed
    BY <1>1, <1>3, <2>1 DEF LoginIssue, UserRow
  <2>3. QED
    BY <1>1, <1>3, <2>2, GoingCounts DEF LoginIssue
<1>4. CASE ChangePasswordWrite(h)
  <2>1. served[h].user \in User
    BY <1>1, <1>4, StateFields DEF ChangePasswordWrite
  <2>2. \A w \in User : user'[w].password <= user[w].password + 1 /\ user'[w].failed <= user[w].failed
    BY <1>1, <1>4, <2>1 DEF ChangePasswordWrite, UserRow
  <2>3. QED
    BY <1>1, <1>4, <2>2, DoneCounts DEF ChangePasswordWrite
<1>5. CASE ResetWrite(h)
  <2>1. served[h].user \in User
    BY <1>1, <1>5, StateFields DEF ResetWrite
  <2>2. PICK next : next = [op |-> "revoke", user |-> served[h].user]
    OBVIOUS
  <2>3. \A w \in User : user'[w].password <= user[w].password + 1 /\ user'[w].failed <= user[w].failed
    BY <1>1, <1>5, <2>1 DEF ResetWrite, UserRow
  <2>4. Continue(h, next) /\ next.op = "revoke" /\ served[h].op = "reset"
    BY <1>5, <2>2 DEF ResetWrite
  <2>5. QED
    BY <2>3, <2>4, DoneCounts
<1>6. CASE RotateWrite(h) \/ ResetRevoke(h) \/ SyncTokens(h) \/ KeyIssue(h)
  <2>1. Continue(h, Idle) /\ user' = user
    BY <1>6 DEF RotateWrite, ResetRevoke, SyncTokens, KeyIssue
  <2>2. QED
    BY <1>1, <2>1, GoingCounts
<1>7. CASE SyncWrite(h)
  <2>1. served[h] \in [op : {"sync", "tokens"}, user : User, block : 0 .. MaxBlock]
    BY <1>1, <1>7, StateFields DEF SyncWrite
  <2>2. PICK next : next = [served[h] EXCEPT !.op = "tokens"]
    OBVIOUS
  <2>3. Continue(h, next) /\ user' = user /\ next.op = "tokens" /\ served[h].op = "sync"
    BY <1>7, <2>1, <2>2 DEF SyncWrite
  <2>4. QED
    BY <1>1, <2>3, GoingCounts
<1>8. CASE OAuthCreate(h)
  <2>1. served[h] \in [op : {"link", "create"}, user : User, identity : Identity] /\ served[h].op = "create"
    BY <1>1, <1>8, StateFields DEF OAuthCreate
  <2>2. PICK linked : linked = [served[h] EXCEPT !.op = "link"]
    OBVIOUS
  <2>3. linked.op = "link"
    BY <2>1, <2>2
  <2>4. PICK next \in {Idle, linked} : Continue(h, next)
    BY <1>8, <2>2 DEF OAuthCreate
  <2>5. \A w \in User : user'[w].password = user[w].password /\ user'[w].failed <= user[w].failed
    BY <1>1, <1>8, <2>1 DEF OAuthCreate, UserRow
  <2>6. QED
    BY <1>1, <2>1, <2>3, <2>4, <2>5, GoingCounts
<1>9. CASE OAuthLink(h)
  <2>1. served[h].user \in User /\ served[h].op = "link"
    BY <1>1, <1>9, StateFields DEF OAuthLink
  <2>2. PICK row : row = [user[served[h].user] EXCEPT !.approved = TRUE]
    OBVIOUS
  <2>3. PICK next : next = [op |-> "issue", user |-> served[h].user, row |-> row]
    OBVIOUS
  <2>4. Continue(h, next) /\ next.op = "issue" /\ user' = [user EXCEPT ![served[h].user] = row]
    BY <1>9, <2>2, <2>3 DEF OAuthLink
  <2>5. \A w \in User : user'[w].password = user[w].password /\ user'[w].failed <= user[w].failed
    BY <1>1, <2>1, <2>2, <2>4 DEF UserRow
  <2>6. QED
    BY <2>1, <2>4, <2>5, GoingCounts
<1>10. QED
  BY <1>2, <1>3, <1>4, <1>5, <1>6, <1>7, <1>8, <1>9

\* Steps that are no request's, and the restart, which gives every request up.
LEMMA OthersFitCounts ==
    ASSUME AccountsInv, AccountsInv', CountsFit,
           \/ \E u \in User : LockRunsOut(u)
           \/ \E i \in DOMAIN session : SessionExpires(i)
           \/ AuthRestart \/ UNCHANGED accountsVars
    PROVE  CountsFit'
<1>1. user \in [User -> UserRow] /\ authCalls' = authCalls
  BY DEF AccountsInv, AccountTypes, LockRunsOut, SessionExpires, AuthRestart, accountsVars
<1>2. \A w \in User : user'[w].password = user[w].password /\ user'[w].failed = user[w].failed
  BY <1>1 DEF LockRunsOut, SessionExpires, AuthRestart, accountsVars, UserRow
<1>3. CASE AuthRestart
  <2>1. Unanswered' = {} /\ \A h \in AuthThread : served'[h].op # "fail"
    BY <1>3 DEF AuthRestart, Unanswered, Idle
  <2>2. IsFiniteSet(Unanswered') /\ Cardinality(Unanswered') = 0 /\ Cardinality(Unanswered) \in Nat
    BY <2>1, FS_EmptySet, FS_CardinalityType DEF CountsFit
  <2>3. authCalls \in Nat
    BY AccountsAssumption DEF AccountsInv, AccountTypes
  <2>4. \A u \in User : /\ \E n \in Nat : Done(n) /\ user'[u].password <= n + 0
                        /\ \E n \in Nat : Done(n) /\ user'[u].failed <= n + 0
    BY <1>2, CountsAreNat DEF CountsFit
  <2>5. 0 \in Nat /\ Cardinality(Unanswered') + 0 + authCalls <= Cardinality(Unanswered) + authCalls'
    BY <1>1, <2>2, <2>3
  <2>6. QED
    BY <2>1, <2>2, <2>4, <2>5, CountsMove
<1>4. CASE ~AuthRestart
  <2>1. served' = served
    BY <1>4 DEF LockRunsOut, SessionExpires, accountsVars
  <2>2. QED
    BY <1>1, <1>2, <2>1 DEF CountsFit, Unanswered, Done
<1>5. QED
  BY <1>3, <1>4

LEMMA InitCountsFit == AccountsInit => CountsFit
<1> SUFFICES ASSUME AccountsInit PROVE CountsFit
  OBVIOUS
<1>1. Unanswered = {} /\ \A h \in AuthThread : served[h].op # "fail"
  BY DEF AccountsInit, Unanswered, Idle
<1>2. IsFiniteSet(Unanswered) /\ Cardinality(Unanswered) = 0
  BY <1>1, FS_EmptySet
<1>3. \A u \in User : user[u].password = 0 /\ user[u].failed = 0
  BY DEF AccountsInit
<1>4. authCalls = 0
  BY DEF AccountsInit
<1>5. QED
  BY <1>1, <1>2, <1>3, <1>4 DEF CountsFit, Done

(***************************************************************************)
(* No counter of an account outgrows the requests that were accepted,      *)
(* however they overlap and wherever the service restarts: a failure or a  *)
(* change of password is counted by a request that then is done, and a     *)
(* count is written from the row that was read (accounts.py).              *)
(***************************************************************************)
THEOREM AccountsTyped == AccountsSpec => []AccountsTypeOK
<1>1. ASSUME AccountsInv, AccountsInv', CountsFit, [AccountsNext]_accountsVars PROVE CountsFit'
  BY <1>1, StartsFit, TokenStartsFit, WritesFit, OthersFitCounts DEF AccountsNext
<1>2. AccountsInv /\ AccountsInv' /\ CountsFit /\ [AccountsNext]_accountsVars => CountsFit'
  BY <1>1
<1>3. AccountsInv /\ CountsFit => AccountsTypeOK
  <2> SUFFICES ASSUME AccountsInv, CountsFit PROVE AccountsTypeOK
    OBVIOUS
  <2>1. /\ Len(session) <= MaxSession /\ authCalls \in 0 .. MaxAuthCalls
        /\ resetToken \in [User -> {"none", "open", "used"}]
        /\ registry \in [User -> RegistryRow] /\ user \in [User -> UserRow]
    BY DEF AccountsInv, AccountTypes
  <2>2. ASSUME NEW u \in User
        PROVE  /\ user[u].failed \in 0 .. MaxAuthCalls
               /\ user[u].password \in 0 .. MaxAuthCalls /\ user[u].reset \in 0 .. user[u].password
               /\ resetToken[u] \in {"none", "open", "used"}
               /\ registry[u].agents \subseteq ChainAgent /\ registry[u].block \in -1 .. MaxBlock
    <3>1. user[u].failed \in Nat /\ user[u].password \in Nat /\ user[u].reset \in Nat
      BY <2>1 DEF UserRow
    <3>2. /\ user[u].password + Cardinality(Unanswered) <= authCalls
          /\ user[u].failed + Cardinality(Unanswered) <= authCalls
      BY DEF CountsFit, Done
    <3>3. Cardinality(Unanswered) \in Nat /\ MaxAuthCalls \in Nat /\ user[u].reset <= user[u].password
      BY AccountsAssumption, FS_CardinalityType DEF CountsFit, AccountsInv, ResetsBelow
    <3>4. authCalls \in Nat /\ authCalls <= MaxAuthCalls
      BY <2>1, <3>3
    <3>5. /\ user[u].failed <= MaxAuthCalls /\ user[u].password <= MaxAuthCalls
      BY <3>1, <3>2, <3>3, <3>4
    <3>6. /\ user[u].failed \in 0 .. MaxAuthCalls
          /\ user[u].password \in 0 .. MaxAuthCalls /\ user[u].reset \in 0 .. user[u].password
      BY <3>1, <3>3, <3>5
    <3>7. QED
      BY <2>1, <3>6 DEF RegistryRow
  <2>3. QED
    BY <2>1, <2>2 DEF AccountsTypeOK
<1>4. QED
  BY AlwaysAccountsInv, InitCountsFit, <1>2, <1>3, PTL DEF AccountsSpec

-----------------------------------------------------------------------------
(* ManagedTenants: workspaces *)

\* What a request may hold between two of its transactions.
Doing ==
    {Resting}
    \cup [op : {"insert", "join", "tenant"}, owner : Owner, id : Nat \ {None}]
    \cup [op : {"mail", "verified"}, owner : Owner]
    \cup [op : {"apply"}, subject : Subject, owner : Owner, batch : Batch]

Account == [exists : BOOLEAN, profile : Nat, verified : BOOLEAN]

Provider(w, o) == at[w].op \in {"join", "tenant", "insert"} /\ at[w].owner = o

\* What is true of an owner that one request provides a workspace for.
Provides(w, o) ==
    /\ at[w].op = "insert" =>
          account[o].exists /\ account[o].profile = at[w].id /\ workspace[o] = None
    /\ at[w].op = "join" => account[o].exists = (workspace[o] # None)
    /\ at[w].op = "tenant" =>
          account[o].exists /\ (workspace[o] = None => account[o].profile = at[w].id)

\* An account whose sign-ins neither overlapped nor were cut off has its
\* workspace, or the one request that will insert it.
OneProvider ==
    \A o \in Owner \ torn :
        /\ \A v, w \in Worker : Provider(v, o) /\ Provider(w, o) => v = w
        /\ \A w \in Worker : Provider(w, o) => Provides(w, o)
        /\ account[o].exists /\ workspace[o] = None => \E w \in Worker : Provider(w, o)

WorkspaceInv ==
    /\ at \in [Worker -> Doing] /\ account \in [Owner -> Account]
    /\ workspace \in [AccountId -> Nat] /\ drawn \in Nat
    /\ torn \subseteq Owner
    /\ OneProvider /\ WorkspaceUsable

LEMMA DoingOps ==
    ASSUME NEW d \in Doing
    PROVE  /\ d.op \in {"join", "tenant", "insert"} =>
                d \in [op : {"insert", "join", "tenant"}, owner : Owner, id : Nat \ {None}]
           /\ d.op \in {"mail", "verified"} => d \in [op : {"mail", "verified"}, owner : Owner]
           /\ d.op = "apply" => d \in [op : {"apply"}, subject : Subject, owner : Owner, batch : Batch]
  BY DEF Doing, Resting

\* The request of one worker moves on, and provides for nobody after it did not.
LEMMA OtherWork ==
    ASSUME WorkspaceInv, NEW w \in Worker, NEW next \in Doing, at' = [at EXCEPT ![w] = next],
           at[w].op \notin {"join", "tenant", "insert"},
           next.op \notin {"join", "tenant", "insert"},
           account' \in [Owner -> Account], drawn' \in Nat, workspace' \in [AccountId -> Nat],
           \A o \in Owner : account'[o].exists = account[o].exists /\ account'[o].profile = account[o].profile
                            /\ workspace'[o] = workspace[o],
           torn' = torn
    PROVE  WorkspaceInv'
<1>1. \A o \in Owner, v \in Worker : /\ Provider(v, o)' = Provider(v, o)
                                     /\ Provider(v, o) => (Provides(v, o)' = Provides(v, o))
  BY DEF WorkspaceInv, Provider, Provides
<1>2. OneProvider'
  BY <1>1 DEF WorkspaceInv, OneProvider
<1>3. WorkspaceUsable'
  BY DEF WorkspaceInv, WorkspaceUsable, Usable
<1>4. QED
  BY <1>2, <1>3 DEF WorkspaceInv

LEMMA RestingIsDoing == Resting \in Doing /\ Resting.op = "rest"
  BY DEF Resting, Doing

\* Steps that leave the accounts' workspaces and every provider alone.
LEMMA TenantQuietStep ==
    ASSUME WorkspaceInv, NEW w \in Worker,
           \/ \E o \in Owner :
                 \/ ResendMail(w, o) \/ VerifyAccount(w, o)
                 \/ \E s \in Subject, b \in Batch : MigrateCheck(w, s, o, b)
           \/ SendMail(w) \/ VerifyDone(w) \/ MigrateApply(w)
           \/ \E s \in Subject :
                 \/ Unlink(w, s)
                 \/ \E b \in Batch : ProvisionSubject(w, s, b) \/ ReprovisionSubject(w, s, b)
           \/ \E b \in Batch : RollbackBatch(w, b)
    PROVE  WorkspaceInv'
<1>1. at[w].op \notin {"join", "tenant", "insert"}
  BY RestingIsDoing
     DEF ResendMail, VerifyAccount, MigrateCheck, SendMail, VerifyDone, MigrateApply, Unlink,
         ProvisionSubject, ReprovisionSubject, RollbackBatch, Arrive
<1>2. PICK next \in Doing : at' = [at EXCEPT ![w] = next] /\ next.op \notin {"join", "tenant", "insert"}
  <2>1. CASE \E o \in Owner : ResendMail(w, o) \/ VerifyAccount(w, o)
    <3>1. PICK o \in Owner : ResendMail(w, o) \/ VerifyAccount(w, o)
      BY <2>1
    <3>2. \A k \in {"mail", "verified"} : [op |-> k, owner |-> o] \in Doing
      BY DEF Doing
    <3>3. QED
      BY <3>1, <3>2 DEF ResendMail, VerifyAccount, Arrive
  <2>2. ASSUME NEW o \in Owner, NEW s \in Subject, NEW b \in Batch, MigrateCheck(w, s, o, b)
        PROVE  \E next \in Doing : at' = [at EXCEPT ![w] = next] /\ next.op \notin {"join", "tenant", "insert"}
    <3>1. [op |-> "apply", subject |-> s, owner |-> o, batch |-> b] \in Doing
      BY DEF Doing
    <3>2. QED
      BY <2>2, <3>1 DEF MigrateCheck, Arrive
  <2>3. CASE at' = [at EXCEPT ![w] = Resting]
    BY <2>3, RestingIsDoing
  <2>4. QED
    BY <2>1, <2>2, <2>3
       DEF SendMail, VerifyDone, MigrateApply, Unlink, ProvisionSubject, ReprovisionSubject,
           RollbackBatch, Arrive, GoOn
<1>3. account' \in [Owner -> Account] /\ torn' = torn
      /\ \A o \in Owner : account'[o].exists = account[o].exists /\ account'[o].profile = account[o].profile
  <2>1. CASE account' = account /\ torn' = torn
    BY <2>1 DEF WorkspaceInv
  <2>2. ASSUME NEW o \in Owner, VerifyAccount(w, o)
        PROVE  account' \in [Owner -> Account] /\ torn' = torn
               /\ \A x \in Owner : account'[x].exists = account[x].exists
                                  /\ account'[x].profile = account[x].profile
    <3> DEFINE r == [account[o] EXCEPT !.verified = TRUE]
    <3>1. r \in Account /\ r.exists = account[o].exists /\ r.profile = account[o].profile
      BY DEF WorkspaceInv, Account
    <3>2. account' = [account EXCEPT ![o] = r] /\ torn' = torn
      BY <2>2 DEF VerifyAccount
    <3> HIDE DEF r
    <3>3. QED
      BY <3>1, <3>2 DEF WorkspaceInv
  <2>3. QED
    BY <2>1, <2>2
       DEF ResendMail, MigrateCheck, SendMail, VerifyDone, MigrateApply, Unlink, ProvisionSubject,
           ReprovisionSubject, RollbackBatch
<1>4. drawn' \in Nat /\ workspace' \in [AccountId -> Nat] /\ \A o \in Owner : workspace'[o] = workspace[o]
  <2>1. CASE UNCHANGED <<workspace, drawn>>
    BY <2>1 DEF WorkspaceInv
  <2>2. ASSUME NEW s \in Subject, NEW b \in Batch, ProvisionSubject(w, s, b)
        PROVE  drawn' \in Nat /\ workspace' \in [AccountId -> Nat]
               /\ \A o \in Owner : workspace'[o] = workspace[o]
    BY <2>2, TenantsAssumption DEF ProvisionSubject, Draw, WorkspaceInv, AccountId
  <2>3. QED
    BY <2>1, <2>2
       DEF ResendMail, VerifyAccount, MigrateCheck, SendMail, VerifyDone, MigrateApply, Unlink,
           ReprovisionSubject, RollbackBatch
<1>5. QED
  <2> HIDE DEF Doing
  <2>1. \A o \in Owner : account'[o].exists = account[o].exists /\ account'[o].profile = account[o].profile
                         /\ workspace'[o] = workspace[o]
    BY <1>3, <1>4
  <2>2. QED
    BY <1>1, <1>2, <1>3, <1>4, <2>1, OtherWork

\* The steps of a provider: what holds of its own owner, and of the others.
LEMMA ProviderStep ==
    ASSUME WorkspaceInv, NEW w \in Worker, NEW o \in Owner, NEW next \in Doing,
           at' = [at EXCEPT ![w] = next],
           at[w].op \notin {"join", "tenant", "insert"} \/ at[w].owner = o,
           next.op \in {"join", "tenant", "insert"} => next.owner = o,
           account' \in [Owner -> Account], drawn' \in Nat, workspace' \in [AccountId -> Nat],
           \A x \in Owner \ {o} : account'[x] = account[x] /\ workspace'[x] = workspace[x],
           torn' \in {torn, torn \cup {o}},
           o \notin torn' =>
              /\ \A v \in Worker \ {w} : ~Provider(v, o)
              /\ workspace'[o] # None => account'[o].exists /\ workspace'[o] = account'[o].profile
              /\ next.op \in {"join", "tenant", "insert"} => Provides(w, o)'
              /\ account'[o].exists /\ workspace'[o] = None => next.op \in {"join", "tenant", "insert"}
    PROVE  WorkspaceInv'
<1>1. ASSUME NEW x \in Owner \ {o}, NEW v \in Worker
      PROVE  Provider(v, x)' = Provider(v, x) /\ (Provider(v, x) => Provides(v, x)' = Provides(v, x))
  BY <1>1 DEF WorkspaceInv, Provider, Provides
<1>2. ASSUME NEW v \in Worker \ {w}
      PROVE  Provider(v, o)' = Provider(v, o)
  BY <1>2 DEF WorkspaceInv, Provider
<1>3. Provider(w, o)' = (next.op \in {"join", "tenant", "insert"})
  BY DEF WorkspaceInv, Provider
<1>4. OneProvider'
  <2>1. ASSUME NEW x \in Owner \ torn', x # o
        PROVE  /\ \A v, u \in Worker : Provider(v, x)' /\ Provider(u, x)' => v = u
               /\ \A v \in Worker : Provider(v, x)' => Provides(v, x)'
               /\ account'[x].exists /\ workspace'[x] = None => \E v \in Worker : Provider(v, x)'
    BY <1>1, <2>1 DEF WorkspaceInv, OneProvider
  <2>2. ASSUME o \notin torn'
        PROVE  /\ \A v, u \in Worker : Provider(v, o)' /\ Provider(u, o)' => v = u
               /\ \A v \in Worker : Provider(v, o)' => Provides(v, o)'
               /\ account'[o].exists /\ workspace'[o] = None => \E v \in Worker : Provider(v, o)'
    <3>1. \A v \in Worker \ {w} : ~Provider(v, o)'
      BY <1>2, <2>2
    <3>2. Provider(w, o)' => Provides(w, o)'
      BY <1>3, <2>2
    <3>3. account'[o].exists /\ workspace'[o] = None => Provider(w, o)'
      BY <1>3, <2>2
    <3>4. QED
      BY <3>1, <3>2, <3>3
  <2>3. QED
    BY <2>1, <2>2 DEF OneProvider
<1>5. WorkspaceUsable'
  BY DEF WorkspaceInv, WorkspaceUsable, Usable
<1>6. QED
  BY <1>4, <1>5 DEF WorkspaceInv

\* Who provides for an owner is not resting, and is known to the invariant.
LEMMA ProvidersKnown ==
    ASSUME WorkspaceInv, NEW w \in Worker, at[w].op \in {"join", "tenant", "insert"}
    PROVE  /\ at[w].owner \in Owner /\ at[w].id \in Nat \ {None}
           /\ at[w] \in [op : {"insert", "join", "tenant"}, owner : Owner, id : Nat \ {None}]
           /\ at[w].owner \notin torn =>
                 /\ Provides(w, at[w].owner)
                 /\ \A v \in Worker \ {w} : ~Provider(v, at[w].owner)
<1>1. at[w] \in [op : {"insert", "join", "tenant"}, owner : Owner, id : Nat \ {None}]
  BY DoingOps DEF WorkspaceInv
<1>2. QED
  BY <1>1 DEF WorkspaceInv, OneProvider, Provider

LEMMA RegisterStep ==
    ASSUME WorkspaceInv, NEW w \in Worker, NEW o \in Owner, NEW verified \in BOOLEAN, Register(w, o, verified)
    PROVE  WorkspaceInv'
<1> DEFINE next == [op |-> "insert", owner |-> o, id |-> drawn']
           row == [exists |-> TRUE, profile |-> drawn', verified |-> verified]
<1>1. drawn' \in Nat \ {None}
  BY DEF Register, Draw, None, WorkspaceInv
<1>2. /\ next \in Doing /\ next.op = "insert" /\ next.owner = o /\ next.id = drawn'
      /\ row \in Account /\ row.exists /\ row.profile = drawn'
  BY <1>1 DEF Doing, Account
<1>3. /\ at' = [at EXCEPT ![w] = next] /\ at[w].op = "rest"
      /\ account' = [account EXCEPT ![o] = row] /\ workspace' = workspace
      /\ ~account[o].exists
  BY RestingIsDoing DEF Register, Arrive
<1>4. torn' = IF Provisioning(o) THEN torn \cup {o} ELSE torn
  BY DEF Register
<1> HIDE DEF next, row
<1>5. o \notin torn' => /\ o \notin torn /\ workspace[o] = None
                        /\ \A v \in Worker : ~Provider(v, o)
  BY <1>3, <1>4 DEF WorkspaceInv, WorkspaceUsable, Usable, Provisioning, Provider
<1>6. account' \in [Owner -> Account] /\ account'[o] = row /\ at'[w] = next
      /\ \A x \in Owner \ {o} : account'[x] = account[x]
  BY <1>2, <1>3 DEF WorkspaceInv
<1>7. o \notin torn' => Provides(w, o)'
  BY <1>2, <1>3, <1>5, <1>6 DEF Provides
<1>8. workspace' \in [AccountId -> Nat] /\ torn' \in {torn, torn \cup {o}}
  BY <1>3, <1>4 DEF WorkspaceInv
<1>9. QED
  BY <1>1, <1>2, <1>3, <1>5, <1>6, <1>7, <1>8, ProviderStep

LEMMA RegisterTenantStep ==
    ASSUME WorkspaceInv, NEW w \in Worker, RegisterTenant(w)
    PROVE  WorkspaceInv'
<1> DEFINE o == at[w].owner
           mail1 == [op |-> "mail", owner |-> o]
<1>1. at[w].op = "insert" /\ o \in Owner /\ at[w].id \in Nat \ {None} /\ o \in AccountId
  BY ProvidersKnown DEF RegisterTenant, AccountId
<1>2. mail1 \in Doing /\ mail1.op = "mail"
  BY <1>1 DEF Doing
<1>3. PICK next \in {Resting, mail1} : at' = [at EXCEPT ![w] = next]
  BY DEF RegisterTenant, GoOn
<1>4. workspace' = [workspace EXCEPT ![o] = at[w].id] /\ UNCHANGED <<account, drawn, torn>>
  BY DEF RegisterTenant
<1>5. next \in Doing /\ next.op \notin {"join", "tenant", "insert"}
  BY <1>2, <1>3, RestingIsDoing
<1>6. workspace' \in [AccountId -> Nat] /\ workspace'[o] = at[w].id
      /\ \A x \in Owner \ {o} : workspace'[x] = workspace[x]
  BY <1>1, <1>4 DEF WorkspaceInv, AccountId
<1>7. o \notin torn => /\ account[o].exists /\ account[o].profile = at[w].id
                       /\ \A v \in Worker \ {w} : ~Provider(v, o)
  BY <1>1, ProvidersKnown DEF Provides
<1>8. account' \in [Owner -> Account] /\ drawn' \in Nat
  BY <1>4 DEF WorkspaceInv
<1> HIDE DEF mail1
<1>9. /\ at[w].owner = o /\ torn' \in {torn, torn \cup {o}}
      /\ \A x \in Owner \ {o} : account'[x] = account[x] /\ workspace'[x] = workspace[x]
  BY <1>1, <1>4, <1>6
<1>10. o \notin torn' =>
          /\ \A v \in Worker \ {w} : ~Provider(v, o)
          /\ workspace'[o] # None /\ account'[o].exists /\ workspace'[o] = account'[o].profile
  BY <1>1, <1>4, <1>6, <1>7
<1>11. QED
  BY <1>1, <1>3, <1>5, <1>6, <1>8, <1>9, <1>10, ProviderStep

LEMMA OAuthReadStep ==
    ASSUME WorkspaceInv, NEW w \in Worker, NEW o \in Owner, OAuthRead(w, o)
    PROVE  WorkspaceInv'
<1>1. PICK i \in Nat \ {None} : Arrive(w, [op |-> "join", owner |-> o, id |-> i])
  <2>1. CASE workspace[o] # None /\ account[o].exists
    <3>1. workspace[o] \in Nat \ {None}
      BY <2>1 DEF WorkspaceInv, AccountId
    <3>2. QED
      BY <2>1, <3>1 DEF OAuthRead
  <2>2. CASE ~(workspace[o] # None /\ account[o].exists)
    <3>1. Draw /\ Arrive(w, [op |-> "join", owner |-> o, id |-> drawn'])
      BY <2>2 DEF OAuthRead
    <3>2. drawn' \in Nat \ {None}
      BY <3>1 DEF Draw, None, WorkspaceInv
    <3>3. QED
      BY <3>1, <3>2
  <2>3. QED
    BY <2>1, <2>2
<1> DEFINE next == [op |-> "join", owner |-> o, id |-> i]
<1>2. next \in Doing /\ next.op = "join" /\ next.owner = o
  BY <1>1 DEF Doing
<1>3. at' = [at EXCEPT ![w] = next] /\ at[w].op = "rest"
  BY <1>1, RestingIsDoing DEF Arrive
<1>4. /\ UNCHANGED <<account, workspace>> /\ drawn' \in Nat
      /\ torn' = IF Provisioning(o) THEN torn \cup {o} ELSE torn
  BY DEF OAuthRead, Draw, WorkspaceInv
<1> HIDE DEF next
<1>5. o \notin torn' => o \notin torn /\ \A v \in Worker : ~Provider(v, o)
  BY <1>4 DEF Provisioning, Provider
<1>6. o \notin torn' => account[o].exists = (workspace[o] # None)
  <2> SUFFICES ASSUME o \notin torn' PROVE account[o].exists = (workspace[o] # None)
    OBVIOUS
  <2>1. account[o].exists \in BOOLEAN
    BY DEF WorkspaceInv, Account
  <2>2. account[o].exists => workspace[o] # None
    BY <1>5 DEF WorkspaceInv, OneProvider
  <2>3. workspace[o] # None => account[o].exists
    BY <1>5 DEF WorkspaceInv, WorkspaceUsable, Usable
  <2>4. QED
    BY <2>1, <2>2, <2>3
<1>7. at'[w] = next
  BY <1>2, <1>3 DEF WorkspaceInv
<1>8. o \notin torn' => Provides(w, o)'
  BY <1>2, <1>4, <1>6, <1>7 DEF Provides
<1>9. /\ account' \in [Owner -> Account] /\ workspace' \in [AccountId -> Nat]
      /\ torn' \in {torn, torn \cup {o}}
  BY <1>4 DEF WorkspaceInv
<1>10. o \notin torn' /\ workspace'[o] # None => account'[o].exists /\ workspace'[o] = account'[o].profile
  BY <1>4, <1>5 DEF WorkspaceInv, WorkspaceUsable, Usable
<1>11. QED
  BY <1>2, <1>3, <1>4, <1>5, <1>8, <1>9, <1>10, ProviderStep

LEMMA OAuthAccountStep ==
    ASSUME WorkspaceInv, NEW w \in Worker, OAuthAccount(w)
    PROVE  WorkspaceInv'
<1>1. PICK o \in Owner : o = at[w].owner
  BY ProvidersKnown DEF OAuthAccount
<1> DEFINE next == [at[w] EXCEPT !.op = "tenant"]
           row == IF account[o].exists THEN [account[o] EXCEPT !.verified = TRUE]
                  ELSE [exists |-> TRUE, profile |-> at[w].id, verified |-> TRUE]
<1>2. at[w].op = "join" /\ at[w].id \in Nat \ {None}
      /\ at[w] \in [op : {"insert", "join", "tenant"}, owner : Owner, id : Nat \ {None}]
  BY ProvidersKnown DEF OAuthAccount
<1>3. next \in Doing /\ next.op = "tenant" /\ next.owner = o /\ next.id = at[w].id
  BY <1>1, <1>2 DEF Doing
<1>4. account[o] \in Account /\ account[o].exists \in BOOLEAN
  BY DEF WorkspaceInv, Account
<1>5. /\ row \in Account /\ row.exists
      /\ row.profile = IF account[o].exists THEN account[o].profile ELSE at[w].id
  BY <1>2, <1>4 DEF Account
<1>6. account' = [account EXCEPT ![o] = row] /\ at' = [at EXCEPT ![w] = next]
      /\ UNCHANGED <<workspace, drawn, torn>>
  BY <1>1 DEF OAuthAccount, GoOn
<1>7. o \notin torn => /\ account[o].exists = (workspace[o] # None)
                       /\ \A v \in Worker \ {w} : ~Provider(v, o)
                       /\ (workspace[o] # None => workspace[o] = account[o].profile)
  BY <1>1, <1>2, ProvidersKnown DEF Provides, WorkspaceInv, WorkspaceUsable, Usable
<1> HIDE DEF next, row
<1>8. account' \in [Owner -> Account] /\ account'[o] = row /\ at'[w] = next
      /\ \A x \in Owner \ {o} : account'[x] = account[x]
  BY <1>2, <1>3, <1>5, <1>6 DEF WorkspaceInv
<1>9. o \notin torn => Provides(w, o)'
  BY <1>3, <1>4, <1>5, <1>6, <1>7, <1>8 DEF Provides
<1>10. o \notin torn => (workspace'[o] # None => account'[o].exists /\ workspace'[o] = account'[o].profile)
  <2> SUFFICES ASSUME o \notin torn, workspace[o] # None
               PROVE  account'[o].exists /\ workspace[o] = account'[o].profile
    BY <1>6
  <2>1. account'[o].exists
    BY <1>5, <1>8
  <2>2. account[o].exists
    BY <1>4, <1>7
  <2>3. workspace[o] = account[o].profile
    BY <1>7
  <2>4. row.profile = account[o].profile
    BY <1>5, <2>2
  <2>5. QED
    BY <2>1, <2>2, <2>3, <2>4, <1>5, <1>8
<1>11. workspace' \in [AccountId -> Nat] /\ drawn' \in Nat
  BY <1>6 DEF WorkspaceInv
<1>12. /\ torn' \in {torn, torn \cup {o}} /\ torn' = torn
      /\ \A x \in Owner \ {o} : account'[x] = account[x] /\ workspace'[x] = workspace[x]
  BY <1>6, <1>8
<1>13. o \notin torn' =>
         /\ \A v \in Worker \ {w} : ~Provider(v, o)
         /\ workspace'[o] # None => account'[o].exists /\ workspace'[o] = account'[o].profile
         /\ next.op \in {"join", "tenant", "insert"} => Provides(w, o)'
         /\ account'[o].exists /\ workspace'[o] = None => next.op \in {"join", "tenant", "insert"}
  BY <1>3, <1>7, <1>9, <1>10, <1>12
<1>14. QED
  BY <1>1, <1>3, <1>6, <1>8, <1>11, <1>12, <1>13, ProviderStep

LEMMA OAuthTenantStep ==
    ASSUME WorkspaceInv, NEW w \in Worker, OAuthTenant(w)
    PROVE  WorkspaceInv'
<1>1. PICK o \in Owner : o = at[w].owner
  BY ProvidersKnown DEF OAuthTenant
<1>2. at[w].op = "tenant" /\ o \in AccountId /\ at[w].id \in Nat \ {None}
  BY ProvidersKnown DEF OAuthTenant, AccountId
<1>3. /\ at' = [at EXCEPT ![w] = Resting]
      /\ workspace' = [workspace EXCEPT ![o] = IF workspace[o] = None THEN at[w].id ELSE workspace[o]]
      /\ UNCHANGED <<account, drawn, torn>>
  BY <1>1 DEF OAuthTenant, GoOn, InsertIfMissing
<1>4. o \notin torn => /\ account[o].exists
                       /\ workspace[o] = None => account[o].profile = at[w].id
                       /\ workspace[o] # None => workspace[o] = account[o].profile
                       /\ \A v \in Worker \ {w} : ~Provider(v, o)
  BY <1>1, <1>2, ProvidersKnown DEF Provides, WorkspaceInv, WorkspaceUsable, Usable
<1>5. /\ workspace' \in [AccountId -> Nat] /\ workspace'[o] # None
      /\ workspace'[o] = (IF workspace[o] = None THEN at[w].id ELSE workspace[o])
      /\ \A x \in Owner \ {o} : workspace'[x] = workspace[x]
  BY <1>2, <1>3 DEF WorkspaceInv, AccountId
<1>6. account' \in [Owner -> Account] /\ drawn' \in Nat
  BY <1>3 DEF WorkspaceInv
<1>7. PICK next \in Doing : next.op \notin {"join", "tenant", "insert"} /\ at' = [at EXCEPT ![w] = next]
  BY <1>3, RestingIsDoing
<1>8. /\ torn' \in {torn, torn \cup {o}} /\ torn' = torn
      /\ \A x \in Owner \ {o} : account'[x] = account[x] /\ workspace'[x] = workspace[x]
  BY <1>3, <1>5
<1>9. o \notin torn' =>
         /\ \A v \in Worker \ {w} : ~Provider(v, o)
         /\ workspace'[o] # None => account'[o].exists /\ workspace'[o] = account'[o].profile
         /\ next.op \in {"join", "tenant", "insert"} => Provides(w, o)'
         /\ account'[o].exists /\ workspace'[o] = None => next.op \in {"join", "tenant", "insert"}
  BY <1>3, <1>4, <1>5, <1>7, <1>8
<1>10. QED
  BY <1>1, <1>5, <1>6, <1>7, <1>8, <1>9, ProviderStep

LEMMA TenantsRestartStep ==
    ASSUME WorkspaceInv, TenantsRestart
    PROVE  WorkspaceInv'
<1>1. /\ torn' = torn \cup {o \in Owner : Provisioning(o)} /\ at' = [w \in Worker |-> Resting]
      /\ UNCHANGED <<account, workspace, drawn>>
  BY DEF TenantsRestart
<1>2. \A o \in Owner \ torn' : o \notin torn /\ \A w \in Worker : ~Provider(w, o) /\ ~Provider(w, o)'
  BY <1>1, RestingIsDoing DEF Provisioning, Provider
<1>3. OneProvider'
  BY <1>1, <1>2 DEF WorkspaceInv, OneProvider
<1>4. QED
  BY <1>1, <1>3, RestingIsDoing DEF WorkspaceInv, WorkspaceUsable, Usable

LEMMA InitWorkspaceInv == TenantsInit => WorkspaceInv
<1> SUFFICES ASSUME TenantsInit PROVE WorkspaceInv
  OBVIOUS
<1>1. /\ at = [w \in Worker |-> Resting] /\ account = [o \in Owner |-> NoAccount]
      /\ workspace = [a \in AccountId |-> None] /\ drawn = 0 /\ torn = {}
  BY DEF TenantsInit
<1>2. NoAccount \in Account /\ ~NoAccount.exists /\ None = 0
  BY DEF NoAccount, Account, None
<1>3. /\ \A o \in Owner : ~account[o].exists /\ workspace[o] = None
      /\ \A w \in Worker, o \in Owner : ~Provider(w, o)
  BY <1>1, <1>2, RestingIsDoing DEF AccountId, Provider
<1>4. QED
  BY <1>1, <1>2, <1>3, RestingIsDoing DEF WorkspaceInv, OneProvider, WorkspaceUsable

LEMMA NextWorkspaceInv == WorkspaceInv /\ [TenantsNext]_tenantsVars => WorkspaceInv'
<1>1. WorkspaceInv /\ UNCHANGED tenantsVars => WorkspaceInv'
  BY DEF tenantsVars, WorkspaceInv, OneProvider, Provider, Provides, WorkspaceUsable, Usable
<1>2. WorkspaceInv /\ TenantsNext => WorkspaceInv'
  <2> SUFFICES ASSUME WorkspaceInv, TenantsNext PROVE WorkspaceInv'
    OBVIOUS
  <2>1. CASE TenantsRestart
    BY <2>1, TenantsRestartStep
  <2>2. ASSUME NEW w \in Worker, NEW o \in Owner, NEW verified \in BOOLEAN, Register(w, o, verified)
        PROVE  WorkspaceInv'
    BY <2>2, RegisterStep
  <2>3. ASSUME NEW w \in Worker,
               \/ RegisterTenant(w) \/ OAuthAccount(w) \/ OAuthTenant(w)
               \/ \E o \in Owner : OAuthRead(w, o)
        PROVE  WorkspaceInv'
    BY <2>3, RegisterTenantStep, OAuthReadStep, OAuthAccountStep, OAuthTenantStep
  <2>4. ASSUME NEW w \in Worker,
               \/ \E o \in Owner :
                     \/ ResendMail(w, o) \/ VerifyAccount(w, o)
                     \/ \E s \in Subject, b \in Batch : MigrateCheck(w, s, o, b)
               \/ SendMail(w) \/ VerifyDone(w) \/ MigrateApply(w)
               \/ \E s \in Subject :
                     \/ Unlink(w, s)
                     \/ \E b \in Batch : ProvisionSubject(w, s, b) \/ ReprovisionSubject(w, s, b)
               \/ \E b \in Batch : RollbackBatch(w, b)
        PROVE  WorkspaceInv'
    BY <2>4, TenantQuietStep
  <2>5. QED
    BY <2>1, <2>2, <2>3, <2>4 DEF TenantsNext
<1>3. QED
  BY <1>1, <1>2

LEMMA AlwaysWorkspaceInv == TenantsSpec => []WorkspaceInv
  BY InitWorkspaceInv, NextWorkspaceInv, PTL DEF TenantsSpec

-----------------------------------------------------------------------------
(* ManagedTenants: links *)

\* A link is made to an account nobody owned, by a subject that was no owner.
TenantLink ==
    {NoLink} \cup [account : AccountId, batch : Batch, ownerCreated : {TRUE}, roleBefore : {"none", "viewer"}]

LinksInv ==
    /\ link \in [Subject -> TenantLink]
    /\ ownerUser \in [AccountId -> Subject \cup {NoBody}]
    /\ member \in [AccountId \X Subject -> Roles]
    /\ \A s \in Subject : link[s] # NoLink => workspace[link[s].account] # None
    /\ LinksReversible

LEMMA NoBodyIsNobody == NoBody \notin Subject /\ NoBody \notin AccountId /\ NoLink.account = NoBody
  BY TenantsAssumption DEF NoBody, AccountId, NoLink

LEMMA LinkStates ==
    ASSUME NEW l \in TenantLink, l # NoLink
    PROVE  /\ l \in [account : AccountId, batch : Batch, ownerCreated : {TRUE}, roleBefore : {"none", "viewer"}]
           /\ l.account \in AccountId /\ l.ownerCreated /\ l.roleBefore \in {"none", "viewer"}
  BY DEF TenantLink

LEMMA TieStep ==
    ASSUME LinksInv, NEW s \in Subject, NEW a \in AccountId, NEW b \in Batch, Tie(s, a, b),
           link[s] = NoLink, \A t \in Subject : link[t].account # a,
           workspace'[a] # None, \A x \in AccountId : workspace[x] # None => workspace'[x] # None
    PROVE  LinksInv'
<1> DEFINE row == LinkRow(s, a, b)
<1>1. /\ link' = [link EXCEPT ![s] = row] /\ ownerUser' = [ownerUser EXCEPT ![a] = s]
      /\ member' = [member EXCEPT ![<<a, s>>] = "owner"]
  BY DEF Tie
<1>2. ownerUser[a] = NoBody
  <2>1. \A t \in Subject : ownerUser[a] # t
    BY DEF LinksInv, LinksReversible
  <2>2. QED
    BY <2>1 DEF LinksInv
<1>3. member[<<a, s>>] \in {"none", "viewer"}
  BY DEF LinksInv, LinksReversible, Roles
<1>4. row \in TenantLink /\ row.account = a /\ row # NoLink
  <2>1. row.account = a /\ row \in TenantLink
    BY <1>2, <1>3 DEF LinkRow, TenantLink
  <2>2. QED
    BY <2>1, NoBodyIsNobody
<1> HIDE DEF row
<1>5. link' \in [Subject -> TenantLink] /\ ownerUser' \in [AccountId -> Subject \cup {NoBody}]
      /\ member' \in [AccountId \X Subject -> Roles]
  BY <1>1, <1>4 DEF LinksInv, Roles
<1>6. ASSUME NEW t \in Subject, link'[t] # NoLink PROVE workspace'[link'[t].account] # None
  <2>1. CASE t = s
    BY <1>1, <1>4, <2>1 DEF LinksInv
  <2>2. CASE t # s
    <3>1. link'[t] = link[t] /\ link[t] \in TenantLink
      BY <1>1, <1>6, <2>2 DEF LinksInv
    <3>2. link[t].account \in AccountId
      BY <1>6, <3>1, LinkStates
    <3>3. QED
      BY <1>6, <3>1, <3>2 DEF LinksInv
  <2>3. QED
    BY <2>1, <2>2
<1>7. ASSUME NEW t \in Subject, NEW x \in AccountId
      PROVE  IF link'[t].account = x THEN ownerUser'[x] = t /\ member'[<<x, t>>] = "owner"
             ELSE ownerUser'[x] # t /\ member'[<<x, t>>] # "owner"
  <2>1. /\ link'[t] = IF t = s THEN row ELSE link[t]
        /\ ownerUser'[x] = IF x = a THEN s ELSE ownerUser[x]
        /\ member'[<<x, t>>] = IF x = a /\ t = s THEN "owner" ELSE member[<<x, t>>]
    BY <1>1, <1>7 DEF LinksInv
  <2>2. IF link[t].account = x THEN ownerUser[x] = t /\ member[<<x, t>>] = "owner"
        ELSE ownerUser[x] # t /\ member[<<x, t>>] # "owner"
    BY <1>7 DEF LinksInv, LinksReversible
  <2>3. link[s].account # x
    BY NoBodyIsNobody
  <2>4. QED
    BY <1>4, <2>1, <2>2, <2>3
<1>8. QED
  BY <1>5, <1>6, <1>7 DEF LinksInv, LinksReversible

LEMMA UntieStep ==
    ASSUME LinksInv, NEW S \in SUBSET Subject, Untie(S), \A s \in S : link[s] # NoLink,
           UNCHANGED workspace
    PROVE  /\ LinksInv'
           /\ \A s \in Subject : link[s] # NoLink /\ link'[s] = NoLink =>
                 member'[<<link[s].account, s>>] = link[s].roleBefore
<1>1. /\ link' = [s \in Subject |-> IF s \in S THEN NoLink ELSE link[s]]
      /\ \A a \in AccountId :
            ownerUser'[a] = IF \E s \in S : link[s].account = a /\ link[s].ownerCreated /\ ownerUser[a] = s
                            THEN NoBody ELSE ownerUser[a]
      /\ \A a \in AccountId, s \in Subject :
            member'[<<a, s>>] = IF s \in S /\ link[s].account = a THEN link[s].roleBefore
                                ELSE member[<<a, s>>]
  BY DEF Untie, RestoredRole
<1>2. \A s \in S : link[s].account \in AccountId /\ link[s].ownerCreated /\ link[s].roleBefore \in {"none", "viewer"}
  BY LinkStates DEF LinksInv
<1>3. ownerUser' \in [AccountId -> Subject \cup {NoBody}]
  <2>1. ownerUser' = [a \in AccountId |-> ownerUser'[a]]
    BY DEF Untie
  <2>2. QED
    BY <1>1, <2>1 DEF LinksInv
<1>4. member' \in [AccountId \X Subject -> Roles]
  <2>1. member' = [p \in AccountId \X Subject |-> IF p[2] \in S /\ link[p[2]].account = p[1]
                                                THEN link[p[2]].roleBefore ELSE member[p]]
    BY DEF Untie, RestoredRole
  <2>2. QED
    BY <1>2, <2>1 DEF LinksInv, Roles
<1>5. link' \in [Subject -> TenantLink]
  BY <1>1 DEF LinksInv, TenantLink
<1>6. \A s \in Subject : link'[s] # NoLink => workspace'[link'[s].account] # None
  BY <1>1 DEF LinksInv
<1>7. ASSUME NEW t \in Subject, NEW x \in AccountId
      PROVE  IF link'[t].account = x THEN ownerUser'[x] = t /\ member'[<<x, t>>] = "owner"
             ELSE ownerUser'[x] # t /\ member'[<<x, t>>] # "owner"
  <2>1. IF link[t].account = x THEN ownerUser[x] = t /\ member[<<x, t>>] = "owner"
        ELSE ownerUser[x] # t /\ member[<<x, t>>] # "owner"
    BY <1>7 DEF LinksInv, LinksReversible
  <2>2. CASE t \in S
    <3>1. link'[t].account # x /\ t # NoBody
      BY <1>1, <1>7, <2>2, NoBodyIsNobody
    <3>2. ownerUser'[x] # t
      BY <1>1, <1>2, <1>7, <2>1, <2>2, <3>1
    <3>3. member'[<<x, t>>] # "owner"
      BY <1>1, <1>2, <1>7, <2>1, <2>2
    <3>4. QED
      BY <3>1, <3>2, <3>3
  <2>3. CASE t \notin S
    <3>1. link'[t] = link[t] /\ member'[<<x, t>>] = member[<<x, t>>]
      BY <1>1, <1>7, <2>3
    <3>2. ownerUser[x] = t => ownerUser'[x] = t
      BY <1>1, <1>7, <2>3
    <3>3. ownerUser[x] # t => ownerUser'[x] # t
      BY <1>1, <1>7, NoBodyIsNobody
    <3>4. QED
      BY <2>1, <3>1, <3>2, <3>3
  <2>4. QED
    BY <2>2, <2>3
<1>8. \A s \in Subject : link[s] # NoLink /\ link'[s] = NoLink =>
         member'[<<link[s].account, s>>] = link[s].roleBefore
  BY <1>1, <1>2
<1>9. QED
  BY <1>3, <1>4, <1>5, <1>6, <1>7, <1>8 DEF LinksInv, LinksReversible

\* No step takes a workspace away.
LEMMA WorkspacesStay ==
    ASSUME WorkspaceInv, [TenantsNext]_tenantsVars, NEW a \in AccountId, workspace[a] # None
    PROVE  workspace'[a] # None
<1>1. ASSUME NEW w \in Worker, RegisterTenant(w) \/ OAuthTenant(w)
      PROVE  workspace'[a] # None
  <2>1. at[w].id # None
    BY <1>1, ProvidersKnown DEF RegisterTenant, OAuthTenant
  <2>2. QED
    BY <1>1, <2>1 DEF RegisterTenant, OAuthTenant, InsertIfMissing, WorkspaceInv
<1>2. ASSUME NEW w \in Worker, NEW s \in Subject, NEW b \in Batch, ProvisionSubject(w, s, b)
      PROVE  workspace'[a] # None
  BY <1>2 DEF ProvisionSubject, Draw, None, WorkspaceInv
<1>3. CASE UNCHANGED workspace
  BY <1>3
<1>4. ASSUME NEW w \in Worker, NEW o \in Owner,
             \/ \E verified \in BOOLEAN : Register(w, o, verified)
             \/ ResendMail(w, o) \/ VerifyAccount(w, o) \/ OAuthRead(w, o)
             \/ \E s \in Subject, b \in Batch : MigrateCheck(w, s, o, b)
      PROVE  UNCHANGED workspace
  BY <1>4 DEF Register, ResendMail, VerifyAccount, OAuthRead, MigrateCheck
<1>5. ASSUME NEW w \in Worker, \/ SendMail(w) \/ VerifyDone(w) \/ OAuthAccount(w) \/ MigrateApply(w)
                              \/ \E b \in Batch : RollbackBatch(w, b)
      PROVE  UNCHANGED workspace
  BY <1>5 DEF SendMail, VerifyDone, OAuthAccount, MigrateApply, RollbackBatch
<1>6. ASSUME NEW w \in Worker, NEW s \in Subject,
             Unlink(w, s) \/ \E b \in Batch : ReprovisionSubject(w, s, b)
      PROVE  UNCHANGED workspace
  BY <1>6 DEF Unlink, ReprovisionSubject
<1>7. TenantsRestart \/ UNCHANGED tenantsVars => UNCHANGED workspace
  BY DEF TenantsRestart, tenantsVars
<1>8. QED
  BY <1>1, <1>2, <1>3, <1>4, <1>5, <1>6, <1>7 DEF TenantsNext

\* A step ties one subject to an account that is free, unties some subjects,
\* or leaves the links alone.
LEMMA LinkSteps ==
    ASSUME WorkspaceInv, LinksInv, [TenantsNext]_tenantsVars
    PROVE  \/ \E s \in Subject, a \in AccountId, b \in Batch :
                /\ Tie(s, a, b) /\ link[s] = NoLink /\ workspace'[a] # None
                /\ \A t \in Subject : link[t].account # a
           \/ \E S \in SUBSET Subject :
                Untie(S) /\ (\A s \in S : link[s] # NoLink) /\ UNCHANGED workspace
           \/ UNCHANGED linkVars
<1> DEFINE Ties == \E s \in Subject, a \in AccountId, b \in Batch :
                      /\ Tie(s, a, b) /\ link[s] = NoLink /\ workspace'[a] # None
                      /\ \A t \in Subject : link[t].account # a
           Unties == \E S \in SUBSET Subject :
                        Untie(S) /\ (\A s \in S : link[s] # NoLink) /\ UNCHANGED workspace
<1>1. ASSUME NEW w \in Worker, NEW s \in Subject, NEW b \in Batch, ProvisionSubject(w, s, b)
      PROVE  Ties
  <2>1. workspace[s] = None /\ workspace'[s] # None /\ Tie(s, s, b) /\ link[s] = NoLink /\ s \in AccountId
    BY <1>1 DEF ProvisionSubject, Draw, None, WorkspaceInv, AccountId
  <2>2. \A t \in Subject : link[t].account # s
    BY <2>1, NoBodyIsNobody, LinkStates DEF LinksInv
  <2>3. QED
    BY <2>1, <2>2
<1>2. ASSUME NEW w \in Worker, NEW s \in Subject, NEW b \in Batch, ReprovisionSubject(w, s, b)
      PROVE  Ties
  BY <1>2 DEF ReprovisionSubject, Linkable, AccountId
<1>3. ASSUME NEW w \in Worker, MigrateApply(w)
      PROVE  Ties \/ UNCHANGED linkVars
  <2>1. at[w].subject \in Subject /\ at[w].owner \in AccountId /\ at[w].batch \in Batch
    BY <1>3, DoingOps DEF MigrateApply, WorkspaceInv, AccountId
  <2>2. QED
    BY <1>3, <2>1 DEF MigrateApply, Linkable
<1>4. ASSUME NEW w \in Worker, NEW s \in Subject, Unlink(w, s)
      PROVE  Unties
  BY <1>4 DEF Unlink
<1>5. ASSUME NEW w \in Worker, NEW b \in Batch, RollbackBatch(w, b)
      PROVE  Unties
  <2>1. Untie({s \in Subject : link[s] # NoLink /\ link[s].batch = b}) /\ UNCHANGED workspace
    BY <1>5 DEF RollbackBatch
  <2>2. QED
    BY <2>1
<1>6. ASSUME NEW w \in Worker,
             \/ \E o \in Owner :
                   \/ \E verified \in BOOLEAN : Register(w, o, verified)
                   \/ ResendMail(w, o) \/ VerifyAccount(w, o) \/ OAuthRead(w, o)
                   \/ \E s \in Subject, b \in Batch : MigrateCheck(w, s, o, b)
             \/ RegisterTenant(w) \/ SendMail(w) \/ VerifyDone(w) \/ OAuthAccount(w) \/ OAuthTenant(w)
      PROVE  UNCHANGED linkVars
  BY <1>6
     DEF Register, RegisterTenant, ResendMail, VerifyAccount, OAuthRead, MigrateCheck, SendMail,
         VerifyDone, OAuthAccount, OAuthTenant
<1>7. CASE TenantsRestart \/ UNCHANGED tenantsVars
  BY <1>7 DEF TenantsRestart, tenantsVars, linkVars
<1>8. Ties \/ Unties \/ UNCHANGED linkVars
  BY <1>1, <1>2, <1>3, <1>4, <1>5, <1>6, <1>7 DEF TenantsNext
<1>9. QED
  BY <1>8

LEMMA InitLinksInv == TenantsInit => LinksInv
  BY NoBodyIsNobody
     DEF TenantsInit, LinksInv, LinksReversible, TenantLink, Roles

LEMMA NextLinksInv ==
    ASSUME WorkspaceInv, LinksInv, [TenantsNext]_tenantsVars
    PROVE  /\ LinksInv'
           /\ \A s \in Subject : link[s] # NoLink /\ link'[s] = NoLink =>
                 member'[<<link[s].account, s>>] = link[s].roleBefore
<1>1. \A x \in AccountId : workspace[x] # None => workspace'[x] # None
  BY WorkspacesStay
<1>2. CASE \E s \in Subject, a \in AccountId, b \in Batch :
             /\ Tie(s, a, b) /\ link[s] = NoLink /\ workspace'[a] # None
             /\ \A t \in Subject : link[t].account # a
  <2>1. LinksInv'
    BY <1>1, <1>2, TieStep
  <2>2. \A t \in Subject : link[t] # NoLink => link'[t] = link[t]
    BY <1>2 DEF Tie, LinksInv
  <2>3. QED
    BY <2>1, <2>2
<1>3. CASE \E S \in SUBSET Subject :
             Untie(S) /\ (\A s \in S : link[s] # NoLink) /\ UNCHANGED workspace
  BY <1>3, UntieStep
<1>4. CASE UNCHANGED linkVars
  <2>1. \A s \in Subject : link[s] # NoLink => link[s].account \in AccountId
    BY LinkStates DEF LinksInv
  <2>2. QED
    BY <1>1, <1>4, <2>1 DEF linkVars, LinksInv, LinksReversible
<1>5. QED
  BY <1>2, <1>3, <1>4, LinkSteps

LEMMA AlwaysLinksInv == TenantsSpec => []LinksInv
<1>1. WorkspaceInv /\ LinksInv /\ [TenantsNext]_tenantsVars => LinksInv'
  BY NextLinksInv
<1>2. QED
  BY AlwaysWorkspaceInv, InitLinksInv, <1>1, PTL DEF TenantsSpec

(***************************************************************************)
(* Over any overlap of registrations, sign-ins, migrations, rollbacks and  *)
(* restarts, an account that was not torn has the workspace its profile    *)
(* names, links own what they say they own, and who unlinks a subject puts *)
(* its role back (managed/control.py).                                     *)
(***************************************************************************)
THEOREM TenantsAlwaysHold == TenantsSpec => TenantsHold
<1>1. WorkspaceInv /\ LinksInv /\ [TenantsNext]_tenantsVars
        => [\A s \in Subject : link[s] # NoLink /\ link'[s] = NoLink =>
               member'[<<link[s].account, s>>] = link[s].roleBefore]_tenantsVars
  BY NextLinksInv
<1>2. WorkspaceInv => WorkspaceUsable
  BY DEF WorkspaceInv
<1>3. LinksInv => LinksReversible
  BY DEF LinksInv
<1>4. QED
  BY AlwaysWorkspaceInv, AlwaysLinksInv, <1>1, <1>2, <1>3, PTL DEF TenantsSpec, TenantsHold, RolesRestored

-----------------------------------------------------------------------------
(* ManagedTenants: the workspace ids that were drawn *)

\* A request that has drawn a workspace, or found one, names it.
Naming(w) == at[w].op \in {"insert", "join", "tenant"}

DrawnFits ==
    /\ drawn <= MaxTenants /\ tenantCalls \in 0 .. MaxTenantCalls
    /\ \A a \in AccountId : workspace[a] <= drawn
    /\ \A o \in Owner : account[o].profile <= drawn
    /\ \A w \in Worker : Naming(w) => at[w].id <= drawn

LEMMA DrawnNumbers ==
    ASSUME WorkspaceInv
    PROVE  /\ drawn \in Nat /\ \A a \in AccountId : workspace[a] \in Nat
           /\ \A o \in Owner : account[o].profile \in Nat
           /\ \A w \in Worker : Naming(w) => at[w].id \in Nat /\ at[w].owner \in Owner
  BY DoingOps DEF WorkspaceInv, Account, Naming

\* One request moves; the ids it writes and keeps were drawn by then.
LEMMA DrawnStep ==
    ASSUME WorkspaceInv, WorkspaceInv', DrawnFits, NEW w \in Worker, NEW next, at' = [at EXCEPT ![w] = next],
           drawn <= drawn', drawn' <= MaxTenants, tenantCalls' \in 0 .. MaxTenantCalls,
           \A a \in AccountId : workspace'[a] = workspace[a] \/ workspace'[a] <= drawn',
           \A o \in Owner : account'[o].profile = account[o].profile \/ account'[o].profile <= drawn',
           next.op \in {"insert", "join", "tenant"} => next.id <= drawn'
    PROVE  DrawnFits'
<1>1. drawn \in Nat /\ drawn' \in Nat /\ at \in [Worker -> Doing]
  BY DEF WorkspaceInv
<1>2. ASSUME NEW a \in AccountId PROVE workspace'[a] <= drawn'
  <2>1. workspace[a] \in Nat /\ workspace[a] <= drawn
    BY DrawnNumbers DEF DrawnFits
  <2>2. QED
    BY <1>1, <2>1
<1>3. ASSUME NEW o \in Owner PROVE account'[o].profile <= drawn'
  <2>1. account[o].profile \in Nat /\ account[o].profile <= drawn
    BY DrawnNumbers DEF DrawnFits
  <2>2. QED
    BY <1>1, <2>1
<1>4. ASSUME NEW v \in Worker, Naming(v)' PROVE at'[v].id <= drawn'
  <2>1. CASE v = w
    BY <1>1, <1>4, <2>1 DEF Naming
  <2>2. CASE v # w
    <3>1. at'[v] = at[v] /\ Naming(v)
      BY <1>1, <1>4, <2>2 DEF Naming
    <3>2. at[v].id \in Nat /\ at[v].id <= drawn
      BY <3>1, DrawnNumbers DEF DrawnFits
    <3>3. QED
      BY <1>1, <3>1, <3>2
  <2>3. QED
    BY <2>1, <2>2
<1>5. QED
  BY <1>2, <1>3, <1>4 DEF DrawnFits

LEMMA ArrivalCounted ==
    ASSUME DrawnFits, NEW w \in Worker, NEW next, Arrive(w, next) \/ GoOn(w, next)
    PROVE  at' = [at EXCEPT ![w] = next] /\ tenantCalls' \in 0 .. MaxTenantCalls
  BY TenantsAssumption DEF DrawnFits, Arrive, GoOn

LEMMA DrawCounted ==
    ASSUME WorkspaceInv, Draw
    PROVE  drawn' = drawn + 1 /\ drawn <= drawn' /\ drawn' <= MaxTenants /\ drawn' <= drawn'
  BY TenantsAssumption DEF WorkspaceInv, Draw

\* The requests that draw an id, or pass on one that was drawn.
LEMMA ProvidersFit ==
    ASSUME WorkspaceInv, WorkspaceInv', DrawnFits, NEW w \in Worker,
           \/ \E o \in Owner : \/ \E verified \in BOOLEAN : Register(w, o, verified)
                               \/ OAuthRead(w, o)
           \/ RegisterTenant(w) \/ OAuthAccount(w) \/ OAuthTenant(w)
           \/ \E s \in Subject, b \in Batch : ProvisionSubject(w, s, b)
    PROVE  DrawnFits'
<1>1. /\ drawn \in Nat /\ drawn' \in Nat /\ drawn <= drawn /\ drawn <= MaxTenants
      /\ account \in [Owner -> Account] /\ workspace \in [AccountId -> Nat] /\ at[w] \in Doing
  BY DEF WorkspaceInv, DrawnFits
<1>2. ASSUME NEW o \in Owner, NEW verified \in BOOLEAN, Register(w, o, verified) PROVE DrawnFits'
  <2>1. PICK next : next = [op |-> "insert", owner |-> o, id |-> drawn']
    OBVIOUS
  <2>2. Arrive(w, next) /\ Draw /\ workspace' = workspace
    BY <1>2, <2>1 DEF Register
  <2>3. \A p \in Owner : account'[p].profile = account[p].profile \/ account'[p].profile <= drawn'
    BY <1>1, <1>2 DEF Register
  <2>4. next.id <= drawn'
    BY <1>1, <2>1
  <2>5. QED
    BY <2>2, <2>3, <2>4, ArrivalCounted, DrawCounted, DrawnStep
<1>3. ASSUME NEW o \in Owner, OAuthRead(w, o) PROVE DrawnFits'
  <2>1. UNCHANGED <<account, workspace>>
    BY <1>3 DEF OAuthRead
  <2>2. CASE workspace[o] # None /\ account[o].exists
    <3>1. PICK next : next = [op |-> "join", owner |-> o, id |-> workspace[o]]
      OBVIOUS
    <3>2. Arrive(w, next) /\ drawn' = drawn
      BY <1>3, <2>2, <3>1 DEF OAuthRead
    <3>3. next.id <= drawn'
      BY <3>1, <3>2 DEF DrawnFits, AccountId
    <3>4. QED
      BY <1>1, <2>1, <3>2, <3>3, ArrivalCounted, DrawnStep
  <2>3. CASE ~(workspace[o] # None /\ account[o].exists)
    <3>1. PICK next : next = [op |-> "join", owner |-> o, id |-> drawn']
      OBVIOUS
    <3>2. Arrive(w, next) /\ Draw
      BY <1>3, <2>3, <3>1 DEF OAuthRead
    <3>3. next.id <= drawn'
      BY <1>1, <3>1
    <3>4. QED
      BY <2>1, <3>2, <3>3, ArrivalCounted, DrawCounted, DrawnStep
  <2>4. QED
    BY <2>2, <2>3
<1>4. CASE RegisterTenant(w)
  <2>1. Naming(w) /\ at[w].id <= drawn
    BY <1>4 DEF RegisterTenant, Naming, DrawnFits
  <2>2. PICK next : GoOn(w, next) /\ (next = Resting \/ next.op = "mail")
    BY <1>4 DEF RegisterTenant
  <2>3. next.op \notin {"insert", "join", "tenant"}
    BY <2>2 DEF Resting
  <2>4. UNCHANGED <<account, drawn>> /\ workspace' = [workspace EXCEPT ![at[w].owner] = at[w].id]
    BY <1>4 DEF RegisterTenant
  <2>5. \A a \in AccountId : workspace'[a] = workspace[a] \/ workspace'[a] <= drawn'
    BY <1>1, <2>1, <2>4
  <2>6. QED
    BY <1>1, <2>2, <2>3, <2>4, <2>5, ArrivalCounted, DrawnStep
<1>5. CASE OAuthAccount(w)
  <2>1. Naming(w) /\ at[w].id <= drawn /\ at[w].op = "join"
    BY <1>5 DEF OAuthAccount, Naming, DrawnFits
  <2>2. at[w] \in [op : {"insert", "join", "tenant"}, owner : Owner, id : Nat \ {None}]
    BY <1>1, <2>1, DoingOps
  <2>3. PICK next : next = [at[w] EXCEPT !.op = "tenant"]
    OBVIOUS
  <2>4. next.id = at[w].id
    BY <2>2, <2>3
  <2>5. GoOn(w, next) /\ UNCHANGED <<workspace, drawn>>
    BY <1>5, <2>3 DEF OAuthAccount
  <2>6. \A o \in Owner : account'[o].profile = account[o].profile \/ account'[o].profile <= drawn'
    BY <1>1, <1>5, <2>1, <2>2, <2>5 DEF OAuthAccount, Account
  <2>7. QED
    BY <1>1, <2>1, <2>4, <2>5, <2>6, ArrivalCounted, DrawnStep
<1>6. CASE OAuthTenant(w)
  <2>1. Naming(w) /\ at[w].id <= drawn /\ at[w].owner \in Owner
    BY <1>6, DrawnNumbers DEF OAuthTenant, Naming, DrawnFits
  <2>2. GoOn(w, Resting) /\ UNCHANGED <<account, drawn>> /\ Resting.op = "rest"
    BY <1>6 DEF OAuthTenant, Resting
  <2>3. \A a \in AccountId : workspace'[a] = workspace[a] \/ workspace'[a] <= drawn'
    BY <1>1, <1>6, <2>1, <2>2 DEF OAuthTenant, InsertIfMissing
  <2>4. QED
    BY <1>1, <2>2, <2>3, ArrivalCounted, DrawnStep
<1>7. ASSUME NEW s \in Subject, NEW b \in Batch, ProvisionSubject(w, s, b) PROVE DrawnFits'
  <2>1. Arrive(w, Resting) /\ Draw /\ account' = account /\ Resting.op = "rest"
    BY <1>7 DEF ProvisionSubject, Resting
  <2>2. \A a \in AccountId : workspace'[a] = workspace[a] \/ workspace'[a] <= drawn'
    BY <1>1, <1>7 DEF ProvisionSubject
  <2>3. QED
    BY <2>1, <2>2, ArrivalCounted, DrawCounted, DrawnStep
<1>8. QED
  BY <1>2, <1>3, <1>4, <1>5, <1>6, <1>7

\* The others write no id and keep none.
LEMMA UnnamingStep ==
    ASSUME WorkspaceInv, WorkspaceInv', DrawnFits, NEW w \in Worker, NEW next,
           Arrive(w, next) \/ GoOn(w, next), next.op \notin {"insert", "join", "tenant"},
           UNCHANGED <<workspace, drawn>>, \A o \in Owner : account'[o].profile = account[o].profile
    PROVE  DrawnFits'
<1>1. drawn \in Nat /\ drawn <= drawn /\ drawn <= MaxTenants
  BY DEF WorkspaceInv, DrawnFits
<1>2. QED
  BY <1>1, ArrivalCounted, DrawnStep

LEMMA VerifyDrawn ==
    ASSUME WorkspaceInv, WorkspaceInv', DrawnFits, NEW w \in Worker, NEW o \in Owner, VerifyAccount(w, o)
    PROVE  DrawnFits'
<1>1. PICK next : next = [op |-> "verified", owner |-> o]
  OBVIOUS
<1>2. Arrive(w, next) /\ next.op = "verified" /\ UNCHANGED <<workspace, drawn>>
  BY <1>1 DEF VerifyAccount
<1>3. \A p \in Owner : account'[p].profile = account[p].profile
  BY DEF VerifyAccount, WorkspaceInv, Account
<1>4. QED
  BY <1>2, <1>3, UnnamingStep

LEMMA MailAndChecksDrawn ==
    ASSUME WorkspaceInv, WorkspaceInv', DrawnFits, NEW w \in Worker, NEW o \in Owner,
           ResendMail(w, o) \/ \E s \in Subject, b \in Batch : MigrateCheck(w, s, o, b)
    PROVE  DrawnFits'
<1>1. CASE ResendMail(w, o)
  <2>1. PICK next : next = [op |-> "mail", owner |-> o]
    OBVIOUS
  <2>2. Arrive(w, next) /\ next.op = "mail" /\ UNCHANGED <<account, workspace, drawn>>
    BY <1>1, <2>1 DEF ResendMail
  <2>3. QED
    BY <2>2, UnnamingStep
<1>2. ASSUME NEW s \in Subject, NEW b \in Batch, MigrateCheck(w, s, o, b) PROVE DrawnFits'
  <2>1. PICK next : next = [op |-> "apply", subject |-> s, owner |-> o, batch |-> b]
    OBVIOUS
  <2>2. Arrive(w, next) /\ next.op = "apply" /\ UNCHANGED <<account, workspace, drawn>>
    BY <1>2, <2>1 DEF MigrateCheck
  <2>3. QED
    BY <2>2, UnnamingStep
<1>3. QED
  BY <1>1, <1>2

LEMMA LinksDrawn ==
    ASSUME WorkspaceInv, WorkspaceInv', DrawnFits, NEW w \in Worker,
           \/ SendMail(w) \/ VerifyDone(w) \/ MigrateApply(w)
           \/ \E s \in Subject :
                 \/ Unlink(w, s)
                 \/ \E b \in Batch : ReprovisionSubject(w, s, b)
           \/ \E b \in Batch : RollbackBatch(w, b)
    PROVE  DrawnFits'
<1>1. Resting.op = "rest"
  BY DEF Resting
<1>2. ASSUME SendMail(w) \/ VerifyDone(w) \/ MigrateApply(w)
      PROVE  GoOn(w, Resting) /\ UNCHANGED <<account, workspace, drawn>>
  BY <1>2 DEF SendMail, VerifyDone, MigrateApply
<1>3. ASSUME NEW s \in Subject, Unlink(w, s)
      PROVE  Arrive(w, Resting) /\ UNCHANGED <<account, workspace, drawn>>
  BY <1>3 DEF Unlink
<1>4. ASSUME NEW s \in Subject, NEW b \in Batch, ReprovisionSubject(w, s, b)
      PROVE  Arrive(w, Resting) /\ UNCHANGED <<account, workspace, drawn>>
  BY <1>4 DEF ReprovisionSubject
<1>5. ASSUME NEW b \in Batch, RollbackBatch(w, b)
      PROVE  Arrive(w, Resting) /\ UNCHANGED <<account, workspace, drawn>>
  BY <1>5 DEF RollbackBatch
<1>6. (Arrive(w, Resting) \/ GoOn(w, Resting)) /\ UNCHANGED <<account, workspace, drawn>>
  BY <1>2, <1>3, <1>4, <1>5
<1>7. QED
  BY <1>1, <1>6, UnnamingStep

LEMMA InitDrawnFits == TenantsInit => DrawnFits
<1> SUFFICES ASSUME TenantsInit PROVE DrawnFits
  OBVIOUS
<1>1. /\ drawn = 0 /\ tenantCalls = 0 /\ workspace = [a \in AccountId |-> None]
      /\ account = [o \in Owner |-> NoAccount] /\ at = [w \in Worker |-> Resting]
  BY DEF TenantsInit
<1>2. None = 0 /\ NoAccount.profile = 0 /\ Resting.op = "rest"
  BY DEF None, NoAccount, Resting
<1>3. QED
  BY <1>1, <1>2, TenantsAssumption DEF DrawnFits, Naming

LEMMA NextDrawnFits ==
    ASSUME WorkspaceInv, WorkspaceInv', DrawnFits, [TenantsNext]_tenantsVars
    PROVE  DrawnFits'
<1>1. CASE TenantsRestart
  BY <1>1 DEF TenantsRestart, DrawnFits, Naming, Resting
<1>2. CASE UNCHANGED tenantsVars
  BY <1>2 DEF tenantsVars, DrawnFits, Naming
<1>3. QED
  BY <1>1, <1>2, ProvidersFit, VerifyDrawn, MailAndChecksDrawn, LinksDrawn DEF TenantsNext

(***************************************************************************)
(* Every workspace an account or a tenant row names was drawn, no more     *)
(* were drawn than the bound, and who owns or is a member of a workspace   *)
(* is a subject (managed/control.py).                                      *)
(***************************************************************************)
THEOREM TenantsTyped == TenantsSpec => []TenantsTypeOK
<1>1. WorkspaceInv /\ WorkspaceInv' /\ DrawnFits /\ [TenantsNext]_tenantsVars => DrawnFits'
  BY NextDrawnFits
<1>2. WorkspaceInv /\ LinksInv /\ DrawnFits => TenantsTypeOK
  <2> SUFFICES ASSUME WorkspaceInv, LinksInv, DrawnFits PROVE TenantsTypeOK
    OBVIOUS
  <2>1. drawn \in Nat /\ drawn <= MaxTenants /\ MaxTenants \in Nat
    BY TenantsAssumption DEF WorkspaceInv, DrawnFits
  <2>2. \A a \in AccountId : workspace[a] \in 0 .. MaxTenants
    BY <2>1, DrawnNumbers DEF DrawnFits
  <2>3. \A o \in Owner : account[o].profile \in 0 .. MaxTenants
    BY <2>1, DrawnNumbers DEF DrawnFits
  <2>4. QED
    BY <2>2, <2>3 DEF TenantsTypeOK, DrawnFits, LinksInv, WorkspaceInv
<1>3. QED
  BY AlwaysWorkspaceInv, AlwaysLinksInv, InitDrawnFits, <1>1, <1>2, PTL DEF TenantsSpec

-----------------------------------------------------------------------------
(* ManagedBilling *)

SubStatus == {"active", "past_due", "canceled"}
PlanName  == PaidPlan \cup {"free"}

ClerkState ==
    {AtDesk}
    \cup [op : {"attempt", "session", "record"}, plan : PaidPlan]
    \cup [op : {"apply"}, event : Nat, seen : SubStatus]
    \cup [op : {"store"}, key : Key]

TenantRow  == [plan : PlanName, status : SubStatus \cup {"free"}, sub : Nat, customer : BOOLEAN, paid : BOOLEAN]
PendingRow == [attempt : Nat, plan : PlanName, recorded : BOOLEAN]
PageRow    == [status : {"none", "open", "complete", "expired"}, plan : PlanName]

BillingTypes ==
    /\ tenant \in TenantRow /\ pending \in PendingRow
    /\ page \in [Attempt -> PageRow] /\ sub \in [Attempt -> SubStatus \cup {"none"}]
    /\ event \in Seq([sub : Attempt, status : SubStatus]) /\ handled \subseteq DOMAIN event
    /\ clerk \in [Clerk -> ClerkState] /\ ledger \in Clerk \cup {NoClerk}
    /\ attempts \in 0 .. MaxAttempt
    /\ charges \in [Key -> Nat] /\ operations \subseteq Key /\ ChargedOnce

\* Only the attempt on record has a session that was not given up, and a
\* subscription comes from a session that was paid.
PagesOfAttempt ==
    /\ pending = NoAttempt \/ pending.attempt \in Attempt
    /\ \A a \in Attempt : /\ page[a].status \in {"open", "complete"} => a = pending.attempt
                          /\ (sub[a] # "none") = (page[a].status = "complete")

\* What a clerk does next fits the record and the holder of the transaction.
ClerkFits(c) ==
    /\ clerk[c].op \in {"session", "record"} => pending.attempt \in Attempt
    /\ clerk[c].op \in {"record", "apply"} => ledger = c
    /\ clerk[c].op = "apply" =>
          /\ clerk[c].event \in DOMAIN event
          /\ \/ clerk[c].seen = sub[event[clerk[c].event].sub]
             \/ \E i \in DOMAIN event : i \notin handled /\ i # clerk[c].event

\* Events and the tenant name subscriptions that began, and a tenant that
\* missed the latest change of its subscription has an event to come.
Settling ==
    /\ \A i \in DOMAIN event : event[i].sub \in Attempt /\ sub[event[i].sub] # "none"
    /\ tenant.sub # 0 =>
          /\ tenant.sub \in Attempt /\ sub[tenant.sub] # "none"
          /\ handled = DOMAIN event => tenant.status = sub[tenant.sub]

BillingInv == BillingTypes /\ PagesOfAttempt /\ (\A c \in Clerk : ClerkFits(c)) /\ Settling

LEMMA ClerkOps ==
    ASSUME NEW k \in ClerkState
    PROVE  /\ k.op \in {"attempt", "session", "record"} =>
                k \in [op : {"attempt", "session", "record"}, plan : PaidPlan]
           /\ k.op = "apply" => k \in [op : {"apply"}, event : Nat, seen : SubStatus]
           /\ k.op = "store" => k \in [op : {"store"}, key : Key]
           /\ AtDesk \in ClerkState /\ AtDesk.op = "desk"
  BY DEF ClerkState, AtDesk

LEMMA AttemptIsNat == Attempt \subseteq Nat \ {0}
  BY BillingAssumption DEF Attempt

LEMMA InitBillingInv == BillingInit => BillingInv
<1> SUFFICES ASSUME BillingInit PROVE BillingInv
  OBVIOUS
<1>1. BillingTypes
  <2>1. /\ tenant \in TenantRow /\ pending \in PendingRow /\ page \in [Attempt -> PageRow]
    BY DEF BillingInit, TenantRow, PendingRow, PageRow, PlanName, NoAttempt
  <2>2. AtDesk \in ClerkState
    BY DEF ClerkState
  <2>3. event \in Seq([sub : Attempt, status : SubStatus]) /\ DOMAIN event = {}
    BY DEF BillingInit
  <2>4. QED
    BY <2>1, <2>2, <2>3, BillingAssumption DEF BillingInit, BillingTypes, ChargedOnce
<1>2. PagesOfAttempt
  BY DEF BillingInit, PagesOfAttempt
<1>3. \A c \in Clerk : ClerkFits(c)
  BY DEF BillingInit, ClerkFits, AtDesk
<1>4. Settling
  BY DEF BillingInit, Settling
<1>5. QED
  BY <1>1, <1>2, <1>3, <1>4 DEF BillingInv

\* A clerk that goes on to a state it may be in, with nothing else changed
\* that is said of the other clerks.
LEMMA ClerkMoves ==
    ASSUME BillingInv, NEW c \in Clerk, NEW next \in ClerkState, clerk' = [clerk EXCEPT ![c] = next],
           UNCHANGED <<sub, event, handled>>,
           pending.attempt \in Attempt => pending'.attempt \in Attempt,
           \A d \in Clerk : ledger = d /\ d # c => ledger' = d,
           next.op \in {"session", "record"} => pending'.attempt \in Attempt,
           next.op \in {"record", "apply"} => ledger' = c,
           next.op = "apply" => next.event \in DOMAIN event /\ next.seen = sub[event[next.event].sub]
    PROVE  clerk' \in [Clerk -> ClerkState] /\ \A d \in Clerk : ClerkFits(d)'
<1>1. clerk' \in [Clerk -> ClerkState] /\ clerk'[c] = next
      /\ \A d \in Clerk \ {c} : clerk'[d] = clerk[d]
  BY DEF BillingInv, BillingTypes
<1>2. ASSUME NEW d \in Clerk, d # c PROVE ClerkFits(d)'
  BY <1>1, <1>2 DEF BillingInv, ClerkFits
<1>3. ClerkFits(c)'
  BY <1>1 DEF ClerkFits
<1>4. QED
  BY <1>1, <1>2, <1>3

\* The provider changes a subscription and emits an event no clerk holds and
\* none has handled: whatever a clerk read before is made good by it.
LEMMA EmitStep ==
    ASSUME BillingInv, NEW a \in Attempt, NEW status \in SubStatus, Emit(a, status),
           a = pending.attempt,
           page' \in [Attempt -> PageRow],
           page'[a].status = "complete", \A b \in Attempt : b # a => page'[b] = page[b],
           UNCHANGED <<tenant, pending, handled, amount, operations, charges, stored, clerk, ledger,
                       attempts, billingCalls>>
    PROVE  BillingInv'
<1> DEFINE row == [sub |-> a, status |-> status]
<1>1. row \in [sub : Attempt, status : SubStatus] /\ row.sub = a
  OBVIOUS
<1>2. /\ event' = Append(event, row) /\ sub' = [sub EXCEPT ![a] = status]
      /\ event \in Seq([sub : Attempt, status : SubStatus])
      /\ sub \in [Attempt -> SubStatus \cup {"none"}]
      /\ handled \subseteq DOMAIN event
  BY DEF Emit, BillingInv, BillingTypes
<1> HIDE DEF row
<1>3. /\ event' \in Seq([sub : Attempt, status : SubStatus])
      /\ DOMAIN event = 1 .. Len(event) /\ DOMAIN event' = 1 .. Len(event) + 1
      /\ Len(event) \in Nat
      /\ event'[Len(event) + 1] = row /\ \A i \in DOMAIN event : event'[i] = event[i]
  BY <1>1, <1>2
<1>4. /\ sub' \in [Attempt -> SubStatus \cup {"none"}] /\ sub'[a] = status /\ status # "none"
      /\ \A b \in Attempt : b # a => sub'[b] = sub[b]
  BY <1>2 DEF SubStatus
<1>5. Len(event) + 1 \in DOMAIN event' /\ Len(event) + 1 \notin DOMAIN event /\ DOMAIN event \subseteq DOMAIN event'
  BY <1>3
<1>6. BillingTypes'
  BY <1>2, <1>3, <1>4, <1>5 DEF BillingInv, BillingTypes, ChargedOnce, ClerkState
<1>7. PagesOfAttempt'
  BY <1>4 DEF BillingInv, PagesOfAttempt
<1>8. ASSUME NEW c \in Clerk PROVE ClerkFits(c)'
  <2>1. clerk[c].op = "apply" =>
            /\ clerk[c].event \in DOMAIN event'
            /\ \E i \in DOMAIN event' : i \notin handled /\ i # clerk[c].event
    BY <1>2, <1>5 DEF BillingInv, ClerkFits
  <2>2. QED
    BY <2>1 DEF BillingInv, ClerkFits
<1>9. Settling'
  <2>1. \A i \in DOMAIN event' : event'[i].sub \in Attempt /\ sub'[event'[i].sub] # "none"
    BY <1>1, <1>3, <1>4 DEF BillingInv, Settling
  <2>2. handled' # DOMAIN event'
    BY <1>2, <1>5
  <2>3. QED
    BY <1>4, <2>1, <2>2 DEF BillingInv, Settling
<1>10. QED
  BY <1>6, <1>7, <1>8, <1>9 DEF BillingInv

LEMMA ProviderSteps ==
    ASSUME BillingInv, NEW a \in Attempt,
           Pay(a) \/ SessionRunsOut(a) \/ \E status \in SubStatus : SubscriptionMoves(a, status)
    PROVE  BillingInv'
<1>1. page \in [Attempt -> PageRow] /\ page[a] \in PageRow
  BY DEF BillingInv, BillingTypes
<1>2. CASE Pay(a)
  <2>1. page' = [page EXCEPT ![a] = [@ EXCEPT !.status = "complete"]]
    BY <1>2 DEF Pay
  <2>2. [page[a] EXCEPT !.status = "complete"] \in PageRow
    BY <1>1 DEF PageRow
  <2>3. [page[a] EXCEPT !.status = "complete"].status = "complete"
    BY <1>1 DEF PageRow
  <2>4. /\ page' \in [Attempt -> PageRow] /\ page'[a].status = "complete"
        /\ \A b \in Attempt : b # a => page'[b] = page[b]
    BY <1>1, <2>1, <2>2, <2>3
  <2>5. a = pending.attempt /\ "active" \in SubStatus
    BY <1>2 DEF Pay, BillingInv, PagesOfAttempt, SubStatus
  <2>6. QED
    BY <1>2, <2>4, <2>5, EmitStep DEF Pay, usageVars
<1>3. CASE SessionRunsOut(a)
  <2>1. page' = [page EXCEPT ![a] = [@ EXCEPT !.status = "expired"]]
    BY <1>3 DEF SessionRunsOut
  <2>2. [page[a] EXCEPT !.status = "expired"] \in PageRow
    BY <1>1 DEF PageRow
  <2>3. [page[a] EXCEPT !.status = "expired"].status = "expired"
    BY <1>1 DEF PageRow
  <2>4. /\ page' \in [Attempt -> PageRow] /\ page'[a].status = "expired"
        /\ \A b \in Attempt : b # a => page'[b] = page[b]
    BY <1>1, <2>1, <2>2, <2>3
  <2>5. BillingTypes'
    BY <1>3, <2>4 DEF SessionRunsOut, usageVars, BillingInv, BillingTypes, ChargedOnce, ClerkState
  <2>6. PagesOfAttempt'
    BY <1>3, <2>4 DEF SessionRunsOut, BillingInv, PagesOfAttempt
  <2>7. (\A c \in Clerk : ClerkFits(c)) ' /\ Settling'
    BY <1>3 DEF SessionRunsOut, usageVars, BillingInv, ClerkFits, Settling
  <2>8. QED
    BY <2>5, <2>6, <2>7 DEF BillingInv
<1>4. ASSUME NEW status \in SubStatus, SubscriptionMoves(a, status) PROVE BillingInv'
  <2>1. page[a].status = "complete" /\ a = pending.attempt
    BY <1>4 DEF SubscriptionMoves, BillingInv, PagesOfAttempt
  <2>2. page' = page
    BY <1>4 DEF SubscriptionMoves
  <2>3. QED
    BY <1>1, <1>4, <2>1, <2>2, EmitStep DEF SubscriptionMoves, usageVars
<1>5. QED
  BY <1>2, <1>3, <1>4

\* A step of a clerk that leaves the sessions and subscriptions at the provider
\* alone keeps what is said of them.
LEMMA ClerkStep ==
    ASSUME BillingInv, NEW c \in Clerk, NEW next \in ClerkState, clerk' = [clerk EXCEPT ![c] = next],
           UNCHANGED <<sub, event, handled, page, pending>>,
           tenant' \in TenantRow, tenant'.sub = tenant.sub, tenant'.status = tenant.status,
           ledger' \in Clerk \cup {NoClerk},
           \A d \in Clerk : ledger = d /\ d # c => ledger' = d,
           next.op \in {"session", "record"} => pending.attempt \in Attempt,
           next.op \in {"record", "apply"} => ledger' = c,
           next.op = "apply" => next.event \in DOMAIN event /\ next.seen = sub[event[next.event].sub],
           attempts' = attempts,
           charges' \in [Key -> Nat] /\ operations' \subseteq Key /\ ChargedOnce'
    PROVE  BillingInv'
<1>1. clerk' \in [Clerk -> ClerkState] /\ \A d \in Clerk : ClerkFits(d)'
  BY ClerkMoves
<1>2. BillingTypes'
  BY <1>1 DEF BillingInv, BillingTypes
<1>3. PagesOfAttempt' /\ Settling'
  BY DEF BillingInv, PagesOfAttempt, Settling
<1>4. QED
  BY <1>1, <1>2, <1>3 DEF BillingInv

LEMMA CheckoutSteps ==
    ASSUME BillingInv, NEW c \in Clerk,
           \/ \E p \in PaidPlan : CheckoutCustomer(c, p)
           \/ CheckoutAnswered(c) \/ CheckoutProcessing(c)
    PROVE  BillingInv'
<1>1. /\ AtDesk \in ClerkState /\ AtDesk.op = "desk" /\ tenant \in TenantRow
      /\ ledger \in Clerk \cup {NoClerk} /\ charges \in [Key -> Nat] /\ operations \subseteq Key /\ ChargedOnce
  BY DEF ClerkState, AtDesk, BillingInv, BillingTypes
<1>2. ASSUME NEW p \in PaidPlan, CheckoutCustomer(c, p) PROVE BillingInv'
  <2> DEFINE next == [op |-> "attempt", plan |-> p]
  <2>1. next \in ClerkState /\ next.op = "attempt"
    BY DEF ClerkState
  <2>2. clerk' = [clerk EXCEPT ![c] = next]
    BY <1>2 DEF CheckoutCustomer, Request
  <2> HIDE DEF next
  <2>3. tenant' \in TenantRow /\ tenant'.sub = tenant.sub /\ tenant'.status = tenant.status
    BY <1>1, <1>2 DEF CheckoutCustomer, TenantRow
  <2>4. UNCHANGED <<pending, handled, amount, operations, charges, stored, page, sub, event, ledger, attempts>>
    BY <1>2 DEF CheckoutCustomer, usageVars, providerVars
  <2>5. ChargedOnce'
    BY <1>1, <2>4 DEF ChargedOnce
  <2>6. QED
    BY <1>1, <2>1, <2>2, <2>3, <2>4, <2>5, ClerkStep
<1>3. ASSUME CheckoutAnswered(c) \/ CheckoutProcessing(c) PROVE BillingInv'
  <2>1. /\ clerk' = [clerk EXCEPT ![c] = AtDesk]
        /\ UNCHANGED <<tenant, pending, handled, amount, operations, charges, stored, page, sub, event,
                       ledger, attempts>>
    BY <1>3 DEF CheckoutAnswered, CheckoutProcessing, Then, usageVars, providerVars
  <2>2. ChargedOnce'
    BY <1>1, <2>1 DEF ChargedOnce
  <2>3. QED
    BY <1>1, <2>1, <2>2, ClerkStep
<1>4. QED
  BY <1>2, <1>3

\* A new attempt is drawn only when the one on record has no session left that
\* could be paid.
LEMMA CheckoutAttemptStep ==
    ASSUME BillingInv, NEW c \in Clerk, CheckoutAttempt(c)
    PROVE  BillingInv'
<1> DEFINE next == [clerk[c] EXCEPT !.op = "session"]
<1>1. /\ clerk[c] \in ClerkState /\ clerk[c].op = "attempt" /\ pending \in PendingRow
      /\ attempts \in 0 .. MaxAttempt /\ tenant \in TenantRow /\ ledger \in Clerk \cup {NoClerk}
      /\ charges \in [Key -> Nat] /\ operations \subseteq Key /\ ChargedOnce
  BY DEF CheckoutAttempt, BillingInv, BillingTypes
<1>2. clerk[c] \in [op : {"attempt", "session", "record"}, plan : PaidPlan]
  BY <1>1, ClerkOps
<1>3. next \in ClerkState /\ next.op = "session" /\ clerk[c].plan \in PaidPlan
  BY <1>2 DEF ClerkState
<1>4. clerk' = [clerk EXCEPT ![c] = next]
  BY DEF CheckoutAttempt, Then
<1> HIDE DEF next
<1>5. UNCHANGED <<tenant, handled, amount, operations, charges, stored, page, sub, event, ledger>>
  BY DEF CheckoutAttempt, usageVars, providerVars
<1>6. ChargedOnce'
  BY <1>1, <1>5 DEF ChargedOnce
<1>7. CASE UNCHANGED <<pending, attempts>> /\ pending # NoAttempt
  <2>1. pending.attempt \in Attempt
    BY <1>7 DEF BillingInv, PagesOfAttempt
  <2>2. QED
    BY <1>1, <1>3, <1>4, <1>5, <1>6, <1>7, <2>1, ClerkStep
<1>8. CASE /\ pending = NoAttempt \/ PageStatus = "expired"
           /\ attempts < MaxAttempt
           /\ attempts' = attempts + 1
           /\ pending' = [attempt |-> attempts', plan |-> clerk[c].plan, recorded |-> FALSE]
  <2>1. /\ attempts' \in Attempt /\ attempts' \in 0 .. MaxAttempt
        /\ pending' \in PendingRow /\ pending'.attempt = attempts'
    BY <1>1, <1>3, <1>8, BillingAssumption DEF Attempt, PendingRow, PlanName
  <2>2. ASSUME NEW a \in Attempt PROVE page[a].status \notin {"open", "complete"}
    <3>1. CASE pending = NoAttempt
      <4>1. a # pending.attempt
        BY <3>1, AttemptIsNat DEF NoAttempt
      <4>2. QED
        BY <4>1 DEF BillingInv, PagesOfAttempt
    <3>2. CASE PageStatus = "expired"
      <4>1. page[pending.attempt].status = "expired"
        BY <3>2 DEF PageStatus
      <4>2. QED
        BY <4>1 DEF BillingInv, PagesOfAttempt
    <3>3. QED
      BY <1>8, <3>1, <3>2
  <2>3. clerk' \in [Clerk -> ClerkState] /\ \A d \in Clerk : ClerkFits(d)'
    BY <1>3, <1>4, <1>5, <2>1, ClerkMoves
  <2>4. BillingTypes'
    BY <1>5, <1>6, <2>1, <2>3 DEF BillingInv, BillingTypes
  <2>5. PagesOfAttempt'
    BY <1>5, <2>1, <2>2 DEF BillingInv, PagesOfAttempt
  <2>6. Settling'
    BY <1>5 DEF BillingInv, Settling
  <2>7. QED
    BY <2>3, <2>4, <2>5, <2>6 DEF BillingInv
<1>9. QED
  BY <1>7, <1>8 DEF CheckoutAttempt

\* The session is made for the attempt on record, once.
LEMMA CheckoutPostStep ==
    ASSUME BillingInv, NEW c \in Clerk, CheckoutPost(c)
    PROVE  BillingInv'
<1> DEFINE next == [clerk[c] EXCEPT !.op = "record"]
<1>1. /\ clerk[c] \in ClerkState /\ clerk[c].op = "session" /\ tenant \in TenantRow
      /\ ledger = NoClerk /\ page \in [Attempt -> PageRow]
      /\ charges \in [Key -> Nat] /\ operations \subseteq Key /\ ChargedOnce
  BY DEF CheckoutPost, BillingInv, BillingTypes, Open
<1>2. clerk[c] \in [op : {"attempt", "session", "record"}, plan : PaidPlan]
  BY <1>1, ClerkOps
<1>3. next \in ClerkState /\ next.op = "record" /\ clerk[c].plan \in PaidPlan
  BY <1>2 DEF ClerkState
<1>4. UNCHANGED <<tenant, pending, handled, amount, operations, charges, stored, sub, event, attempts>>
  BY DEF CheckoutPost, usageVars
<1>5. ChargedOnce'
  BY <1>1, <1>4 DEF ChargedOnce
<1>6. pending.attempt \in Attempt
  BY <1>1 DEF BillingInv, ClerkFits
<1>7. CASE /\ clerk' = [clerk EXCEPT ![c] = AtDesk]
           /\ UNCHANGED <<page, ledger>>
  <2>1. AtDesk \in ClerkState /\ AtDesk.op = "desk"
    BY DEF ClerkState, AtDesk
  <2>2. ledger' \in Clerk \cup {NoClerk}
    BY <1>1, <1>7
  <2>3. QED
    BY <1>1, <1>4, <1>5, <1>7, <2>1, <2>2, ClerkStep
<1>8. CASE /\ page' = Created(pending.attempt, clerk[c].plan)
           /\ ledger' = c
           /\ clerk' = [clerk EXCEPT ![c] = next]
  <2> HIDE DEF next
  <2> DEFINE made == [status |-> "open", plan |-> clerk[c].plan]
  <2>1. made \in PageRow /\ made.status = "open"
    BY <1>3 DEF PageRow, PlanName
  <2>2. page' = page \/ (page[pending.attempt].status = "none" /\ page' = [page EXCEPT ![pending.attempt] = made])
    BY <1>8 DEF Created
  <2> HIDE DEF made
  <2>3. page' \in [Attempt -> PageRow]
    BY <1>1, <1>6, <2>1, <2>2
  <2>4. ledger # c /\ \A d \in Clerk : ledger # d
    BY <1>1, BillingAssumption DEF NoClerk
  <2>5. clerk' \in [Clerk -> ClerkState] /\ \A d \in Clerk : ClerkFits(d)'
    BY <1>3, <1>4, <1>6, <1>8, <2>4, ClerkMoves
  <2>6. BillingTypes'
    BY <1>4, <1>5, <1>8, <2>3, <2>5 DEF BillingInv, BillingTypes
  <2>7. PagesOfAttempt'
    BY <1>1, <1>4, <1>6, <2>1, <2>2 DEF BillingInv, PagesOfAttempt
  <2>8. Settling'
    BY <1>4 DEF BillingInv, Settling
  <2>9. QED
    BY <2>5, <2>6, <2>7, <2>8 DEF BillingInv
<1>9. QED
  BY <1>7, <1>8 DEF CheckoutPost, Then

LEMMA CheckoutRecordStep ==
    ASSUME BillingInv, NEW c \in Clerk, CheckoutRecord(c)
    PROVE  BillingInv'
<1>1. /\ pending \in PendingRow /\ AtDesk \in ClerkState /\ AtDesk.op = "desk"
      /\ ChargedOnce /\ ledger = c /\ pending.attempt \in Attempt
  BY DEF CheckoutRecord, BillingInv, BillingTypes, ClerkFits, ClerkState, AtDesk
<1>2. pending' \in PendingRow /\ pending'.attempt = pending.attempt
  BY <1>1 DEF CheckoutRecord, PendingRow
<1>3. /\ UNCHANGED <<tenant, handled, operations, charges, page, sub, event, attempts>>
      /\ clerk' = [clerk EXCEPT ![c] = AtDesk] /\ ledger' = NoClerk
  BY DEF CheckoutRecord, Then, usageVars, providerVars
<1>4. clerk' \in [Clerk -> ClerkState] /\ \A d \in Clerk : ClerkFits(d)'
  BY <1>1, <1>2, <1>3, ClerkMoves
<1>5. BillingTypes'
  BY <1>1, <1>2, <1>3, <1>4 DEF BillingInv, BillingTypes, ChargedOnce
<1>6. PagesOfAttempt' /\ Settling'
  BY <1>1, <1>2, <1>3 DEF BillingInv, PagesOfAttempt, Settling
<1>7. QED
  BY <1>4, <1>5, <1>6 DEF BillingInv

LEMMA EventReadStep ==
    ASSUME BillingInv, NEW c \in Clerk, NEW e \in DOMAIN event, EventRead(c, e)
    PROVE  BillingInv'
<1> DEFINE next == [op |-> "apply", event |-> e, seen |-> Current(e)]
<1>1. /\ ledger = NoClerk /\ tenant \in TenantRow
      /\ charges \in [Key -> Nat] /\ operations \subseteq Key /\ ChargedOnce
      /\ sub \in [Attempt -> SubStatus \cup {"none"}]
      /\ event \in Seq([sub : Attempt, status : SubStatus])
  BY DEF EventRead, BillingInv, BillingTypes, Open
<1>2. event[e].sub \in Attempt /\ sub[event[e].sub] # "none" /\ e \in Nat
  BY <1>1 DEF BillingInv, Settling
<1>3. /\ next \in ClerkState /\ next.op = "apply" /\ next.event = e
      /\ next.seen = sub[event[e].sub]
  BY <1>1, <1>2 DEF ClerkState, Current
<1>4. /\ clerk' = [clerk EXCEPT ![c] = next] /\ ledger' = c
      /\ UNCHANGED <<tenant, pending, handled, amount, operations, charges, stored, page, sub, event, attempts>>
  BY DEF EventRead, Request, usageVars, providerVars
<1> HIDE DEF next
<1>5. \A d \in Clerk : ledger # d
  BY <1>1, BillingAssumption DEF NoClerk
<1>6. ChargedOnce'
  BY <1>1, <1>4 DEF ChargedOnce
<1>7. QED
  BY <1>1, <1>3, <1>4, <1>5, <1>6, ClerkStep

\* The state that was read is written with the event: if another change came
\* in between, its event is still to be handled.
LEMMA EventCommitStep ==
    ASSUME BillingInv, NEW c \in Clerk, EventCommit(c)
    PROVE  BillingInv'
<1> DEFINE k == clerk[c]
           a == event[k.event].sub
<1>1. /\ k \in ClerkState /\ k.op = "apply" /\ tenant \in TenantRow
      /\ charges \in [Key -> Nat] /\ operations \subseteq Key /\ ChargedOnce
      /\ page \in [Attempt -> PageRow] /\ sub \in [Attempt -> SubStatus \cup {"none"}]
      /\ clerk \in [Clerk -> ClerkState] /\ handled \subseteq DOMAIN event
  BY DEF EventCommit, BillingInv, BillingTypes
<1>2. k.seen \in SubStatus
  BY <1>1, ClerkOps
<1>3. /\ ledger = c /\ k.event \in DOMAIN event
      /\ \/ k.seen = sub[a]
         \/ \E i \in DOMAIN event : i \notin handled /\ i # k.event
  BY <1>1 DEF BillingInv, ClerkFits
<1>4. a \in Attempt /\ sub[a] # "none"
  BY <1>3 DEF BillingInv, Settling
<1>5. ~Ignored(a, k.seen)
  BY <1>4 DEF BillingInv, PagesOfAttempt, Settling, Ignored
<1>6. tenant' = [tenant EXCEPT !.plan = page[a].plan, !.status = k.seen, !.sub = a,
                               !.paid = @ \/ k.seen = "active"]
  BY <1>5 DEF EventCommit
<1>7. handled' = handled \cup {k.event}
  BY DEF EventCommit
<1>8. /\ clerk' = [clerk EXCEPT ![c] = AtDesk] /\ ledger' = NoClerk
      /\ UNCHANGED <<pending, amount, operations, charges, stored, page, sub, event, attempts>>
  BY DEF EventCommit, Then, usageVars, providerVars
<1> HIDE DEF k, a
<1>9. page[a].plan \in PlanName /\ a \in Nat
  BY <1>1, <1>4, AttemptIsNat DEF PageRow
<1>10. tenant' \in TenantRow /\ tenant'.sub = a /\ tenant'.status = k.seen
  BY <1>1, <1>2, <1>6, <1>9 DEF TenantRow
<1>11. /\ AtDesk \in ClerkState /\ clerk' \in [Clerk -> ClerkState] /\ clerk'[c] = AtDesk /\ AtDesk.op = "desk"
       /\ \A d \in Clerk : d # c => clerk'[d] = clerk[d]
  BY <1>1, <1>8 DEF ClerkState, AtDesk
<1>12. BillingTypes'
  BY <1>1, <1>3, <1>7, <1>8, <1>10, <1>11 DEF BillingInv, BillingTypes, ChargedOnce
<1>13. PagesOfAttempt'
  BY <1>8 DEF BillingInv, PagesOfAttempt
<1>14. ASSUME NEW d \in Clerk PROVE ClerkFits(d)'
  <2>1. CASE d = c
    BY <1>11, <2>1 DEF ClerkFits
  <2>2. CASE d # c
    BY <1>3, <1>8, <1>11, <2>2 DEF BillingInv, ClerkFits
  <2>3. QED
    BY <2>1, <2>2
<1>15. Settling'
  BY <1>3, <1>4, <1>7, <1>8, <1>10 DEF BillingInv, Settling
<1>16. QED
  BY <1>12, <1>13, <1>14, <1>15 DEF BillingInv

LEMMA UsageSteps ==
    ASSUME BillingInv, NEW c \in Clerk,
           (\E key \in Key : Consume(c, key)) \/ StoreWrite(c) \/ RequestFails(c)
    PROVE  BillingInv'
<1>1. /\ AtDesk \in ClerkState /\ AtDesk.op = "desk" /\ tenant \in TenantRow
      /\ ledger \in Clerk \cup {NoClerk} /\ charges \in [Key -> Nat] /\ operations \subseteq Key /\ ChargedOnce
  BY DEF ClerkState, AtDesk, BillingInv, BillingTypes
<1>2. ASSUME NEW key \in Key, Consume(c, key) PROVE BillingInv'
  <2> DEFINE next == [op |-> "store", key |-> key]
  <2>1. next \in ClerkState /\ next.op = "store"
    BY DEF ClerkState
  <2>2. clerk' = [clerk EXCEPT ![c] = next]
    BY <1>2 DEF Consume, Request
  <2> HIDE DEF next
  <2>3. UNCHANGED <<tenant, pending, handled, page, sub, event, ledger, attempts>>
    BY <1>2 DEF Consume, providerVars
  <2>4. charges' \in [Key -> Nat] /\ operations' \subseteq Key /\ ChargedOnce'
    <3>1. CASE Known(key)
      BY <1>1, <1>2, <3>1 DEF Consume, ChargedOnce
    <3>2. CASE ~Known(key)
      <4>1. /\ charges[key] = 0 /\ operations' = operations \cup {key}
            /\ charges' = [charges EXCEPT ![key] = charges[key] + 1]
        BY <1>1, <1>2, <3>2 DEF Consume, ChargedOnce, Known
      <4>2. QED
        BY <1>1, <4>1 DEF ChargedOnce
    <3>3. QED
      BY <3>1, <3>2
  <2>5. QED
    BY <1>1, <2>1, <2>2, <2>3, <2>4, ClerkStep
<1>3. ASSUME StoreWrite(c) \/ RequestFails(c) PROVE BillingInv'
  <2>1. /\ clerk' = [clerk EXCEPT ![c] = AtDesk]
        /\ UNCHANGED <<tenant, pending, handled, operations, charges, page, sub, event, attempts>>
    BY <1>3 DEF StoreWrite, RequestFails, Then, usageVars, providerVars
  <2>2. ledger' \in Clerk \cup {NoClerk} /\ \A d \in Clerk : ledger = d /\ d # c => ledger' = d
    BY <1>1, <1>3 DEF StoreWrite, RequestFails
  <2>3. ChargedOnce'
    BY <1>1, <2>1 DEF ChargedOnce
  <2>4. QED
    BY <1>1, <2>1, <2>2, <2>3, ClerkStep
<1>4. QED
  BY <1>2, <1>3

LEMMA CalendarSteps ==
    ASSUME BillingInv, PeriodEnds \/ NewMonth \/ UNCHANGED billingVars
    PROVE  BillingInv'
<1>1. tenant \in TenantRow
  BY DEF BillingInv, BillingTypes
<1>2. tenant' \in TenantRow /\ tenant'.sub = tenant.sub /\ tenant'.status = tenant.status
  BY <1>1 DEF PeriodEnds, NewMonth, billingVars, TenantRow
<1>3. UNCHANGED <<pending, handled, operations, charges, page, sub, event, clerk, ledger, attempts>>
  BY DEF PeriodEnds, NewMonth, billingVars, usageVars, providerVars
<1>4. BillingTypes'
  BY <1>2, <1>3 DEF BillingInv, BillingTypes, ChargedOnce, ClerkState
<1>5. PagesOfAttempt' /\ (\A c \in Clerk : ClerkFits(c))' /\ Settling'
  BY <1>2, <1>3 DEF BillingInv, PagesOfAttempt, ClerkFits, Settling
<1>6. QED
  BY <1>4, <1>5 DEF BillingInv

LEMMA NextBillingInv == BillingInv /\ [BillingNext]_billingVars => BillingInv'
<1> SUFFICES ASSUME BillingInv, [BillingNext]_billingVars PROVE BillingInv'
  OBVIOUS
<1>1. ASSUME NEW a \in Attempt,
             \/ Pay(a) \/ SessionRunsOut(a)
             \/ \E status \in {"active", "past_due", "canceled"} : SubscriptionMoves(a, status)
      PROVE  BillingInv'
  BY <1>1, ProviderSteps DEF SubStatus
<1>2. ASSUME NEW c \in Clerk,
             \/ \E p \in PaidPlan : CheckoutCustomer(c, p)
             \/ CheckoutAttempt(c) \/ CheckoutAnswered(c) \/ CheckoutProcessing(c)
             \/ CheckoutPost(c) \/ CheckoutRecord(c)
      PROVE  BillingInv'
  BY <1>2, CheckoutSteps, CheckoutAttemptStep, CheckoutPostStep, CheckoutRecordStep
<1>3. ASSUME NEW c \in Clerk,
             (\E e \in DOMAIN event : EventRead(c, e)) \/ EventCommit(c)
      PROVE  BillingInv'
  BY <1>3, EventReadStep, EventCommitStep
<1>4. ASSUME NEW c \in Clerk,
             (\E k \in Key : Consume(c, k)) \/ StoreWrite(c) \/ RequestFails(c)
      PROVE  BillingInv'
  BY <1>4, UsageSteps
<1>5. QED
  BY <1>1, <1>2, <1>3, <1>4, CalendarSteps DEF BillingNext

LEMMA AlwaysBillingInv == BillingSpec => []BillingInv
  BY InitBillingInv, NextBillingInv, PTL DEF BillingSpec

(***************************************************************************)
(* Whatever the provider, its webhooks and any number of clerks do, and    *)
(* however they fail: at most one session or subscription of the tenant    *)
(* can cost money, the tenant has the provider's state once every event    *)
(* was handled, and a write is charged once under its key.                 *)
(***************************************************************************)
THEOREM BillingAlwaysHolds == BillingSpec => []BillingHolds
<1>1. BillingInv => BillingHolds
  <2> SUFFICES ASSUME BillingInv PROVE BillingHolds
    OBVIOUS
  <2>1. OneBillable
    <3> DEFINE costs == {a \in Attempt : page[a].status = "open" \/ sub[a] \in {"active", "past_due"}}
    <3>1. costs \subseteq {pending.attempt}
      BY DEF BillingInv, PagesOfAttempt
    <3>2. costs = {} \/ costs = {pending.attempt}
      BY <3>1
    <3>3. Cardinality({}) = 0 /\ Cardinality({pending.attempt}) = 1
      BY FS_EmptySet, FS_Singleton
    <3>4. Cardinality(costs) <= 1
      <4> HIDE DEF costs
      <4> QED BY <3>2, <3>3
    <3>5. QED
      BY <3>4 DEF OneBillable
  <2>2. SettledOnProvider
    BY DEF BillingInv, Settling, SettledOnProvider
  <2>3. ChargedOnce
    BY DEF BillingInv, BillingTypes
  <2>4. QED
    BY <2>1, <2>2, <2>3 DEF BillingHolds
<1>2. QED
  BY <1>1, AlwaysBillingInv, PTL

-----------------------------------------------------------------------------
(* ManagedBilling: what was charged, stored and drawn *)

\* A memory is stored, or about to be, under a key that was charged, and the
\* month counts operations.
UsageFits ==
    /\ pending.attempt <= attempts
    /\ stored \subseteq operations
    /\ \A c \in Clerk : clerk[c].op = "store" => clerk[c].key \in operations
    /\ IsFiniteSet(operations) /\ amount \in 0 .. Cardinality(operations)

\* A clerk that goes on without charging anything.
LEMMA UncountedStep ==
    ASSUME BillingInv, UsageFits, NEW c \in Clerk, NEW next, clerk' = [clerk EXCEPT ![c] = next],
           next.op # "store", UNCHANGED <<amount, operations>>, stored' \subseteq operations,
           pending'.attempt <= attempts'
    PROVE  UsageFits'
<1>1. clerk \in [Clerk -> ClerkState]
  BY DEF BillingInv, BillingTypes
<1>2. \A d \in Clerk : clerk'[d] = clerk[d] \/ clerk'[d].op # "store"
  BY <1>1
<1>3. QED
  BY <1>2 DEF UsageFits

LEMMA CheckoutsFit ==
    ASSUME BillingInv, UsageFits, NEW c \in Clerk,
           \/ \E p \in PaidPlan : CheckoutCustomer(c, p)
           \/ CheckoutAttempt(c) \/ CheckoutAnswered(c) \/ CheckoutProcessing(c)
           \/ CheckoutPost(c) \/ CheckoutRecord(c)
           \/ \E e \in DOMAIN event : EventRead(c, e)
           \/ EventCommit(c) \/ RequestFails(c)
    PROVE  UsageFits'
<1>1. UNCHANGED <<amount, operations, stored>>
  BY DEF CheckoutCustomer, CheckoutAttempt, CheckoutAnswered, CheckoutProcessing, CheckoutPost,
         CheckoutRecord, EventRead, EventCommit, RequestFails, usageVars
<1>2. \E next : clerk' = [clerk EXCEPT ![c] = next] /\ next.op # "store"
  <2>1. clerk[c] \in ClerkState /\ AtDesk.op # "store"
    BY DEF BillingInv, BillingTypes, AtDesk
  <2>2. ASSUME clerk[c].op \in {"attempt", "session"}, NEW next, NEW op \in {"session", "record"},
               next = [clerk[c] EXCEPT !.op = op]
        PROVE  next.op # "store"
    <3>1. clerk[c] \in [op : {"attempt", "session", "record"}, plan : PaidPlan]
      BY <2>1, <2>2, ClerkOps
    <3>2. QED
      BY <2>2, <3>1
  <2>3. CASE \E p \in PaidPlan : CheckoutCustomer(c, p)
    <3>1. PICK p \in PaidPlan : CheckoutCustomer(c, p)
      BY <2>3
    <3>2. PICK next : next = [op |-> "attempt", plan |-> p]
      OBVIOUS
    <3>3. clerk' = [clerk EXCEPT ![c] = next] /\ next.op # "store"
      BY <3>1, <3>2 DEF CheckoutCustomer, Request
    <3>4. QED
      BY <3>3
  <2>4. CASE CheckoutAttempt(c)
    <3>1. PICK next : next = [clerk[c] EXCEPT !.op = "session"]
      OBVIOUS
    <3>2. clerk[c].op = "attempt" /\ clerk' = [clerk EXCEPT ![c] = next]
      BY <2>4, <3>1 DEF CheckoutAttempt, Then
    <3>3. QED
      BY <2>2, <3>1, <3>2
  <2>5. CASE CheckoutPost(c)
    <3>1. PICK next : next = [clerk[c] EXCEPT !.op = "record"]
      OBVIOUS
    <3>2. /\ clerk[c].op = "session"
          /\ clerk' = [clerk EXCEPT ![c] = next] \/ clerk' = [clerk EXCEPT ![c] = AtDesk]
      BY <2>5, <3>1 DEF CheckoutPost, Then
    <3>3. next.op # "store"
      BY <2>2, <3>1, <3>2
    <3>4. QED
      BY <2>1, <3>2, <3>3
  <2>6. CASE \E e \in DOMAIN event : EventRead(c, e)
    <3>1. PICK e \in DOMAIN event : EventRead(c, e)
      BY <2>6
    <3>2. PICK next : next = [op |-> "apply", event |-> e, seen |-> Current(e)]
      OBVIOUS
    <3>3. clerk' = [clerk EXCEPT ![c] = next] /\ next.op # "store"
      BY <3>1, <3>2 DEF EventRead, Request
    <3>4. QED
      BY <3>3
  <2>7. CASE CheckoutAnswered(c) \/ CheckoutProcessing(c) \/ CheckoutRecord(c) \/ EventCommit(c) \/ RequestFails(c)
    BY <2>1, <2>7 DEF CheckoutAnswered, CheckoutProcessing, CheckoutRecord, EventCommit, RequestFails, Then
  <2>8. QED
    BY <2>3, <2>4, <2>5, <2>6, <2>7
<1>3. pending'.attempt <= attempts'
  <2>1. pending \in PendingRow /\ attempts \in Nat /\ pending.attempt <= attempts
    BY BillingAssumption DEF BillingInv, BillingTypes, UsageFits
  <2>2. CASE CheckoutAttempt(c)
    BY <2>1, <2>2 DEF CheckoutAttempt
  <2>3. CASE CheckoutRecord(c)
    BY <2>1, <2>3 DEF CheckoutRecord, PendingRow
  <2>4. CASE ~CheckoutAttempt(c) /\ ~CheckoutRecord(c)
    <3>1. UNCHANGED <<pending, attempts>>
      BY <2>4 DEF CheckoutCustomer, CheckoutAnswered, CheckoutProcessing, CheckoutPost, EventRead,
                  EventCommit, RequestFails
    <3>2. QED
      BY <2>1, <3>1
  <2>5. QED
    BY <2>2, <2>3, <2>4
<1>4. QED
  BY <1>1, <1>2, <1>3, UncountedStep DEF UsageFits

LEMMA ChargesFit ==
    ASSUME BillingInv, UsageFits, NEW c \in Clerk,
           (\E k \in Key : Consume(c, k)) \/ StoreWrite(c)
    PROVE  UsageFits'
<1>1. clerk \in [Clerk -> ClerkState]
  BY DEF BillingInv, BillingTypes
<1>2. ASSUME NEW k \in Key, Consume(c, k) PROVE UsageFits'
  <2>1. PICK next : next = [op |-> "store", key |-> k]
    OBVIOUS
  <2>2. clerk' = [clerk EXCEPT ![c] = next] /\ UNCHANGED <<pending, attempts, stored>>
    BY <1>2, <2>1 DEF Consume, Request
  <2>3. /\ operations' = operations \cup {k} /\ IsFiniteSet(operations')
        /\ amount' \in 0 .. Cardinality(operations')
    <3>1. Cardinality(operations) \in Nat
      BY FS_CardinalityType DEF UsageFits
    <3>2. CASE k \in operations
      BY <1>2, <3>2 DEF Consume, Known, UsageFits
    <3>3. CASE k \notin operations
      <4>1. amount' = amount + 1 /\ operations' = operations \cup {k}
        BY <1>2, <3>3 DEF Consume, Known
      <4>2. IsFiniteSet(operations') /\ Cardinality(operations') = Cardinality(operations) + 1
        BY <3>3, <4>1, FS_AddElement DEF UsageFits
      <4>3. QED
        BY <3>1, <4>1, <4>2 DEF UsageFits
    <3>4. QED
      BY <3>2, <3>3
  <2>4. \A d \in Clerk : clerk'[d].op = "store" => clerk'[d].key \in operations'
    BY <1>1, <2>1, <2>2, <2>3 DEF UsageFits
  <2>5. QED
    BY <2>2, <2>3, <2>4 DEF UsageFits
<1>3. CASE StoreWrite(c)
  <2>1. /\ clerk[c].op = "store" /\ stored' = stored \cup {clerk[c].key}
        /\ clerk' = [clerk EXCEPT ![c] = AtDesk] /\ UNCHANGED <<pending, attempts, amount, operations>>
    BY <1>3 DEF StoreWrite, Then
  <2>2. stored' \subseteq operations /\ AtDesk.op # "store"
    BY <2>1 DEF UsageFits, AtDesk
  <2>3. QED
    BY <2>1, <2>2, UncountedStep DEF UsageFits
<1>4. QED
  BY <1>2, <1>3

\* The provider's own steps and the calendar's charge nothing.
LEMMA OutsideFits ==
    ASSUME BillingInv, UsageFits,
           \/ \E a \in Attempt :
                 \/ Pay(a) \/ SessionRunsOut(a)
                 \/ \E status \in {"active", "past_due", "canceled"} : SubscriptionMoves(a, status)
           \/ PeriodEnds \/ NewMonth \/ UNCHANGED billingVars
    PROVE  UsageFits'
<1>1. UNCHANGED <<pending, attempts, operations, stored, clerk>>
  BY DEF Pay, SessionRunsOut, SubscriptionMoves, PeriodEnds, NewMonth, billingVars, usageVars
<1>2. amount' = amount \/ amount' = 0
  BY DEF Pay, SessionRunsOut, SubscriptionMoves, PeriodEnds, NewMonth, billingVars, usageVars
<1>3. Cardinality(operations) \in Nat
  BY FS_CardinalityType DEF UsageFits
<1>4. QED
  BY <1>1, <1>2, <1>3 DEF UsageFits

LEMMA InitUsageFits == BillingInit => UsageFits
<1> SUFFICES ASSUME BillingInit PROVE UsageFits
  OBVIOUS
<1>1. /\ pending = NoAttempt /\ attempts = 0 /\ stored = {} /\ operations = {} /\ amount = 0
      /\ clerk = [c \in Clerk |-> AtDesk]
  BY DEF BillingInit
<1>2. NoAttempt.attempt = 0 /\ AtDesk.op = "desk"
  BY DEF NoAttempt, AtDesk
<1>3. QED
  BY <1>1, <1>2, FS_EmptySet DEF UsageFits

(***************************************************************************)
(* Only what was charged is stored, the month's usage counts operations,   *)
(* the attempt on record was drawn, every event handled was sent, and a    *)
(* subscription belongs to a session that was paid (managed/control.py).   *)
(***************************************************************************)
THEOREM BillingTyped == BillingSpec => []BillingTypeOK
<1>1. ASSUME BillingInv, UsageFits, [BillingNext]_billingVars PROVE UsageFits'
  BY <1>1, CheckoutsFit, ChargesFit, OutsideFits DEF BillingNext
<1>2. BillingInv /\ UsageFits /\ [BillingNext]_billingVars => UsageFits'
  BY <1>1
<1>3. BillingInv /\ UsageFits => BillingTypeOK
  <2> SUFFICES ASSUME BillingInv, UsageFits PROVE BillingTypeOK
    OBVIOUS
  <2>1. tenant.plan \in PaidPlan \cup {"free"} /\ tenant.status \in {"free", "active", "past_due", "canceled"}
    BY DEF BillingInv, BillingTypes, TenantRow, PlanName, SubStatus
  <2>2. tenant.sub \in 0 .. MaxAttempt
    BY BillingAssumption DEF BillingInv, Settling, Attempt
  <2>3. pending.attempt \in 0 .. attempts
    <3>1. pending.attempt \in Nat /\ attempts \in Nat
      BY BillingAssumption DEF BillingInv, BillingTypes, PendingRow
    <3>2. QED
      BY <3>1 DEF UsageFits
  <2>4. /\ handled \subseteq DOMAIN event /\ ledger \in Clerk \cup {NoClerk}
        /\ \A a \in Attempt : (sub[a] # "none") = (page[a].status = "complete")
    BY DEF BillingInv, BillingTypes, PagesOfAttempt
  <2>5. stored \subseteq operations /\ amount \in 0 .. Cardinality(operations)
    BY DEF UsageFits
  <2>6. QED
    BY <2>1, <2>2, <2>3, <2>4, <2>5 DEF BillingTypeOK
<1>4. QED
  BY AlwaysBillingInv, InitUsageFits, <1>2, <1>3, PTL DEF BillingSpec

-----------------------------------------------------------------------------
(* ManagedSnapshots *)

Content == SUBSET SnapWrite
CopyRow == [version : Nat, content : Content]
OfRequest == SnapWrite \cup {<<>>}

\* What a request may hold: what it has read, and what it does next.
SnapState ==
    {Quiet}
    \cup [op : {"check", "apply"}, file : File, write : OfRequest]
    \cup [op : {"compare", "fetch", "apply"}, file : File, write : OfRequest, known : Nat]
    \cup [op : {"replace", "note", "apply"}, file : File, write : OfRequest, copy : CopyRow]
    \cup [op : {"backup"}, file : File, write : OfRequest]
    \cup [op : {"upload"}, file : File, write : OfRequest, payload : Content]
    \cup [op : {"record"}, file : File, write : OfRequest, version : Nat]

SnapTypes ==
    /\ local \in [File -> Content] /\ remote \in [File -> CopyRow]
    /\ known \in [File -> Nat] /\ recent \in [File -> BOOLEAN]
    /\ guard \in [Guarded -> SnapThread \cup {NoThread}]
    /\ request \in [SnapThread -> SnapState]
    /\ acked \in Content /\ unsaved \in Content /\ overrun \in Content
    /\ snapCalls \in Nat

Restored == {"replace", "note"}
Written  == {"backup", "upload", "record"}

\* Who writes a guarded file has its guard, and its write is where it put it,
\* unless a restore replaced the file meanwhile.
FitsAs(t, r) ==
    /\ r # Quiet /\ r.write # <<>> => /\ r.write[1] = r.file
                                      /\ r.file \in Guarded => guard[r.file] = t
    /\ r.op \in Written \cup {"apply"} => r.write # <<>>
    /\ r.op \in Restored => r.copy.version <= remote[r.file].version
    /\ r.op = "record" => r.version <= remote[r.file].version
    /\ r.op \in Written /\ r.file \in Guarded => r.write \in local[r.file] \cup overrun
    /\ r.op = "record" /\ r.file \in Guarded => r.write \in remote[r.file].content \cup overrun
    /\ r.op = "upload" /\ r.file \in Guarded =>
          /\ r.write \in r.payload \cup overrun
          /\ \A w \in acked : w[1] = r.file => w \in r.payload \cup unsaved \cup overrun
RequestFits(t) == FitsAs(t, request[t])

\* What was answered is in the file as well as in its copy.
AnsweredKept ==
    \A w \in acked : w[1] \in Guarded =>
        /\ w \in local[w[1]] \cup unsaved \cup overrun
        /\ w \in remote[w[1]].content \cup unsaved \cup overrun

KnownVersions == \A f \in File : known[f] <= remote[f].version

SnapshotsInv == SnapTypes /\ AnsweredKept /\ KnownVersions /\ \A t \in SnapThread : RequestFits(t)

LEMMA SnapShapes ==
    ASSUME NEW r \in SnapState, r # Quiet
    PROVE  /\ r.op \in {"check", "compare", "fetch", "replace", "note", "apply", "backup", "upload", "record"}
           /\ r.file \in File /\ r.write \in OfRequest
           /\ r.op = "check" => r \in [op : {"check", "apply"}, file : File, write : OfRequest]
           /\ r.op \in {"compare", "fetch"} =>
                 r \in [op : {"compare", "fetch", "apply"}, file : File, write : OfRequest, known : Nat]
           /\ r.op \in Restored =>
                 r \in [op : {"replace", "note", "apply"}, file : File, write : OfRequest, copy : CopyRow]
           /\ r.op = "upload" => r.payload \in Content
           /\ r.op = "record" => r.version \in Nat
  BY DEF SnapState, Quiet, Restored

\* Guards belong to threads that are not NoThread.
LEMMA GuardIsThread ==
    ASSUME SnapshotsInv, NEW x \in SnapThread, request[x] # Quiet, request[x].write # <<>>,
           request[x].file \in Guarded
    PROVE  guard[request[x].file] = x /\ guard[request[x].file] # NoThread
  BY SnapshotsAssumption DEF SnapshotsInv, RequestFits, FitsAs

\* Another request fits as before when the files it guards are left to it.
LEMMA OthersFit ==
    ASSUME SnapshotsInv, NEW t \in SnapThread,
           \A x \in SnapThread : x # t => request'[x] = request[x],
           \A f \in File : /\ local[f] \subseteq local'[f] \cup overrun'
                           /\ remote[f].version <= remote'[f].version,
           \A f \in Guarded : guard[f] \notin {t, NoThread} =>
                 guard'[f] = guard[f] /\ remote'[f].content = remote[f].content,
           overrun \subseteq overrun', unsaved \subseteq unsaved', remote' \in [File -> CopyRow],
           \A w \in acked' : w \in acked \/ (w[1] \in Guarded => guard[w[1]] = t),
           NEW x \in SnapThread, x # t
    PROVE  RequestFits(x)'
<1>1. PICK r : r = request[x]
  OBVIOUS
<1>2. r \in SnapState /\ request'[x] = r /\ FitsAs(x, r)
  BY <1>1 DEF SnapshotsInv, SnapTypes, RequestFits
<1>3. SUFFICES FitsAs(x, r)'
  BY <1>2 DEF RequestFits
<1>4. CASE r = Quiet
  BY <1>4 DEF FitsAs, Quiet, Written, Restored
<1>5. CASE r # Quiet
  <2>1. r.file \in File
    BY <1>2, <1>5, SnapShapes
  <2>2. ASSUME r.file \in Guarded, r.write # <<>>
        PROVE  /\ guard[r.file] = x /\ guard'[r.file] = x
               /\ remote'[r.file].content = remote[r.file].content
    <3>1. guard[r.file] = x /\ x # NoThread
      BY <1>1, <1>5, <2>2, GuardIsThread
    <3>2. QED
      BY <2>2, <3>1
  <2>3. ASSUME r.op \in Restored PROVE r.copy.version <= remote'[r.file].version
    <3>1. r.copy.version <= remote[r.file].version /\ remote[r.file].version <= remote'[r.file].version
      BY <1>2, <2>1, <2>3 DEF FitsAs
    <3>2. r.copy \in CopyRow
      BY <1>2, <1>5, <2>3, SnapShapes
    <3>3. r.copy.version \in Int /\ remote[r.file].version \in Int /\ remote'[r.file].version \in Int
      BY <2>1, <3>2 DEF CopyRow, SnapshotsInv, SnapTypes
    <3>4. QED
      BY <3>1, <3>3
  <2>4. ASSUME r.op = "record" PROVE r.version <= remote'[r.file].version
    <3>1. r.version <= remote[r.file].version /\ remote[r.file].version <= remote'[r.file].version
      BY <1>2, <2>1, <2>4 DEF FitsAs
    <3>2. r.version \in Int
      BY <1>2, <1>5, <2>4, SnapShapes
    <3>3. remote[r.file].version \in Int /\ remote'[r.file].version \in Int
      BY <2>1 DEF CopyRow, SnapshotsInv, SnapTypes
    <3>4. QED
      BY <3>1, <3>2, <3>3
  <2>5. ASSUME r.op = "upload", r.file \in Guarded, NEW w \in acked', w[1] = r.file
        PROVE  w \in r.payload \cup unsaved' \cup overrun'
    <3>1. r.write # <<>>
      BY <1>2, <2>5 DEF FitsAs, Written
    <3>2. w \in acked
      BY <2>2, <2>5, <3>1
    <3>3. QED
      BY <1>2, <2>5, <3>2 DEF FitsAs
  <2>6. r.op \in Written \cup {"apply"} => r.write # <<>>
    BY <1>2 DEF FitsAs
  <2>7. r.op \in Written /\ r.file \in Guarded => r.write \in local'[r.file] \cup overrun'
    BY <1>2, <2>1 DEF FitsAs
  <2>8. r.op = "record" /\ r.file \in Guarded => r.write \in remote'[r.file].content \cup overrun'
    BY <1>2, <2>2, <2>6 DEF FitsAs, Written
  <2>9. r.op = "upload" /\ r.file \in Guarded => r.write \in r.payload \cup overrun'
    BY <1>2 DEF FitsAs
  <2>10. r.write # <<>> => r.write[1] = r.file /\ (r.file \in Guarded => guard'[r.file] = x)
    BY <1>2, <1>5, <2>2 DEF FitsAs
  <2>11. QED
    BY <2>3, <2>4, <2>5, <2>6, <2>7, <2>8, <2>9, <2>10 DEF FitsAs
<1>6. QED
  BY <1>4, <1>5

\* A request reads, or goes on without writing a file or its copy.
LEMMA SnapReadingStep ==
    ASSUME SnapshotsInv, NEW t \in SnapThread, NEW next \in SnapState, FitsAs(t, next),
           request' = [request EXCEPT ![t] = next],
           UNCHANGED <<local, remote, known, guard, outcome, snapCalls>>,
           recent' \in [File -> BOOLEAN]
    PROVE  SnapshotsInv'
<1>1. SnapTypes'
  BY DEF SnapshotsInv, SnapTypes, outcome
<1>2. AnsweredKept' /\ KnownVersions'
  BY DEF SnapshotsInv, AnsweredKept, KnownVersions, outcome
<1>3. request'[t] = next
  BY DEF SnapshotsInv, SnapTypes
<1>4. RequestFits(t)'
  BY <1>3 DEF RequestFits, FitsAs, outcome
<1>5. \A x \in SnapThread : x # t => request'[x] = request[x]
  OBVIOUS
<1>6. ASSUME NEW x \in SnapThread, x # t PROVE RequestFits(x)'
  BY <1>5, <1>6 DEF SnapshotsInv, RequestFits, FitsAs, outcome
<1>7. QED
  BY <1>1, <1>2, <1>4, <1>6 DEF SnapshotsInv

\* A request that needs no copy goes on to its write, or is done.
LEMMA UncheckedFits ==
    ASSUME SnapshotsInv, NEW t \in SnapThread, request[t].op \in {"check", "compare", "note"}
    PROVE  Unchecked(t) \in SnapState /\ FitsAs(t, Unchecked(t))
<1>1. PICK r : r = request[t]
  OBVIOUS
<1>2. r \in SnapState /\ FitsAs(t, r) /\ r # Quiet
  BY <1>1 DEF SnapshotsInv, SnapTypes, RequestFits, Quiet
<1>3. CASE r.write = <<>>
  BY <1>1, <1>3 DEF Unchecked, SnapState, FitsAs, Quiet, Written, Restored
<1>4. CASE r.write # <<>>
  <2>1. PICK next : next = [r EXCEPT !.op = "apply"]
    OBVIOUS
  <2>2. next \in SnapState /\ next.op = "apply" /\ next.file = r.file /\ next.write = r.write
    <3>1. CASE r.op = "check"
      <4>1. r \in [op : {"check", "apply"}, file : File, write : OfRequest]
        BY <1>2, <3>1, SnapShapes
      <4>2. next \in [op : {"check", "apply"}, file : File, write : OfRequest]
            /\ next.op = "apply" /\ next.file = r.file /\ next.write = r.write
        BY <2>1, <4>1
      <4>3. QED
        BY <4>2 DEF SnapState
    <3>2. CASE r.op = "compare"
      <4>1. r \in [op : {"compare", "fetch", "apply"}, file : File, write : OfRequest, known : Nat]
        BY <1>2, <3>2, SnapShapes
      <4>2. next \in [op : {"compare", "fetch", "apply"}, file : File, write : OfRequest, known : Nat]
            /\ next.op = "apply" /\ next.file = r.file /\ next.write = r.write
        BY <2>1, <4>1
      <4>3. QED
        BY <4>2 DEF SnapState
    <3>3. CASE r.op = "note"
      <4>1. r \in [op : {"replace", "note", "apply"}, file : File, write : OfRequest, copy : CopyRow]
        BY <1>2, <3>3, SnapShapes DEF Restored
      <4>2. next \in [op : {"replace", "note", "apply"}, file : File, write : OfRequest, copy : CopyRow]
            /\ next.op = "apply" /\ next.file = r.file /\ next.write = r.write
        BY <2>1, <4>1
      <4>3. QED
        BY <4>2 DEF SnapState
    <3>4. QED
      BY <1>1, <3>1, <3>2, <3>3
  <2>3. FitsAs(t, next)
    BY <1>2, <1>4, <2>2 DEF FitsAs, Written, Restored
  <2>4. Unchecked(t) = next
    BY <1>1, <1>4, <2>1 DEF Unchecked, To
  <2>5. QED
    BY <2>2, <2>3, <2>4
<1>5. QED
  BY <1>3, <1>4

LEMMA SnapReads ==
    ASSUME SnapshotsInv, NEW t \in SnapThread,
           CheckWindow(t) \/ CompareVersion(t) \/ FetchCopy(t) \/ BackupFile(t)
    PROVE  SnapshotsInv'
<1>1. PICK r : r = request[t]
  OBVIOUS
<1>2. /\ r \in SnapState /\ r # Quiet /\ FitsAs(t, r) /\ r.file \in File /\ r.write \in OfRequest
      /\ r.op \in {"check", "compare", "fetch", "backup"}
  <2>1. r.op \in {"check", "compare", "fetch", "backup"} /\ r \in SnapState /\ FitsAs(t, r)
    BY <1>1 DEF CheckWindow, CompareVersion, FetchCopy, BackupFile, Step, SnapshotsInv, SnapTypes, RequestFits
  <2>2. r # Quiet
    BY <2>1 DEF Quiet
  <2>3. QED
    BY <2>1, <2>2, SnapShapes
<1>3. CASE CheckWindow(t)
  <2>1. PICK next : next = IF recent[r.file] THEN Unchecked(t)
                           ELSE [op |-> "compare", file |-> r.file, write |-> r.write, known |-> known[r.file]]
    OBVIOUS
  <2>2. next \in SnapState /\ FitsAs(t, next)
    <3>1. CASE recent[r.file]
      BY <1>1, <1>3, <2>1, <3>1, UncheckedFits DEF CheckWindow, Step
    <3>2. CASE ~recent[r.file]
      <4>1. known[r.file] \in Nat
        BY <1>2 DEF SnapshotsInv, SnapTypes
      <4>2. next = [op |-> "compare", file |-> r.file, write |-> r.write, known |-> known[r.file]]
        BY <2>1, <3>2
      <4>3. next \in SnapState
        BY <1>2, <4>1, <4>2 DEF SnapState
      <4>4. FitsAs(t, next)
        BY <1>2, <4>2 DEF FitsAs, Written, Restored, Quiet
      <4>5. QED
        BY <4>3, <4>4
    <3>3. QED
      BY <3>1, <3>2
  <2>3. QED
    BY <1>1, <1>3, <2>1, <2>2, SnapReadingStep DEF CheckWindow, Step, SnapshotsInv, SnapTypes
<1>4. CASE CompareVersion(t)
  <2>1. PICK next : next = IF remote[r.file].version \in {0, r.known} THEN Unchecked(t) ELSE To(t, "fetch")
    OBVIOUS
  <2>2. next \in SnapState /\ FitsAs(t, next)
    <3>1. r.op = "compare"
      BY <1>1, <1>4 DEF CompareVersion, Step
    <3>2. PICK fetch : fetch = [r EXCEPT !.op = "fetch"]
      OBVIOUS
    <3>3. r \in [op : {"compare", "fetch", "apply"}, file : File, write : OfRequest, known : Nat]
      BY <1>2, <3>1, SnapShapes
    <3>4. fetch \in [op : {"compare", "fetch", "apply"}, file : File, write : OfRequest, known : Nat]
          /\ fetch.op = "fetch" /\ fetch.file = r.file /\ fetch.write = r.write
      BY <3>2, <3>3
    <3>5. fetch \in SnapState
      BY <3>4 DEF SnapState
    <3>6. FitsAs(t, fetch)
      BY <1>2, <3>4 DEF FitsAs, Written, Restored
    <3>7. next = Unchecked(t) \/ next = fetch
      BY <1>1, <2>1, <3>2 DEF To
    <3>8. QED
      BY <1>1, <3>1, <3>5, <3>6, <3>7, UncheckedFits
  <2>3. recent' \in [File -> BOOLEAN]
    BY <1>1, <1>2, <1>4 DEF CompareVersion, SnapshotsInv, SnapTypes
  <2>4. QED
    BY <1>1, <1>4, <2>1, <2>2, <2>3, SnapReadingStep DEF CompareVersion, Step
<1>5. CASE FetchCopy(t)
  <2>1. PICK next : next = [op |-> "replace", file |-> r.file, write |-> r.write, copy |-> remote[r.file]]
    OBVIOUS
  <2>2. remote[r.file] \in CopyRow /\ remote[r.file].version \in Nat
    BY <1>2 DEF SnapshotsInv, SnapTypes, CopyRow
  <2>3. next \in SnapState
    BY <1>2, <2>1, <2>2 DEF SnapState
  <2>4. FitsAs(t, next)
    <3>1. next.copy.version <= remote[next.file].version
      BY <2>1, <2>2
    <3>2. QED
      BY <1>2, <2>1, <3>1 DEF FitsAs, Written, Restored, Quiet
  <2>5. QED
    BY <1>1, <1>5, <2>1, <2>3, <2>4, SnapReadingStep DEF FetchCopy, Step, SnapshotsInv, SnapTypes
<1>6. CASE BackupFile(t)
  <2>1. PICK next : next = [op |-> "upload", file |-> r.file, write |-> r.write, payload |-> local[r.file]]
    OBVIOUS
  <2>2. local[r.file] \in Content
    BY <1>2 DEF SnapshotsInv, SnapTypes
  <2>3. next \in SnapState
    BY <1>2, <2>1, <2>2 DEF SnapState
  <2>4. r.op = "backup"
    BY <1>1, <1>6 DEF BackupFile, Step
  <2>5. FitsAs(t, next)
    <3>1. r.write # <<>> /\ (r.file \in Guarded => r.write \in local[r.file] \cup overrun)
      BY <1>2, <2>4 DEF FitsAs, Written
    <3>2. r.file \in Guarded => \A w \in acked : w[1] = r.file => w \in local[r.file] \cup unsaved \cup overrun
      BY DEF SnapshotsInv, AnsweredKept
    <3>3. r.write[1] = r.file /\ (r.file \in Guarded => guard[r.file] = t)
      BY <1>2, <3>1 DEF FitsAs
    <3>4. QED
      BY <2>1, <3>1, <3>2, <3>3 DEF FitsAs, Restored
  <2>6. QED
    BY <1>1, <1>6, <2>1, <2>3, <2>5, SnapReadingStep DEF BackupFile, Payload, Step, SnapshotsInv, SnapTypes
<1>7. QED
  BY <1>3, <1>4, <1>5, <1>6

LEMMA SnapBeginsReading ==
    ASSUME SnapshotsInv, NEW t \in SnapThread, NEW f \in File, BeginRead(t, f)
    PROVE  SnapshotsInv'
<1>1. PICK next : next = [op |-> "check", file |-> f, write |-> <<>>]
  OBVIOUS
<1>2. next \in SnapState /\ FitsAs(t, next)
  BY <1>1 DEF SnapState, OfRequest, FitsAs, Written, Restored
<1>3. /\ request' = [request EXCEPT ![t] = next] /\ snapCalls' \in Nat
      /\ UNCHANGED <<local, remote, known, recent, guard, outcome>>
  BY <1>1 DEF BeginRead, SnapshotsInv, SnapTypes
<1>4. SnapTypes'
  BY <1>2, <1>3 DEF SnapshotsInv, SnapTypes, outcome
<1>5. AnsweredKept' /\ KnownVersions'
  BY <1>3 DEF SnapshotsInv, AnsweredKept, KnownVersions, outcome
<1>6. ASSUME NEW x \in SnapThread PROVE RequestFits(x)'
  <2>1. CASE x = t
    BY <1>2, <1>3, <2>1 DEF SnapshotsInv, SnapTypes, RequestFits, FitsAs, outcome
  <2>2. CASE x # t
    BY <1>3, <2>2 DEF SnapshotsInv, RequestFits, FitsAs, outcome
  <2>3. QED
    BY <2>1, <2>2
<1>7. QED
  BY <1>4, <1>5, <1>6 DEF SnapshotsInv

\* A write begins with the guard of its file in hand.
LEMMA SnapBeginsWriting ==
    ASSUME SnapshotsInv, NEW t \in SnapThread, NEW f \in File, NEW n \in 1 .. MaxSnapWrites,
           BeginWrite(t, f, n)
    PROVE  SnapshotsInv'
<1>1. PICK next : next = [op |-> "check", file |-> f, write |-> <<f, n>>]
  OBVIOUS
<1>2. <<f, n>> \in SnapWrite /\ next \in SnapState
  BY <1>1 DEF SnapState, OfRequest, SnapWrite
<1>3. /\ request' = [request EXCEPT ![t] = next] /\ snapCalls' \in Nat
      /\ UNCHANGED <<local, remote, known, recent, outcome>>
      /\ f \in Guarded => guard[f] = NoThread /\ guard' = [guard EXCEPT ![f] = t]
      /\ f \notin Guarded => guard' = guard
  BY <1>1 DEF BeginWrite, SnapshotsInv, SnapTypes
<1>4. SnapTypes'
  BY <1>2, <1>3 DEF SnapshotsInv, SnapTypes, outcome
<1>5. AnsweredKept' /\ KnownVersions'
  BY <1>3 DEF SnapshotsInv, AnsweredKept, KnownVersions, outcome
<1>6. RequestFits(t)'
  <2>1. request'[t] = next /\ (f \in Guarded => guard'[f] = t)
    BY <1>3 DEF SnapshotsInv, SnapTypes
  <2>2. QED
    BY <1>1, <2>1 DEF RequestFits, FitsAs, Written, Restored
<1>7. ASSUME NEW x \in SnapThread, x # t PROVE RequestFits(x)'
  <2>1. \A g \in Guarded : guard[g] \notin {t, NoThread} =>
           guard'[g] = guard[g] /\ remote'[g].content = remote[g].content
    BY <1>3 DEF SnapshotsInv, SnapTypes
  <2>2. \A g \in File : local[g] \subseteq local'[g] \cup overrun' /\ remote[g].version <= remote'[g].version
    BY <1>3 DEF SnapshotsInv, SnapTypes, CopyRow
  <2>3. remote' \in [File -> CopyRow] /\ \A w \in acked' : w \in acked
    BY <1>3 DEF SnapshotsInv, SnapTypes, outcome
  <2>4. overrun \subseteq overrun' /\ unsaved \subseteq unsaved' /\ \A y \in SnapThread : y # t => request'[y] = request[y]
    BY <1>3 DEF outcome
  <2>5. QED
    BY <1>7, <2>1, <2>2, <2>3, <2>4, OthersFit
<1>8. QED
  BY <1>4, <1>5, <1>6, <1>7 DEF SnapshotsInv

\* A step of one request: what it leaves to the others, and what it must fit itself.
LEMMA SnapStep ==
    ASSUME SnapshotsInv, NEW t \in SnapThread, NEW next \in SnapState,
           request' = [request EXCEPT ![t] = next], FitsAs(t, next)',
           SnapTypes', AnsweredKept', KnownVersions',
           \A f \in File : /\ local[f] \subseteq local'[f] \cup overrun'
                           /\ remote[f].version <= remote'[f].version,
           \A f \in Guarded : guard[f] \notin {t, NoThread} =>
                 guard'[f] = guard[f] /\ remote'[f].content = remote[f].content,
           overrun \subseteq overrun', unsaved \subseteq unsaved',
           \A w \in acked' : w \in acked \/ (w[1] \in Guarded => guard[w[1]] = t)
    PROVE  SnapshotsInv'
<1>1. request'[t] = next /\ \A x \in SnapThread : x # t => request'[x] = request[x]
  BY DEF SnapshotsInv, SnapTypes
<1>2. RequestFits(t)'
  BY <1>1 DEF RequestFits
<1>3. remote' \in [File -> CopyRow]
  BY DEF SnapTypes
<1>4. ASSUME NEW x \in SnapThread, x # t PROVE RequestFits(x)'
  BY <1>1, <1>3, <1>4, OthersFit
<1>5. QED
  BY <1>2, <1>4 DEF SnapshotsInv

\* A restore replaces the file; what it had that the copy has not is overrun.
LEMMA SnapReplaces ==
    ASSUME SnapshotsInv, NEW t \in SnapThread, ReplaceFile(t)
    PROVE  SnapshotsInv'
<1>1. PICK r : r = request[t]
  OBVIOUS
<1>2. r.op = "replace" /\ r \in SnapState /\ FitsAs(t, r) /\ r # Quiet
  BY <1>1 DEF ReplaceFile, Step, SnapshotsInv, SnapTypes, RequestFits, Quiet
<1>3. r \in [op : {"replace", "note", "apply"}, file : File, write : OfRequest, copy : CopyRow]
  BY <1>2, SnapShapes DEF Restored
<1>4. PICK next : next = [r EXCEPT !.op = "note"]
  OBVIOUS
<1>5. /\ next \in [op : {"replace", "note", "apply"}, file : File, write : OfRequest, copy : CopyRow]
      /\ next.op = "note" /\ next.file = r.file /\ next.write = r.write /\ next.copy = r.copy
  BY <1>3, <1>4
<1>6. next \in SnapState /\ r.file \in File /\ r.copy.content \in Content
  BY <1>3, <1>5 DEF SnapState, CopyRow
<1>7. /\ request' = [request EXCEPT ![t] = next] /\ snapCalls' = snapCalls
      /\ local' = [local EXCEPT ![r.file] = r.copy.content]
      /\ overrun' = overrun \cup (local[r.file] \ r.copy.content)
      /\ UNCHANGED <<remote, known, recent, guard, acked, unsaved>>
  BY <1>1, <1>4 DEF ReplaceFile, Step, To
<1>8. local \in [File -> Content] /\ local[r.file] \in Content
  BY <1>6 DEF SnapshotsInv, SnapTypes
<1>9. overrun' \in Content /\ local' \in [File -> Content]
  BY <1>6, <1>7, <1>8 DEF SnapshotsInv, SnapTypes, Content
<1>10. SnapTypes'
  BY <1>6, <1>7, <1>9 DEF SnapshotsInv, SnapTypes
<1>11. \A f \in File : local[f] \subseteq local'[f] \cup overrun'
  BY <1>6, <1>7, <1>8
<1>12. AnsweredKept'
  <2>1. \A w \in acked : w \in SnapWrite /\ w[1] \in File
    BY DEF SnapshotsInv, SnapTypes, Content, SnapWrite
  <2>2. QED
    BY <1>7, <1>11, <2>1 DEF SnapshotsInv, AnsweredKept
<1>13. KnownVersions'
  BY <1>7 DEF SnapshotsInv, KnownVersions
<1>14. FitsAs(t, next)'
  BY <1>2, <1>5, <1>7 DEF FitsAs, Written, Restored, Quiet
<1>15. \A f \in File : remote[f].version <= remote'[f].version
  BY <1>7 DEF SnapshotsInv, SnapTypes, CopyRow
<1>16. QED
  BY <1>6, <1>7, <1>10, <1>11, <1>12, <1>13, <1>14, <1>15, SnapStep

\* The version of the copy is known, and the request goes on.
LEMMA SnapNotes ==
    ASSUME SnapshotsInv, NEW t \in SnapThread, NoteVersion(t)
    PROVE  SnapshotsInv'
<1>1. PICK r : r = request[t]
  OBVIOUS
<1>2. r.op = "note" /\ r \in SnapState /\ FitsAs(t, r) /\ r # Quiet
  BY <1>1 DEF NoteVersion, Step, SnapshotsInv, SnapTypes, RequestFits, Quiet
<1>3. r.file \in File /\ r.copy \in CopyRow /\ r.copy.version \in Nat
  <2>1. r \in [op : {"replace", "note", "apply"}, file : File, write : OfRequest, copy : CopyRow]
    BY <1>2, SnapShapes DEF Restored
  <2>2. QED
    BY <2>1 DEF CopyRow
<1>4. PICK next : next = Unchecked(t)
  OBVIOUS
<1>5. next \in SnapState /\ FitsAs(t, next)
  BY <1>1, <1>2, <1>4, UncheckedFits
<1>6. /\ request' = [request EXCEPT ![t] = next] /\ snapCalls' = snapCalls
      /\ known' = [known EXCEPT ![r.file] = r.copy.version]
      /\ recent' = [recent EXCEPT ![r.file] = TRUE]
      /\ UNCHANGED <<local, remote, guard, outcome>>
  BY <1>1, <1>4 DEF NoteVersion, Step
<1>7. SnapTypes'
  BY <1>3, <1>5, <1>6 DEF SnapshotsInv, SnapTypes, outcome
<1>8. KnownVersions'
  <2>1. r.copy.version <= remote[r.file].version
    BY <1>2 DEF FitsAs, Restored
  <2>2. QED
    BY <1>3, <1>6, <2>1 DEF SnapshotsInv, SnapTypes, KnownVersions
<1>9. AnsweredKept'
  BY <1>6 DEF SnapshotsInv, AnsweredKept, outcome
<1>10. FitsAs(t, next)'
  BY <1>5, <1>6 DEF FitsAs, outcome
<1>11. \A f \in File : remote[f].version <= remote'[f].version
  BY <1>6 DEF SnapshotsInv, SnapTypes, CopyRow
<1>12. QED
  BY <1>5, <1>6, <1>7, <1>8, <1>9, <1>10, <1>11, SnapStep DEF outcome

\* The write is in the file.
LEMMA SnapApplies ==
    ASSUME SnapshotsInv, NEW t \in SnapThread, ApplyWrite(t)
    PROVE  SnapshotsInv'
<1>1. PICK r : r = request[t]
  OBVIOUS
<1>2. r.op = "apply" /\ r \in SnapState /\ FitsAs(t, r) /\ r # Quiet
  BY <1>1 DEF ApplyWrite, Step, SnapshotsInv, SnapTypes, RequestFits, Quiet
<1>3. r.file \in File /\ r.write # <<>> /\ r.write \in SnapWrite
  <2>1. r.file \in File /\ r.write \in OfRequest
    BY <1>2, SnapShapes
  <2>2. r.write # <<>>
    BY <1>2 DEF FitsAs
  <2>3. QED
    BY <2>1, <2>2 DEF OfRequest
<1>4. PICK next : next = [op |-> "backup", file |-> r.file, write |-> r.write]
  OBVIOUS
<1>5. next \in SnapState
  BY <1>3, <1>4 DEF SnapState, OfRequest
<1>6. /\ request' = [request EXCEPT ![t] = next] /\ snapCalls' = snapCalls
      /\ local' = [local EXCEPT ![r.file] = @ \cup {r.write}]
      /\ UNCHANGED <<remote, known, recent, guard, outcome>>
  BY <1>1, <1>4 DEF ApplyWrite, Step
<1>7. local' \in [File -> Content] /\ r.write \in local'[r.file] /\ \A f \in File : local[f] \subseteq local'[f]
  BY <1>3, <1>6 DEF SnapshotsInv, SnapTypes, Content
<1>8. SnapTypes'
  BY <1>5, <1>6, <1>7 DEF SnapshotsInv, SnapTypes, outcome
<1>9. AnsweredKept'
  <2>1. \A w \in acked : w \in SnapWrite /\ w[1] \in File
    BY DEF SnapshotsInv, SnapTypes, Content, SnapWrite
  <2>2. QED
    BY <1>6, <1>7, <2>1 DEF SnapshotsInv, AnsweredKept, outcome
<1>10. KnownVersions'
  BY <1>6 DEF SnapshotsInv, KnownVersions
<1>11. FitsAs(t, next)'
  <2>1. r.write[1] = r.file /\ (r.file \in Guarded => guard'[r.file] = t)
    BY <1>2, <1>3, <1>6 DEF FitsAs
  <2>2. QED
    BY <1>3, <1>4, <1>7, <2>1 DEF FitsAs, Written, Restored
<1>12. \A f \in File : remote[f].version <= remote'[f].version
  BY <1>6 DEF SnapshotsInv, SnapTypes, CopyRow
<1>13. QED
  BY <1>5, <1>6, <1>7, <1>8, <1>9, <1>10, <1>11, <1>12, SnapStep DEF outcome

\* The copy becomes what the request read of the file: what was answered of a
\* guarded file is in that.
LEMMA SnapUploads ==
    ASSUME SnapshotsInv, NEW t \in SnapThread, Upload(t)
    PROVE  SnapshotsInv'
<1>1. PICK r : r = request[t]
  OBVIOUS
<1>2. r.op = "upload" /\ r \in SnapState /\ FitsAs(t, r) /\ r # Quiet
  BY <1>1 DEF Upload, Step, SnapshotsInv, SnapTypes, RequestFits, Quiet
<1>3. /\ r.file \in File /\ r.write \in SnapWrite /\ r.payload \in Content
      /\ r.write # <<>> /\ r.write[1] = r.file /\ (r.file \in Guarded => guard[r.file] = t)
  <2>1. r.file \in File /\ r.write \in OfRequest /\ r.payload \in Content
    BY <1>2, SnapShapes
  <2>2. r.write # <<>>
    BY <1>2 DEF FitsAs, Written
  <2>3. r.write[1] = r.file /\ (r.file \in Guarded => guard[r.file] = t)
    BY <1>2, <2>2 DEF FitsAs
  <2>4. QED
    BY <2>1, <2>2, <2>3 DEF OfRequest
<1>4. PICK v : v = remote[r.file].version
  OBVIOUS
<1>5. v \in Nat
  BY <1>3, <1>4 DEF SnapshotsInv, SnapTypes, CopyRow
<1>6. PICK next : next = [op |-> "record", file |-> r.file, write |-> r.write, version |-> v + 1]
  OBVIOUS
<1>7. next \in SnapState
  BY <1>3, <1>5, <1>6 DEF SnapState, OfRequest
<1>8. /\ request' = [request EXCEPT ![t] = next] /\ snapCalls' = snapCalls
      /\ remote' = [remote EXCEPT ![r.file] = [version |-> v + 1, content |-> r.payload]]
      /\ UNCHANGED <<local, known, recent, guard, outcome>>
  BY <1>1, <1>4, <1>6 DEF Upload, Step
<1>9. /\ remote' \in [File -> CopyRow]
      /\ remote'[r.file].version = v + 1 /\ remote'[r.file].content = r.payload
      /\ \A f \in File : f # r.file => remote'[f] = remote[f]
  BY <1>3, <1>5, <1>8 DEF SnapshotsInv, SnapTypes, CopyRow
<1>10. \A f \in File : remote[f].version <= remote'[f].version
  <2>1. \A f \in File : remote[f].version \in Nat
    BY DEF SnapshotsInv, SnapTypes, CopyRow
  <2>2. QED
    BY <1>4, <1>5, <1>9, <2>1
<1>11. SnapTypes'
  BY <1>7, <1>8, <1>9 DEF SnapshotsInv, SnapTypes, outcome
<1>12. AnsweredKept'
  <2>1. SUFFICES ASSUME NEW w \in acked, w[1] \in Guarded
                 PROVE  /\ w \in local[w[1]] \cup unsaved \cup overrun
                        /\ w \in remote'[w[1]].content \cup unsaved \cup overrun
    BY <1>8 DEF AnsweredKept, outcome
  <2>2. CASE w[1] = r.file
    BY <1>2, <1>9, <2>1, <2>2 DEF FitsAs, SnapshotsInv, AnsweredKept
  <2>3. CASE w[1] # r.file
    BY <1>9, <2>1, <2>3, SnapshotsAssumption DEF SnapshotsInv, AnsweredKept
  <2>4. QED
    BY <2>2, <2>3
<1>13. KnownVersions'
  <2>1. SUFFICES ASSUME NEW f \in File PROVE known[f] <= remote'[f].version
    BY <1>8 DEF KnownVersions
  <2>2. known[f] <= remote[f].version /\ remote[f].version <= remote'[f].version
    BY <1>10 DEF SnapshotsInv, KnownVersions
  <2>3. known[f] \in Int /\ remote[f].version \in Int /\ remote'[f].version \in Int
    BY <1>9 DEF SnapshotsInv, SnapTypes, CopyRow
  <2>4. QED
    BY <2>2, <2>3
<1>14. FitsAs(t, next)'
  <2>1. r.file \in Guarded => r.write \in r.payload \cup overrun /\ r.write \in local[r.file] \cup overrun
    BY <1>2 DEF FitsAs, Written
  <2>2. next.version <= remote'[next.file].version
    BY <1>5, <1>6, <1>9
  <2>3. QED
    BY <1>3, <1>6, <1>8, <1>9, <2>1, <2>2 DEF FitsAs, Written, Restored, outcome
<1>15. \A f \in Guarded : guard[f] \notin {t, NoThread} =>
          guard'[f] = guard[f] /\ remote'[f].content = remote[f].content
  BY <1>3, <1>8, <1>9, SnapshotsAssumption
<1>16. \A f \in File : local[f] \subseteq local'[f] \cup overrun'
  BY <1>8
<1>17. QED
  BY <1>7, <1>8, <1>10, <1>11, <1>12, <1>13, <1>14, <1>15, <1>16, SnapStep DEF outcome

\* An answer releases the guard; it is given when the write is in the copy, or
\* when its upload failed.
LEMMA SnapAnswers ==
    ASSUME SnapshotsInv, NEW t \in SnapThread, UploadFails(t) \/ RecordVersion(t)
    PROVE  SnapshotsInv'
<1>1. PICK r : r = request[t]
  OBVIOUS
<1>2. r.op \in {"upload", "record"} /\ r \in SnapState /\ FitsAs(t, r) /\ r # Quiet
  BY <1>1 DEF UploadFails, RecordVersion, Step, SnapshotsInv, SnapTypes, RequestFits, Quiet
<1>3. /\ r.file \in File /\ r.write \in SnapWrite
      /\ r.write[1] = r.file /\ (r.file \in Guarded => guard[r.file] = t)
  <2>1. r.file \in File /\ r.write \in OfRequest
    BY <1>2, SnapShapes
  <2>2. r.write # <<>>
    BY <1>2 DEF FitsAs, Written
  <2>3. r.write[1] = r.file /\ (r.file \in Guarded => guard[r.file] = t)
    BY <1>2, <2>2 DEF FitsAs
  <2>4. QED
    BY <2>1, <2>2, <2>3 DEF OfRequest
<1>4. /\ request' = [request EXCEPT ![t] = Quiet] /\ snapCalls' = snapCalls
      /\ guard' = Released(t) /\ acked' = acked \cup {r.write}
      /\ UNCHANGED <<local, remote, overrun>> /\ unsaved' \in {unsaved, unsaved \cup {r.write}}
      /\ \/ known' = known /\ recent' = recent /\ r.write \in unsaved'
         \/ /\ r.op = "record"
            /\ known' = [known EXCEPT ![r.file] = r.version]
            /\ recent' = [recent EXCEPT ![r.file] = TRUE]
  BY <1>1 DEF UploadFails, RecordVersion, Step
<1>5. /\ guard' \in [Guarded -> SnapThread \cup {NoThread}]
      /\ \A f \in Guarded : guard[f] \notin {t, NoThread} => guard'[f] = guard[f]
  <2>1. Released(t) = IF r.file \in Guarded THEN [guard EXCEPT ![r.file] = NoThread] ELSE guard
    BY <1>1 DEF Released
  <2>2. CASE r.file \in Guarded
    BY <1>3, <1>4, <2>1, <2>2 DEF SnapshotsInv, SnapTypes
  <2>3. CASE r.file \notin Guarded
    BY <1>4, <2>1, <2>3 DEF SnapshotsInv, SnapTypes
  <2>4. QED
    BY <2>2, <2>3
<1>6. r.op = "record" => r.version \in Nat /\ r.version <= remote[r.file].version
  BY <1>2, SnapShapes DEF FitsAs
<1>7. known' \in [File -> Nat] /\ recent' \in [File -> BOOLEAN]
  BY <1>3, <1>4, <1>6 DEF SnapshotsInv, SnapTypes
<1>8. KnownVersions'
  BY <1>3, <1>4, <1>6 DEF SnapshotsInv, SnapTypes, KnownVersions
<1>9. acked' \in Content /\ unsaved' \in Content
  BY <1>3, <1>4 DEF SnapshotsInv, SnapTypes, Content
<1>10. Quiet \in SnapState
  BY DEF SnapState
<1>11. SnapTypes'
  BY <1>4, <1>5, <1>7, <1>9, <1>10 DEF SnapshotsInv, SnapTypes
<1>12. AnsweredKept'
  <2>1. SUFFICES ASSUME NEW w \in acked', w[1] \in Guarded
                 PROVE  /\ w \in local[w[1]] \cup unsaved' \cup overrun
                        /\ w \in remote[w[1]].content \cup unsaved' \cup overrun
    BY <1>4 DEF AnsweredKept
  <2>2. CASE w \in acked
    BY <1>4, <2>1, <2>2 DEF SnapshotsInv, AnsweredKept
  <2>3. CASE w = r.write
    <3>1. r.file \in Guarded
      BY <1>3, <2>1, <2>3
    <3>2. r.write \in unsaved' \/ r.op = "record"
      BY <1>4
    <3>3. r.op = "record" => r.write \in local[r.file] \cup overrun /\ r.write \in remote[r.file].content \cup overrun
      BY <1>2, <3>1 DEF FitsAs, Written
    <3>4. QED
      BY <1>3, <2>3, <3>2, <3>3
  <2>4. QED
    BY <1>4, <2>2, <2>3
<1>13. FitsAs(t, Quiet)'
  BY DEF FitsAs, Quiet, Written, Restored
<1>14. \A f \in File : local[f] \subseteq local'[f] \cup overrun' /\ remote[f].version <= remote'[f].version
  BY <1>4 DEF SnapshotsInv, SnapTypes, CopyRow
<1>15. \A f \in Guarded : guard[f] \notin {t, NoThread} =>
          guard'[f] = guard[f] /\ remote'[f].content = remote[f].content
  BY <1>4, <1>5
<1>16. \A w \in acked' : w \in acked \/ (w[1] \in Guarded => guard[w[1]] = t)
  BY <1>3, <1>4
<1>17. QED
  BY <1>4, <1>8, <1>10, <1>11, <1>12, <1>13, <1>14, <1>15, <1>16, SnapStep

\* A new process starts from the copies: what was not in them is gone, and what
\* was answered is in them.
LEMMA SnapRestarts ==
    ASSUME SnapshotsInv, SnapshotsRestart
    PROVE  SnapshotsInv'
<1>1. /\ local' = [f \in File |-> remote[f].content] /\ known' = [f \in File |-> remote[f].version]
      /\ recent' = [f \in File |-> remote[f].version # 0] /\ guard' = [f \in Guarded |-> NoThread]
      /\ request' = [t \in SnapThread |-> Quiet] /\ snapCalls' = snapCalls + 1
      /\ UNCHANGED <<remote, acked, unsaved, overrun>>
  BY DEF SnapshotsRestart, outcome
<1>2. \A f \in File : remote[f].content \in Content /\ remote[f].version \in Nat
  BY DEF SnapshotsInv, SnapTypes, CopyRow
<1>3. Quiet \in SnapState
  BY DEF SnapState
<1>4. SnapTypes'
  BY <1>1, <1>2, <1>3 DEF SnapshotsInv, SnapTypes
<1>5. AnsweredKept'
  BY <1>1, SnapshotsAssumption DEF SnapshotsInv, AnsweredKept
<1>6. KnownVersions'
  BY <1>1, <1>2 DEF KnownVersions
<1>7. \A t \in SnapThread : FitsAs(t, Quiet)'
  BY DEF FitsAs, Quiet, Written, Restored
<1>8. \A t \in SnapThread : RequestFits(t)'
  BY <1>1, <1>7 DEF RequestFits
<1>9. QED
  BY <1>4, <1>5, <1>6, <1>8 DEF SnapshotsInv

LEMMA SnapWindow ==
    ASSUME SnapshotsInv, NEW f \in File, WindowEnds(f)
    PROVE  SnapshotsInv'
<1>1. /\ UNCHANGED <<local, remote, known, guard, request, acked, unsaved, overrun, snapCalls>>
      /\ recent' = [recent EXCEPT ![f] = FALSE]
  BY DEF WindowEnds, outcome
<1>2. SnapTypes'
  BY <1>1 DEF SnapshotsInv, SnapTypes
<1>3. AnsweredKept' /\ KnownVersions' /\ \A t \in SnapThread : RequestFits(t)'
  BY <1>1 DEF SnapshotsInv, AnsweredKept, KnownVersions, RequestFits, FitsAs
<1>4. QED
  BY <1>2, <1>3 DEF SnapshotsInv

LEMMA InitSnapshotsInv == SnapshotsInit => SnapshotsInv
<1> SUFFICES ASSUME SnapshotsInit PROVE SnapshotsInv
  OBVIOUS
<1>1. SnapTypes
  BY DEF SnapshotsInit, SnapTypes, Content, CopyRow, SnapState
<1>2. AnsweredKept /\ KnownVersions
  BY DEF SnapshotsInit, AnsweredKept, KnownVersions
<1>3. \A t \in SnapThread : RequestFits(t)
  BY DEF SnapshotsInit, RequestFits, FitsAs, Quiet, Written, Restored
<1>4. QED
  BY <1>1, <1>2, <1>3 DEF SnapshotsInv

LEMMA NextSnapshotsInv == SnapshotsInv /\ [SnapshotsNext]_snapshotVars => SnapshotsInv'
<1> SUFFICES ASSUME SnapshotsInv, [SnapshotsNext]_snapshotVars PROVE SnapshotsInv'
  OBVIOUS
<1>1. ASSUME NEW t \in SnapThread, NEW f \in File, BeginRead(t, f) PROVE SnapshotsInv'
  BY <1>1, SnapBeginsReading
<1>2. ASSUME NEW t \in SnapThread, NEW f \in File, NEW n \in 1 .. MaxSnapWrites, BeginWrite(t, f, n)
      PROVE  SnapshotsInv'
  BY <1>2, SnapBeginsWriting
<1>3. ASSUME NEW t \in SnapThread, CheckWindow(t) \/ CompareVersion(t) \/ FetchCopy(t) \/ BackupFile(t)
      PROVE  SnapshotsInv'
  BY <1>3, SnapReads
<1>4. ASSUME NEW t \in SnapThread, ReplaceFile(t) PROVE SnapshotsInv'
  BY <1>4, SnapReplaces
<1>5. ASSUME NEW t \in SnapThread, NoteVersion(t) PROVE SnapshotsInv'
  BY <1>5, SnapNotes
<1>6. ASSUME NEW t \in SnapThread, ApplyWrite(t) PROVE SnapshotsInv'
  BY <1>6, SnapApplies
<1>7. ASSUME NEW t \in SnapThread, Upload(t) PROVE SnapshotsInv'
  BY <1>7, SnapUploads
<1>8. ASSUME NEW t \in SnapThread, UploadFails(t) \/ RecordVersion(t) PROVE SnapshotsInv'
  BY <1>8, SnapAnswers
<1>9. ASSUME NEW f \in File, WindowEnds(f) PROVE SnapshotsInv'
  BY <1>9, SnapWindow
<1>10. CASE SnapshotsRestart
  BY <1>10, SnapRestarts
<1>11. CASE UNCHANGED snapshotVars
  <2>1. UNCHANGED <<local, remote, known, recent, guard, request, acked, unsaved, overrun, snapCalls>>
    BY <1>11 DEF snapshotVars
  <2>2. SnapTypes'
    BY <2>1 DEF SnapshotsInv, SnapTypes
  <2>3. AnsweredKept' /\ KnownVersions' /\ \A t \in SnapThread : RequestFits(t)'
    BY <2>1 DEF SnapshotsInv, AnsweredKept, KnownVersions, RequestFits, FitsAs
  <2>4. QED
    BY <2>2, <2>3 DEF SnapshotsInv
<1>12. QED
  BY <1>1, <1>2, <1>3, <1>4, <1>5, <1>6, <1>7, <1>8, <1>9, <1>10, <1>11 DEF SnapshotsNext

LEMMA AlwaysSnapshotsInv == SnapshotsSpec => []SnapshotsInv
  BY InitSnapshotsInv, NextSnapshotsInv, PTL DEF SnapshotsSpec

(***************************************************************************)
(* The files, their copies and the writes in them have their types, and    *)
(* the version a process knows of a file is never ahead of its copy: a     *)
(* request that read the version before another uploaded a later one       *)
(* records an older version, never a newer.                                *)
(***************************************************************************)
THEOREM SnapshotsTyped == SnapshotsSpec => []SnapshotsTypeOK
<1>1. SnapshotsInv => SnapshotsTypeOK
  <2> SUFFICES ASSUME SnapshotsInv PROVE SnapshotsTypeOK
    OBVIOUS
  <2>1. ASSUME NEW f \in File
        PROVE  /\ local[f] \subseteq SnapWrite /\ remote[f].content \subseteq SnapWrite
               /\ known[f] \in 0 .. remote[f].version /\ recent[f] \in BOOLEAN
    BY <2>1 DEF SnapshotsInv, SnapTypes, KnownVersions, Content, CopyRow
  <2>2. guard \in [Guarded -> SnapThread \cup {NoThread}] /\ acked \cup unsaved \cup overrun \subseteq SnapWrite
    BY DEF SnapshotsInv, SnapTypes, Content
  <2>3. QED
    BY <2>1, <2>2 DEF SnapshotsTypeOK
<1>2. QED
  BY <1>1, AlwaysSnapshotsInv, PTL

(***************************************************************************)
(* A write of a tenant's store that was answered is in the copy a restart  *)
(* starts from, whatever else was read, written and restored meanwhile,    *)
(* except when its upload failed or a restore replaced the file under it.  *)
(***************************************************************************)
THEOREM AnsweredAreCopied == SnapshotsSpec => []CopiedUnlessOverrun
<1>1. SnapshotsInv => CopiedUnlessOverrun
  BY DEF SnapshotsInv, AnsweredKept, CopiedUnlessOverrun
<1>2. QED
  BY <1>1, AlwaysSnapshotsInv, PTL

-----------------------------------------------------------------------------
(* MCHosted: the parts together *)

LEMMA HostedParts ==
    HostedSpec => /\ ChainSpec /\ EvidenceSpec /\ AnchorSpec /\ CloudSpec /\ AccountsSpec
                  /\ EnrollmentSpec /\ TenantsSpec /\ BillingSpec /\ SnapshotsSpec
<1>1. HostedInit => /\ ChainInit /\ EvidenceInit /\ AnchorInit /\ CloudInit /\ AccountsInit
                    /\ EnrollmentInit /\ TenantsInit /\ BillingInit /\ SnapshotsInit
  BY DEF HostedInit
<1>2. [HostedNext]_HostedVars => [ChainNext]_chainVars
  BY DEF HostedNext, HostedVars
<1>3. [HostedNext]_HostedVars => [EvidenceNext]_evidenceVars
  BY DEF HostedNext, HostedVars
<1>4. [HostedNext]_HostedVars => [AnchorNext]_anchorVars
  BY DEF HostedNext, HostedVars
<1>5. [HostedNext]_HostedVars => [CloudNext]_cloudVars
  BY DEF HostedNext, HostedVars
<1>6. [HostedNext]_HostedVars => [AccountsNext]_accountsVars
  BY DEF HostedNext, HostedVars
<1>7. [HostedNext]_HostedVars => [EnrollmentNext]_enrollmentVars
  BY DEF HostedNext, HostedVars
<1>8. [HostedNext]_HostedVars => [TenantsNext]_tenantsVars
  BY DEF HostedNext, HostedVars
<1>9. [HostedNext]_HostedVars => [BillingNext]_billingVars
  BY DEF HostedNext, HostedVars
<1>10. [HostedNext]_HostedVars => [SnapshotsNext]_snapshotVars
  BY DEF HostedNext, HostedVars
<1>11. QED
  BY <1>1, <1>2, <1>3, <1>4, <1>5, <1>6, <1>7, <1>8, <1>9, <1>10, PTL
     DEF HostedSpec, ChainSpec, EvidenceSpec, AnchorSpec, CloudSpec, AccountsSpec,
         EnrollmentSpec, TenantsSpec, BillingSpec, SnapshotsSpec

(***************************************************************************)
(* What a process reports as kept elsewhere is kept there, in every        *)
(* instance: an anchor by the service that took it                         *)
(* (anchor_session_receipts), a pairing by the file a new process reads    *)
(* (cloud_sync.py), an answered write by the copy of the tenant's store    *)
(* (managed/persistence.py).                                               *)
(***************************************************************************)
THEOREM AlwaysKeptElsewhere == HostedSpec => []KeptElsewhere
  BY HostedParts, ReportedIsHeld, PairedForGood, AnsweredAreCopied, PTL DEF KeptElsewhere

(***************************************************************************)
(* The state of every part of the hosted service has its type, in every    *)
(* instance.                                                               *)
(***************************************************************************)
THEOREM HostedTyped == HostedSpec => []HostedTypeOK
  BY HostedParts, ChainTyped, EvidenceTyped, AnchorTyped, CloudTyped, AccountsTyped, EnrollmentTyped,
     TenantsTyped, BillingTyped, SnapshotsTyped, PTL DEF HostedTypeOK
=============================================================================
