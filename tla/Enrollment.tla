----------------------------- MODULE Enrollment -----------------------------
(***************************************************************************)
(* Bringing the device of an agent into a workspace.  enrollment.py and    *)
(* the redeem route bind it with a single-use code an operator issued;     *)
(* device_pairing.py and cloud_client.py have the owner approve a request  *)
(* in the browser while the device polls for its token.                    *)
(*                                                                         *)
(* The store's agent_devices table and the code table are in different     *)
(* databases, and so are the pairing requests and the tokens minted for    *)
(* them: a handler commits to one after the other.                         *)
(***************************************************************************)
EXTENDS Integers, FiniteSets

CONSTANTS Device, Agent, Code,
          Pairing,          \* pairing requests, one per run of cortex login
          Workspace,        \* tenants whose owners may approve a request
          Handler,          \* requests served at a time
          AttemptLimit,     \* 10 redemptions a minute
          MaxEnrollCalls    \* bound: requests accepted

ASSUME EnrollmentAssumption == AttemptLimit \in Nat \ {0} /\ MaxEnrollCalls \in Nat

VARIABLES
    device,       \* Device -> its row of agent_devices
    code,         \* Code -> its row of enrollment_codes
    tries,        \* redemptions counted in the current window
    pairing,      \* Pairing -> its row of device_pairing_requests
    minted,       \* tokens issued for pairing requests: <<pairing, workspace>>
    login,        \* Pairing -> what run_pairing got, the credentials it saved
    handler,      \* Handler -> what the request has read and does next
    projected,    \* <<pairing, workspace>> recorded as devices of a tenant's store
    winners,      \* <<code, agent, device>> of the redemptions that succeeded
    crossedPair,  \* pairings whose row changed between a request's read and write
    enrollCalls

enrollmentVars == <<device, code, tries, pairing, minted, login, handler,
                    projected, winners, crossedPair, enrollCalls>>

AtRest  == [op |-> "rest"]
Nobody  == "nobody"
NoRow   == [status |-> "none", agent |-> Nobody]
NoToken == <<>>

EnrollmentInit ==
    /\ device = [d \in Device |-> NoRow]
    /\ code = [c \in Code |-> "none"]
    /\ tries = 0
    /\ pairing = [p \in Pairing |-> [status |-> "none", late |-> FALSE, token |-> NoToken]]
    /\ minted = {}
    /\ login = [p \in Pairing |-> [state |-> "none", token |-> NoToken]]
    /\ handler = [h \in Handler |-> AtRest]
    /\ projected = {}
    /\ winners = {}
    /\ crossedPair = {}
    /\ enrollCalls = 0

Serve(h, next) ==
    /\ handler[h] = AtRest
    /\ enrollCalls < MaxEnrollCalls
    /\ enrollCalls' = enrollCalls + 1
    /\ handler' = [handler EXCEPT ![h] = next]
Proceed(h, next) == handler' = [handler EXCEPT ![h] = next] /\ UNCHANGED enrollCalls

\* run_pairing polls and listens at the same time; what comes first is saved.
Waiting(p)            == login[p].state = "waiting"
Collected(p, token)   == [login EXCEPT ![p] = [state |-> "paired", token |-> token]]
Failed(p)             == [login EXCEPT ![p].state = "failed"]
LoopbackHas(p, token) == IF Waiting(p) THEN Collected(p, token) ELSE login

codeVars == <<code, tries, winners>>
pairVars == <<pairing, minted, login, projected, crossedPair>>

-----------------------------------------------------------------------------
(***************************************************************************)
(* associate_agent_device: one upsert on the device.  Opening a store does *)
(* not reactivate a revoked device; every other caller does.               *)
(***************************************************************************)
Associated(d, a) == [device EXCEPT ![d] = [status |-> "active", agent |-> a]]

OperatorAssociates(h, d, a) ==
    /\ Serve(h, AtRest)
    /\ device' = Associated(d, a)
    /\ UNCHANGED <<codeVars, pairVars>>

StoreOpens(h, d, a) ==
    /\ device[d].status # "revoked"
    /\ Serve(h, AtRest)
    /\ device' = Associated(d, a)
    /\ UNCHANGED <<codeVars, pairVars>>

OperatorSets(h, d, status) ==
    /\ device[d] # NoRow
    /\ Serve(h, AtRest)
    /\ device' = [device EXCEPT ![d].status = status]
    /\ UNCHANGED <<codeVars, pairVars>>

-----------------------------------------------------------------------------
IssueCode(h, c) ==
    /\ code[c] = "none"
    /\ Serve(h, AtRest)
    /\ code' = [code EXCEPT ![c] = "issued"]
    /\ UNCHANGED <<device, tries, winners, pairVars>>

CodeExpires(c) ==
    /\ code[c] = "issued"
    /\ code' = [code EXCEPT ![c] = "expired"]
    /\ UNCHANGED <<device, tries, winners, pairVars, handler, enrollCalls>>

WindowSlides ==
    /\ tries > 0
    /\ tries' = 0
    /\ UNCHANGED <<device, code, winners, pairVars, handler, enrollCalls>>

\* The redeem route looks at the device before it spends the code.
MayEnroll(d, a) == device[d] \in {NoRow, [status |-> "active", agent |-> a]}

(***************************************************************************)
(* The attempt is counted before the verdict, then the row of the code is  *)
(* read.  A refusal changes nothing else.                                  *)
(***************************************************************************)
RedeemRead(h, c, d, a) ==
    /\ MayEnroll(d, a)
    /\ tries' = tries + 1
    /\ Serve(h, IF tries' <= AttemptLimit /\ code[c] = "issued"
                THEN [op |-> "mark", code |-> c, device |-> d, agent |-> a]
                ELSE AtRest)
    /\ UNCHANGED <<device, code, winners, pairVars>>

\* UPDATE ... WHERE redeemed_at IS NULL; the expiry is not looked at again.
\* Mutant of Unredeemed: the condition of the update is dropped.
UnredeemedBefore(c) == TRUE
Unredeemed(c) == code[c] # "redeemed"

RedeemMark(h) ==
    /\ handler[h].op = "mark"
    /\ LET c == handler[h].code IN
       IF Unredeemed(c)
       THEN /\ code' = [code EXCEPT ![c] = "redeemed"]
            /\ winners' = winners \cup {<<c, handler[h].agent, handler[h].device>>}
            /\ Proceed(h, [handler[h] EXCEPT !.op = "bind"])
       ELSE Proceed(h, AtRest) /\ UNCHANGED <<code, winners>>
    /\ UNCHANGED <<device, tries, pairVars>>

RedeemBind(h) ==
    /\ handler[h].op = "bind"
    /\ device' = Associated(handler[h].device, handler[h].agent)
    /\ Proceed(h, AtRest)
    /\ UNCHANGED <<codeVars, pairVars>>

-----------------------------------------------------------------------------
\* cortex login: the device asks for a code pair and starts to wait.
PairRequest(h, p) ==
    /\ pairing[p].status = "none"
    /\ Serve(h, AtRest)
    /\ pairing' = [pairing EXCEPT ![p].status = "pending"]
    /\ login' = [login EXCEPT ![p].state = "waiting"]
    /\ UNCHANGED <<device, codeVars, minted, projected, crossedPair>>

PairGrowsOld(p) ==
    /\ pairing[p].status = "pending" /\ ~pairing[p].late
    /\ pairing' = [pairing EXCEPT ![p].late = TRUE]
    /\ UNCHANGED <<device, codeVars, minted, login, projected, crossedPair, handler, enrollCalls>>

\* approve_pairing_request: a request that is pending and not too old.
ApproveRead(h, p, w) ==
    /\ pairing[p].status = "pending"
    /\ IF pairing[p].late
       THEN /\ pairing' = [pairing EXCEPT ![p].status = "expired"]
            /\ Serve(h, AtRest)
       ELSE /\ Serve(h, [op |-> "mint", pairing |-> p, token |-> <<p, w>>])
            /\ UNCHANGED pairing
    /\ UNCHANGED <<device, codeVars, minted, login, projected, crossedPair>>

\* issue_token commits on a connection of its own.
ApproveMint(h) ==
    /\ handler[h].op = "mint"
    /\ minted' = minted \cup {handler[h].token}
    /\ Proceed(h, [handler[h] EXCEPT !.op = "approve"])
    /\ UNCHANGED <<device, codeVars, pairing, login, projected, crossedPair>>

\* The device is recorded in the tenant's store; a failure there is ignored.
Recorded(token) == {projected, projected \cup {token}}
Crossing(p) == IF pairing[p].status = "pending" THEN crossedPair ELSE crossedPair \cup {p}

(***************************************************************************)
(* The row is written whatever it holds by now.  The browser gets the      *)
(* token too and carries it to the loopback listener of the device.        *)
(***************************************************************************)
ApproveWrite(h, loopback) ==
    /\ handler[h].op = "approve"
    /\ LET p == handler[h].pairing IN
       /\ crossedPair' = Crossing(p)
       /\ pairing' = [pairing EXCEPT ![p].status = "approved", ![p].token = handler[h].token]
       /\ login' = IF loopback THEN LoopbackHas(p, handler[h].token) ELSE login
    /\ projected' \in Recorded(handler[h].token)
    /\ Proceed(h, AtRest)
    /\ UNCHANGED <<device, codeVars, minted>>

\* poll_status: the row is read, and an old pending one is marked expired.
PollRead(h, p) ==
    /\ Waiting(p)
    /\ CASE pairing[p].status = "approved" ->
              /\ login' = Collected(p, pairing[p].token)
              /\ Serve(h, AtRest)
         [] pairing[p].status = "expired" ->
              /\ login' = Failed(p)
              /\ Serve(h, AtRest)
         [] pairing[p].status = "pending" /\ pairing[p].late ->
              /\ Serve(h, [op |-> "expire", pairing |-> p])
              /\ UNCHANGED login
         [] OTHER -> FALSE
    /\ UNCHANGED <<device, codeVars, pairing, minted, projected, crossedPair>>

\* UPDATE ... SET status='expired' WHERE id: the status is not looked at again.
PollExpire(h) ==
    /\ handler[h].op = "expire"
    /\ LET p == handler[h].pairing IN
       /\ crossedPair' = Crossing(p)
       /\ pairing' = [pairing EXCEPT ![p].status = "expired"]
       /\ login' = IF Waiting(p) THEN Failed(p) ELSE login
    /\ Proceed(h, AtRest)
    /\ UNCHANGED <<device, codeVars, minted, projected>>

\* run_pairing gives up after ten minutes, before the request expires.
LoginTimesOut(p) ==
    /\ Waiting(p)
    /\ login' = Failed(p)
    /\ UNCHANGED <<device, codeVars, pairing, minted, projected, crossedPair, handler, enrollCalls>>

\* cortex logout removes the saved credentials; the token stays valid.
Logout(p) ==
    /\ login[p].state = "paired"
    /\ login' = [login EXCEPT ![p] = [state |-> "loggedOut", token |-> NoToken]]
    /\ UNCHANGED <<device, codeVars, pairing, minted, projected, crossedPair, handler, enrollCalls>>

\* The service stops between two commits of its handlers.
EnrollRestart ==
    /\ \E h \in Handler : handler[h] # AtRest
    /\ handler' = [h \in Handler |-> AtRest]
    /\ UNCHANGED <<device, codeVars, pairVars, enrollCalls>>

EnrollmentNext ==
    \/ \E h \in Handler :
          \/ \E d \in Device, a \in Agent :
                \/ OperatorAssociates(h, d, a) \/ StoreOpens(h, d, a)
                \/ \E c \in Code : RedeemRead(h, c, d, a)
          \/ \E d \in Device, status \in {"detached", "revoked"} : OperatorSets(h, d, status)
          \/ \E c \in Code : IssueCode(h, c)
          \/ RedeemMark(h) \/ RedeemBind(h)
          \/ \E p \in Pairing :
                \/ PairRequest(h, p) \/ PollRead(h, p)
                \/ \E w \in Workspace : ApproveRead(h, p, w)
          \/ ApproveMint(h) \/ PollExpire(h)
          \/ \E loopback \in BOOLEAN : ApproveWrite(h, loopback)
    \/ \E c \in Code : CodeExpires(c)
    \/ \E p \in Pairing : PairGrowsOld(p) \/ LoginTimesOut(p) \/ Logout(p)
    \/ WindowSlides
    \/ EnrollRestart

EnrollmentSpec == EnrollmentInit /\ [][EnrollmentNext]_enrollmentVars

-----------------------------------------------------------------------------
EnrollmentTypeOK ==
    /\ \A d \in Device : device[d].status \in {"none", "active", "detached", "revoked"}
    /\ \A c \in Code : code[c] \in {"none", "issued", "expired", "redeemed"}
    /\ \A p \in Pairing : /\ pairing[p].status \in {"none", "pending", "approved", "expired"}
                          /\ pairing[p].token \in minted \cup {NoToken}
                          /\ login[p].state \in {"none", "waiting", "paired", "failed", "loggedOut"}
    /\ projected \subseteq minted
    /\ minted \subseteq Pairing \X Workspace
    /\ tries \in 0 .. MaxEnrollCalls /\ enrollCalls \in 0 .. MaxEnrollCalls

(***************************************************************************)
(* However redemptions interleave, a code admits one agent on one device   *)
(* (the conditional update of redeem_code, not the read before it).        *)
(***************************************************************************)
OneRedemptionPerCode ==
    \A x, y \in winners : x[1] = y[1] => x = y

(***************************************************************************)
(* A device that collected a token holds the token its pairing names, and  *)
(* the request stays approved, unless an approval or an expiry was decided *)
(* on a row that another request changed before it was written.            *)
(***************************************************************************)
PairedAsRecorded ==
    \A p \in Pairing \ crossedPair :
        login[p].state = "paired" =>
            pairing[p].status = "approved" /\ pairing[p].token = login[p].token

(***************************************************************************)
(* A code neither moves a device that is paired to another agent nor       *)
(* brings a revoked one back: the comment on the redeem route of           *)
(* local_api.py says that both are refused.                                *)
(***************************************************************************)
NeverRepaired ==
    [][\A h \in Handler :
          RedeemBind(h) => MayEnroll(handler[h].device, handler[h].agent)]_enrollmentVars

(***************************************************************************)
(* Devices and agents are paired as recorded, however requests overlap.    *)
(***************************************************************************)
PairingsHold == OneRedemptionPerCode /\ PairedAsRecorded
=============================================================================
