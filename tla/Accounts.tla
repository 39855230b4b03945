------------------------------ MODULE Accounts ------------------------------
(***************************************************************************)
(* Accounts, sessions and keys in ingest_tokens.sqlite3: accounts.py,      *)
(* ingest_tokens.py, the CORE registration sync and the resets of the      *)
(* managed service.  Every function opens connections of its own and       *)
(* commits between them, so a request is its reads and its writes, and two *)
(* requests interleave.                                                    *)
(*                                                                         *)
(* A password is represented by the number of times it was changed, a      *)
(* session by its position in the order of issue.  A guess is either the   *)
(* password of the row that was read or a wrong one.                       *)
(***************************************************************************)
EXTENDS Integers, Sequences, FiniteSets

CONSTANTS User,             \* e-mail addresses
          ChainAgent,       \* agents registered on chain
          LocalAgent,       \* agents bound with set_account_agent_ids
          Identity,         \* subjects of the identity providers
          AuthThread,       \* requests served at a time
          LockAfter,        \* 5 failed attempts lock an account
          KeyLimit,         \* 100 keys of a workspace
          MaxBlock,         \* bound: newest block of the registry
          MaxSession,       \* bound: sessions and keys ever issued
          MaxAuthCalls      \* bound: requests accepted

ASSUME AccountsAssumption ==
    /\ LockAfter \in Nat \ {0} /\ KeyLimit \in Nat \ {0}
    /\ MaxBlock \in Nat /\ MaxSession \in Nat /\ MaxAuthCalls \in Nat
    /\ ChainAgent \cap LocalAgent = {}

VARIABLES
    user,       \* User -> its row of accounts
    session,    \* ingest_tokens in order of issue
    resetToken, \* User -> state of its password_reset_tokens row
    registry,   \* User -> its registrations and the cursor they came from
    identity,   \* Identity -> the accounts its oauth_identities row names
    served,     \* AuthThread -> what the request has read and does next
    lost,       \* requests a restart cut off, with their next step
    authCalls   \* requests accepted so far

accountsVars == <<user, session, resetToken, registry, identity, served, lost, authCalls>>

Idle == [op |-> "idle"]

AccountsInit ==
    /\ user = [u \in User |-> [exists |-> FALSE, approved |-> FALSE, password |-> 0,
                               failed |-> 0, locked |-> FALSE, local |-> {}, reset |-> 0]]
    /\ session = <<>>
    /\ resetToken = [u \in User |-> "none"]
    /\ registry = [u \in User |-> [block |-> -1, agents |-> {}, crossed |-> FALSE]]
    /\ identity = [d \in Identity |-> {}]
    /\ served = [h \in AuthThread |-> Idle]
    /\ lost = {}
    /\ authCalls = 0

Accept(h) ==
    /\ served[h] = Idle
    /\ authCalls < MaxAuthCalls
    /\ authCalls' = authCalls + 1
    /\ UNCHANGED lost
Continue(h, next) == served' = [served EXCEPT ![h] = next] /\ UNCHANGED <<authCalls, lost>>
Start(h, next) == Accept(h) /\ served' = [served EXCEPT ![h] = next]
OneStep(h) == Accept(h) /\ UNCHANGED served

Live(i)       == session[i].state = "live"
SessionsOf(u) == {i \in DOMAIN session : session[i].kind = "session" /\ session[i].user = u}
LiveKeys      == {i \in DOMAIN session : session[i].kind = "key" /\ Live(i)}
\* _effective_agent_ids: neither source overrides the other.
EffectiveAgents(u, row) == registry[u].agents \cup row.local

Append1(kind, u, password, agents, late) ==
    /\ Len(session) < MaxSession
    /\ session' = Append(session, [kind |-> kind, user |-> u, password |-> password,
                                   agents |-> agents, state |-> "live", late |-> late])
Revoked(I) == [i \in DOMAIN session |->
                  IF i \in I /\ Live(i) THEN [session[i] EXCEPT !.state = "revoked"] ELSE session[i]]

-----------------------------------------------------------------------------
\* Sign-up: one account per e-mail; the managed service starts it unapproved.
CreateAccount(h, u, approved) ==
    /\ ~user[u].exists
    /\ OneStep(h)
    /\ user' = [user EXCEPT ![u] = [@ EXCEPT !.exists = TRUE, !.approved = approved]]
    /\ UNCHANGED <<session, resetToken, registry, identity>>

\* approve_account, and verify_email of the managed service.
ApproveAccount(h, u) ==
    /\ user[u].exists /\ ~user[u].approved
    /\ OneStep(h)
    /\ user' = [user EXCEPT ![u].approved = TRUE]
    /\ UNCHANGED <<session, resetToken, registry, identity>>

(***************************************************************************)
(* issue_account_session decides on the row it read; the failure count and *)
(* the session are written later, from that row.                           *)
(***************************************************************************)
LoginRead(h, u, right) ==
    /\ user[u].exists /\ user[u].approved /\ ~user[u].locked
    /\ Start(h, [op |-> IF right THEN "issue" ELSE "fail", user |-> u, row |-> user[u]])
    /\ UNCHANGED <<user, session, resetToken, registry, identity>>

LoginFail(h) ==
    /\ served[h].op = "fail"
    /\ LET u == served[h].user
           attempts == served[h].row.failed + 1
       IN user' = [user EXCEPT ![u] =
                      [@ EXCEPT !.failed = attempts, !.locked = attempts >= LockAfter]]
    /\ Continue(h, Idle)
    /\ UNCHANGED <<session, resetToken, registry, identity>>

LoginIssue(h) ==
    /\ served[h].op = "issue"
    /\ LET u == served[h].user IN
       /\ user' = [user EXCEPT ![u] = [@ EXCEPT !.failed = 0, !.locked = FALSE]]
       /\ Append1("session", u, served[h].row.password,
                  EffectiveAgents(u, served[h].row),
                  served[h].row.password # user[u].password)
    /\ Continue(h, Idle)
    /\ UNCHANGED <<resetToken, registry, identity>>

-----------------------------------------------------------------------------
(***************************************************************************)
(* Sign-in with an identity provider.  The state that comes back must be   *)
(* signed here, name this provider and be fresh; Google vouches for one    *)
(* address, GitHub lists several.                                          *)
(***************************************************************************)
NoAddress == "no address"
Address == User \cup {NoAddress}
StateAccepted(signed, sameProvider, fresh) == signed /\ sameProvider /\ fresh
GoogleAddress(address, verified) == IF verified THEN address ELSE NoAddress
GitHubAddress(primary, other, public) ==
    IF primary # NoAddress THEN primary ELSE IF other # NoAddress THEN other ELSE public

OAuthNext(d, u) ==
    IF identity[d] # {}
    THEN LET v == CHOOSE x \in identity[d] : TRUE
         IN [op |-> "issue", user |-> v, row |-> user[v]]
    ELSE [op |-> IF user[u].exists THEN "link" ELSE "create", user |-> u, identity |-> d]

OAuthSignIn(h, d, u) ==
    /\ u # NoAddress
    /\ identity[d] # {} => \E v \in identity[d] : user[v].approved
    /\ Start(h, OAuthNext(d, u))
    /\ UNCHANGED <<user, session, resetToken, registry, identity>>

OAuthCallback(h, d) ==
    /\ \E signed, sameProvider, fresh \in BOOLEAN : StateAccepted(signed, sameProvider, fresh)
    /\ \/ \E u \in User, verified \in BOOLEAN : OAuthSignIn(h, d, GoogleAddress(u, verified))
       \/ \E primary, other, public \in Address :
             OAuthSignIn(h, d, GitHubAddress(primary, other, public))

\* create_account: the unique e-mail turns the later of two requests away.
OAuthCreate(h) ==
    /\ served[h].op = "create"
    /\ LET u == served[h].user IN
       /\ user' = [user EXCEPT ![u] = [@ EXCEPT !.exists = TRUE,
                        !.approved = user[u].approved \/ ~user[u].exists]]
       /\ Continue(h, IF user[u].exists THEN Idle ELSE [served[h] EXCEPT !.op = "link"])
    /\ UNCHANGED <<session, resetToken, registry, identity>>

\* One transaction links the identity and approves the account.
OAuthLink(h) ==
    /\ served[h].op = "link"
    /\ LET u == served[h].user
           row == [user[u] EXCEPT !.approved = TRUE]
       IN /\ user' = [user EXCEPT ![u] = row]
          /\ identity' = [identity EXCEPT ![served[h].identity] = {u}]
          /\ Continue(h, [op |-> "issue", user |-> u, row |-> row])
    /\ UNCHANGED <<session, resetToken, registry>>

LockRunsOut(u) ==
    /\ user[u].locked
    /\ user' = [user EXCEPT ![u].locked = FALSE]
    /\ UNCHANGED <<session, resetToken, registry, identity, served, lost, authCalls>>

SessionExpires(i) ==
    /\ Live(i)
    /\ session' = [session EXCEPT ![i].state = "expired"]
    /\ UNCHANGED <<user, resetToken, registry, identity, served, lost, authCalls>>

\* verify_token_record refuses a revoked and an expired token.
RotateRead(h, i) ==
    /\ session[i].kind = "session" /\ Live(i)
    /\ Start(h, [op |-> "rotate", token |-> i, row |-> user[session[i].user]])
    /\ UNCHANGED <<user, session, resetToken, registry, identity>>

\* One transaction: the replacement exists before the old token is revoked.
RotateWrite(h) ==
    /\ served[h].op = "rotate"
    /\ Len(session) < MaxSession
    /\ LET i == served[h].token
           u == session[i].user
           fresh == [session[i] EXCEPT !.state = "live", !.late = @ \/ ~Live(i),
                                       !.agents = EffectiveAgents(u, served[h].row)]
       IN session' = Append(Revoked({i}), fresh)
    /\ Continue(h, Idle)
    /\ UNCHANGED <<user, resetToken, registry, identity>>

\* Logout, revocation of a session by its id, revoke_token.
Revoke(h, i) ==
    /\ Live(i)
    /\ OneStep(h)
    /\ session' = Revoked({i})
    /\ UNCHANGED <<user, resetToken, registry, identity>>

\* account_for_token asks only that the token is not revoked.
ChangePasswordRead(h, i) ==
    /\ session[i].kind = "session" /\ session[i].state # "revoked"
    /\ Start(h, [op |-> "change", user |-> session[i].user])
    /\ UNCHANGED <<user, session, resetToken, registry, identity>>

ChangePasswordWrite(h) ==
    /\ served[h].op = "change"
    /\ LET u == served[h].user IN
       user' = [user EXCEPT ![u] =
                   [@ EXCEPT !.password = user[u].password + 1, !.failed = 0, !.locked = FALSE]]
    /\ Continue(h, Idle)
    /\ UNCHANGED <<session, resetToken, registry, identity>>

-----------------------------------------------------------------------------
\* The token is stored before the e-mail is sent and deleted when that fails.
RequestReset(h, u, delivered) ==
    /\ user[u].exists /\ user[u].approved /\ resetToken[u] # "open"
    /\ OneStep(h)
    /\ resetToken' = [resetToken EXCEPT ![u] = IF delivered THEN "open" ELSE "none"]
    /\ UNCHANGED <<user, session, registry, identity>>

ResetRead(h, u) ==
    /\ resetToken[u] = "open"
    /\ Start(h, [op |-> "reset", user |-> u])
    /\ UNCHANGED <<user, session, resetToken, registry, identity>>

\* reset_password writes without looking at used_at again.
ResetWrite(h) ==
    /\ served[h].op = "reset"
    /\ LET u == served[h].user IN
       /\ user' = [user EXCEPT ![u] = [@ EXCEPT !.password = user[u].password + 1, !.failed = 0,
                                                !.locked = FALSE, !.reset = user[u].password + 1]]
       /\ resetToken' = [resetToken EXCEPT ![u] = "used"]
       /\ Continue(h, [op |-> "revoke", user |-> u])
    /\ UNCHANGED <<session, registry, identity>>

\* Mutant of ResetRevoke: only the newest session is signed out.
ResetRevokeOne(h) ==
    /\ served[h].op = "revoke"
    /\ session' = Revoked({i \in SessionsOf(served[h].user) : i = Len(session)})
    /\ Continue(h, Idle)
    /\ UNCHANGED <<user, resetToken, registry, identity>>

\* ManagedControl.reset_password signs every session of the account out.
ResetRevoke(h) ==
    /\ served[h].op = "revoke"
    /\ session' = Revoked(SessionsOf(served[h].user))
    /\ Continue(h, Idle)
    /\ UNCHANGED <<user, resetToken, registry, identity>>

-----------------------------------------------------------------------------
SetLocalAgents(h, u, agents) ==
    /\ user[u].exists /\ user[u].local # agents
    /\ OneStep(h)
    /\ user' = [user EXCEPT ![u].local = agents]
    /\ UNCHANGED <<session, resetToken, registry, identity>>

(***************************************************************************)
(* sync_account_registrations: the cursor is read before the transaction   *)
(* that replaces the registrations, and the tokens follow in another one.  *)
(* The directory only moves forward: block b lists the agents Listed(b).   *)
(***************************************************************************)
Listed(b) == IF b % 2 = 0 THEN ChainAgent ELSE {}

SyncRead(h, u, b) ==
    /\ user[u].exists /\ b >= registry[u].block
    /\ Start(h, [op |-> "sync", user |-> u, block |-> b])
    /\ UNCHANGED <<user, session, resetToken, registry, identity>>

SyncWrite(h) ==
    /\ served[h].op = "sync"
    /\ registry' = [registry EXCEPT ![served[h].user] =
                       [@ EXCEPT !.block = served[h].block, !.agents = Listed(served[h].block)]]
    /\ Continue(h, [served[h] EXCEPT !.op = "tokens"])
    /\ UNCHANGED <<user, session, resetToken, identity>>

(***************************************************************************)
(* The session tokens get the agents of this snapshot and no others.       *)
(* crossed remembers that another snapshot was applied in between.         *)
(***************************************************************************)
Crossed(h) == registry[served[h].user].block # served[h].block

SyncTokens(h) ==
    /\ served[h].op = "tokens"
    /\ registry' = [registry EXCEPT ![served[h].user].crossed = Crossed(h)]
    /\ session' = [i \in DOMAIN session |->
                      IF i \in SessionsOf(served[h].user) /\ session[i].state # "revoked"
                      THEN [session[i] EXCEPT !.agents = Listed(served[h].block)] ELSE session[i]]
    /\ Continue(h, Idle)
    /\ UNCHANGED <<user, resetToken, identity>>
\* Keys are counted, then issued: POST /keys of the managed service.
KeyCount(h) ==
    /\ Cardinality(LiveKeys) < KeyLimit
    /\ Start(h, [op |-> "key"])
    /\ UNCHANGED <<user, session, resetToken, registry, identity>>

KeyIssue(h) ==
    /\ served[h].op = "key"
    /\ Append1("key", CHOOSE u \in User : TRUE, 0, {}, FALSE)
    /\ Continue(h, Idle)
    /\ UNCHANGED <<user, resetToken, registry, identity>>

\* The service stops between two commits; what was written stays.
AuthRestart ==
    /\ \E h \in AuthThread : served[h] # Idle
    /\ lost' = lost \cup {<<served[h].op, served[h].user>> :
                            h \in {x \in AuthThread : served[x].op \in {"revoke", "tokens"}}}
    /\ served' = [h \in AuthThread |-> Idle]
    /\ UNCHANGED <<user, session, resetToken, registry, identity, authCalls>>

AccountsNext ==
    \/ \E h \in AuthThread, u \in User :
          \/ \E approved \in BOOLEAN : CreateAccount(h, u, approved)
          \/ ApproveAccount(h, u)
          \/ \E right \in BOOLEAN : LoginRead(h, u, right)
          \/ \E delivered \in BOOLEAN : RequestReset(h, u, delivered)
          \/ ResetRead(h, u)
          \/ \E agents \in SUBSET LocalAgent : SetLocalAgents(h, u, agents)
          \/ \E b \in 0 .. MaxBlock : SyncRead(h, u, b)
    \/ \E h \in AuthThread :
          \/ LoginFail(h) \/ LoginIssue(h) \/ RotateWrite(h) \/ ChangePasswordWrite(h)
          \/ ResetWrite(h) \/ ResetRevoke(h) \/ SyncWrite(h) \/ SyncTokens(h)
          \/ KeyCount(h) \/ KeyIssue(h) \/ OAuthCreate(h) \/ OAuthLink(h)
          \/ \E d \in Identity : OAuthCallback(h, d)
          \/ \E i \in DOMAIN session :
                RotateRead(h, i) \/ Revoke(h, i) \/ ChangePasswordRead(h, i)
    \/ \E u \in User : LockRunsOut(u)
    \/ \E i \in DOMAIN session : SessionExpires(i)
    \/ AuthRestart

AccountsSpec == AccountsInit /\ [][AccountsNext]_accountsVars

-----------------------------------------------------------------------------
AccountsTypeOK ==
    /\ \A u \in User :
          /\ user[u].failed \in 0 .. MaxAuthCalls
          /\ user[u].password \in 0 .. MaxAuthCalls /\ user[u].reset \in 0 .. user[u].password
          /\ resetToken[u] \in {"none", "open", "used"}
          /\ registry[u].agents \subseteq ChainAgent /\ registry[u].block \in -1 .. MaxBlock
    /\ Len(session) <= MaxSession
    /\ authCalls \in 0 .. MaxAuthCalls

(***************************************************************************)
(* A reset of the managed service leaves no session of the old password    *)
(* usable once its second commit is done, except one whose login or        *)
(* rotation had read the account before the reset, and except after a      *)
(* restart between the two commits.                                        *)
(***************************************************************************)
ResetEndsSessions ==
    \A u \in User : \A i \in SessionsOf(u) :
        Live(i) /\ session[i].password < user[u].reset =>
            \/ session[i].late
            \/ <<"revoke", u>> \in lost
            \/ \E h \in AuthThread : served[h] = [op |-> "revoke", user |-> u]

(***************************************************************************)
(* A live session carries no on-chain agent that the applied snapshot does *)
(* not list, except between the two commits of a sync, after a restart     *)
(* between them, and after two syncs that crossed.                         *)
(***************************************************************************)
AgentsFollowRegistry ==
    \A u \in User : \A i \in SessionsOf(u) :
        Live(i) /\ ~(session[i].agents \cap ChainAgent \subseteq registry[u].agents) =>
            \/ registry[u].crossed
            \/ <<"tokens", u>> \in lost
            \/ \E h \in AuthThread : served[h].op = "tokens" /\ served[h].user = u

(***************************************************************************)
(* Sign-ins, resets, revocations and registry reads that overlap leave no  *)
(* session that should have ended and no token with another's agents.      *)
(***************************************************************************)
AccountsHold == ResetEndsSessions /\ AgentsFollowRegistry
=============================================================================
