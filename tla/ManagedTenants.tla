--------------------------- MODULE ManagedTenants ---------------------------
(***************************************************************************)
(* How an account of the managed service gets its workspace, and how a     *)
(* Supabase subject is tied to it: register, oauth_login_or_register,      *)
(* provision_auth_subject, the identity migration and its rollback in      *)
(* managed/control.py.                                                     *)
(*                                                                         *)
(* Accounts are in the identity database, tenants and links in the control *)
(* database.  A write transaction of the control database excludes other   *)
(* ones (control names its holder); a commit to the identity database in   *)
(* the middle of it stays when the transaction is rolled back.             *)
(***************************************************************************)
EXTENDS Integers, FiniteSets

CONSTANTS Owner,            \* e-mail addresses of password and OAuth accounts
          Subject,          \* Supabase Auth users, confirmed
          Batch,            \* migration batches
          Worker,           \* requests served at a time
          DailyLimit,       \* signup_daily_limit
          MaxTenants,       \* bound: workspace ids drawn
          MaxTenantCalls    \* bound: requests accepted

ASSUME TenantsAssumption ==
    /\ DailyLimit \in Nat /\ MaxTenants \in Nat /\ MaxTenantCalls \in Nat
    /\ Owner \cap Subject = {}               \* account ids of subjects have a prefix
    /\ "nobody" \notin Owner \cup Subject

VARIABLES
    account,    \* Owner -> its row of accounts
    workspace,  \* account id -> the tenant that names it as owner
    ownerUser,  \* account id -> owner_user_id of its tenant
    member,     \* <<account id, Subject>> -> role in tenant_memberships
    link,       \* Subject -> its row of auth_identity_migrations
    mail,       \* Owner -> an open verification link exists
    drawn,      \* workspace ids drawn so far
    control,    \* the worker inside a write transaction, or nobody
    at,         \* Worker -> what the request has read and does next
    torn,       \* owners whose provisioning another request or a restart cut
    tenantCalls

tenantsVars == <<account, workspace, ownerUser, member, link, mail, drawn,
                 control, at, torn, tenantCalls>>

AccountId == Owner \cup Subject     \* "supabase:" + subject
None      == 0
NoBody    == "nobody"
Resting   == [op |-> "rest"]
NoLink    == [account |-> NoBody]
Roles     == {"none", "viewer", "owner"}
NoAccount == [exists |-> FALSE, profile |-> None, verified |-> FALSE]

TenantsInit ==
    /\ account = [o \in Owner |-> NoAccount]
    /\ workspace = [a \in AccountId |-> None]
    /\ ownerUser = [a \in AccountId |-> NoBody]
    \* A workspace may already list a subject as one of its members.
    /\ member \in [AccountId \X Subject -> {"none", "viewer"}]
    /\ \A s \in Subject, a \in Subject : member[<<a, s>>] = "none"
    /\ link = [s \in Subject |-> NoLink]
    /\ mail = [o \in Owner |-> FALSE]
    /\ drawn = 0
    /\ control = NoBody
    /\ at = [w \in Worker |-> Resting]
    /\ torn = {}
    /\ tenantCalls = 0

Free        == control = NoBody
HasCapacity == Cardinality({a \in AccountId : workspace[a] # None}) < DailyLimit
Draw        == drawn < MaxTenants /\ drawn' = drawn + 1

Arrive(w, next) ==
    /\ at[w] = Resting
    /\ tenantCalls < MaxTenantCalls
    /\ tenantCalls' = tenantCalls + 1
    /\ at' = [at EXCEPT ![w] = next]
GoOn(w, next) == at' = [at EXCEPT ![w] = next] /\ UNCHANGED tenantCalls

\* Somebody else is providing a workspace for o.
Provisioning(o) == \E w \in Worker : at[w].op \in {"join", "tenant", "insert"} /\ at[w].owner = o

linkVars == <<ownerUser, member, link>>

-----------------------------------------------------------------------------
(***************************************************************************)
(* register: inside the control transaction the account is committed to    *)
(* the identity database, then the tenant is inserted.                     *)
(***************************************************************************)
Register(w, o, verified) ==
    /\ Free /\ HasCapacity /\ ~account[o].exists
    /\ Draw
    /\ account' = [account EXCEPT ![o] = [exists |-> TRUE, profile |-> drawn', verified |-> verified]]
    /\ control' = w
    /\ torn' = IF Provisioning(o) THEN torn \cup {o} ELSE torn
    /\ Arrive(w, [op |-> "insert", owner |-> o, id |-> drawn'])
    /\ UNCHANGED <<workspace, mail, linkVars>>

RegisterTenant(w) ==
    /\ at[w].op = "insert"
    /\ workspace' = [workspace EXCEPT ![at[w].owner] = at[w].id]
    /\ control' = NoBody
    /\ GoOn(w, IF account[at[w].owner].verified THEN Resting ELSE [op |-> "mail", owner |-> at[w].owner])
    /\ UNCHANGED <<account, mail, drawn, torn, linkVars>>

\* send_verification; the e-mail itself may fail, the row stays.
SendMail(w) ==
    /\ at[w].op = "mail" /\ Free
    /\ mail' = [mail EXCEPT ![at[w].owner] = TRUE]
    /\ GoOn(w, Resting)
    /\ UNCHANGED <<account, workspace, drawn, control, torn, linkVars>>

ResendMail(w, o) ==
    /\ account[o].exists /\ ~account[o].verified
    /\ Arrive(w, [op |-> "mail", owner |-> o])
    /\ UNCHANGED <<account, workspace, mail, drawn, control, torn, linkVars>>

\* verify_email commits to the identity database first, so it can be repeated.
VerifyAccount(w, o) ==
    /\ Free /\ mail[o]
    /\ account' = [account EXCEPT ![o].verified = TRUE]
    /\ control' = w
    /\ Arrive(w, [op |-> "verified", owner |-> o])
    /\ UNCHANGED <<workspace, mail, drawn, torn, linkVars>>

VerifyDone(w) ==
    /\ at[w].op = "verified"
    /\ mail' = [mail EXCEPT ![at[w].owner] = FALSE]
    /\ control' = NoBody
    /\ GoOn(w, Resting)
    /\ UNCHANGED <<account, workspace, drawn, torn, linkVars>>

-----------------------------------------------------------------------------
(***************************************************************************)
(* oauth_login_or_register: look the account and its tenant up, make or    *)
(* join the account, then insert the tenant if the account has none.       *)
(***************************************************************************)
OAuthRead(w, o) ==
    /\ IF workspace[o] # None /\ account[o].exists
       THEN Arrive(w, [op |-> "join", owner |-> o, id |-> workspace[o]]) /\ UNCHANGED drawn
       ELSE Free /\ HasCapacity /\ Draw /\ Arrive(w, [op |-> "join", owner |-> o, id |-> drawn'])
    /\ torn' = IF Provisioning(o) THEN torn \cup {o} ELSE torn
    /\ UNCHANGED <<account, workspace, mail, control, linkVars>>

OAuthAccount(w) ==
    /\ at[w].op = "join"
    /\ LET o == at[w].owner IN
       account' = [account EXCEPT ![o] =
                      IF @.exists THEN [@ EXCEPT !.verified = TRUE]
                      ELSE [exists |-> TRUE, profile |-> at[w].id, verified |-> TRUE]]
    /\ GoOn(w, [at[w] EXCEPT !.op = "tenant"])
    /\ UNCHANGED <<workspace, mail, drawn, control, torn, linkVars>>

InsertIfMissing(o, id) == IF workspace[o] = None THEN id ELSE workspace[o]

OAuthTenant(w) ==
    /\ at[w].op = "tenant" /\ Free
    /\ workspace' = [workspace EXCEPT ![at[w].owner] = InsertIfMissing(at[w].owner, at[w].id)]
    /\ GoOn(w, Resting)
    /\ UNCHANGED <<account, mail, drawn, control, torn, linkVars>>

-----------------------------------------------------------------------------
(***************************************************************************)
(* _link_auth_subject_in_db: the row keeps what unlinking must restore.    *)
(***************************************************************************)
LinkRow(s, a, b) == [account |-> a, batch |-> b,
                     ownerCreated |-> ownerUser[a] = NoBody, roleBefore |-> member[<<a, s>>]]
Linkable(s, a) ==
    /\ workspace[a] # None
    /\ ownerUser[a] \in {NoBody, s}
    /\ link[s] = NoLink
    /\ \A t \in Subject : link[t].account # a
Tie(s, a, b) ==
    /\ link' = [link EXCEPT ![s] = LinkRow(s, a, b)]
    /\ ownerUser' = [ownerUser EXCEPT ![a] = s]
    /\ member' = [member EXCEPT ![<<a, s>>] = "owner"]

\* provision_auth_subject: tenant and link of a new subject in one transaction.
ProvisionSubject(w, s, b) ==
    /\ Free /\ HasCapacity /\ link[s] = NoLink /\ workspace[s] = None
    /\ Draw
    /\ workspace' = [workspace EXCEPT ![s] = drawn']
    /\ Tie(s, s, b)
    /\ Arrive(w, Resting)
    /\ UNCHANGED <<account, mail, control, torn>>

\* After a rollback the workspace is there; only the link is made again.
ReprovisionSubject(w, s, b) ==
    /\ Free /\ HasCapacity /\ Linkable(s, s)
    /\ Tie(s, s, b)
    /\ Arrive(w, Resting)
    /\ UNCHANGED <<account, workspace, mail, drawn, control, torn>>

(***************************************************************************)
(* migrate_auth_subjects checks every link outside a transaction and then  *)
(* applies the batch in one; the constraints are checked again there.      *)
(***************************************************************************)
MigrateCheck(w, s, o, b) ==
    /\ account[o].exists /\ account[o].verified /\ Linkable(s, o)
    /\ Arrive(w, [op |-> "apply", subject |-> s, owner |-> o, batch |-> b])
    /\ UNCHANGED <<account, workspace, mail, drawn, control, torn, linkVars>>

MigrateApply(w) ==
    /\ at[w].op = "apply" /\ Free
    /\ IF Linkable(at[w].subject, at[w].owner)
       THEN Tie(at[w].subject, at[w].owner, at[w].batch)
       ELSE UNCHANGED linkVars
    /\ GoOn(w, Resting)
    /\ UNCHANGED <<account, workspace, mail, drawn, control, torn>>

\* Mutant of RestoredRole: the membership is removed with the link.
RestoredRoleNone(a, s) == "none"
\* The subjects of S get back the owner and the role their link had found.
RestoredRole(a, s) == link[s].roleBefore
Untie(S) ==
    LET Of(a) == {s \in S : link[s].account = a}
    IN /\ member' = [p \in AccountId \X Subject |->
                        IF p[2] \in Of(p[1]) THEN RestoredRole(p[1], p[2]) ELSE member[p]]
       /\ ownerUser' = [a \in AccountId |->
                           IF \E s \in Of(a) : link[s].ownerCreated /\ ownerUser[a] = s
                           THEN NoBody ELSE ownerUser[a]]
       /\ link' = [s \in Subject |-> IF s \in S THEN NoLink ELSE link[s]]

\* unlink_auth_subject, with or without naming the batch.
Unlink(w, s) ==
    /\ Free /\ link[s] # NoLink
    /\ Untie({s})
    /\ Arrive(w, Resting)
    /\ UNCHANGED <<account, workspace, mail, drawn, control, torn>>

RollbackBatch(w, b) ==
    /\ Free
    /\ LET S == {s \in Subject : link[s] # NoLink /\ link[s].batch = b}
       IN S # {} /\ Untie(S)
    /\ Arrive(w, Resting)
    /\ UNCHANGED <<account, workspace, mail, drawn, control, torn>>

\* The transaction in progress is rolled back; identity commits are kept.
TenantsRestart ==
    /\ \E w \in Worker : at[w] # Resting
    /\ torn' = torn \cup {o \in Owner : Provisioning(o)}
    /\ at' = [w \in Worker |-> Resting]
    /\ control' = NoBody
    /\ UNCHANGED <<account, workspace, mail, drawn, tenantCalls, linkVars>>

TenantsNext ==
    \/ \E w \in Worker :
          \/ \E o \in Owner :
                \/ \E verified \in BOOLEAN : Register(w, o, verified)
                \/ ResendMail(w, o) \/ VerifyAccount(w, o) \/ OAuthRead(w, o)
                \/ \E s \in Subject, b \in Batch : MigrateCheck(w, s, o, b)
          \/ RegisterTenant(w) \/ SendMail(w) \/ VerifyDone(w)
          \/ OAuthAccount(w) \/ OAuthTenant(w) \/ MigrateApply(w)
          \/ \E s \in Subject :
                \/ Unlink(w, s)
                \/ \E b \in Batch : ProvisionSubject(w, s, b) \/ ReprovisionSubject(w, s, b)
          \/ \E b \in Batch : RollbackBatch(w, b)
    \/ TenantsRestart

TenantsSpec == TenantsInit /\ [][TenantsNext]_tenantsVars

-----------------------------------------------------------------------------
TenantsTypeOK ==
    /\ \A a \in AccountId : workspace[a] \in 0 .. MaxTenants
    /\ \A o \in Owner : account[o].profile \in 0 .. MaxTenants
    /\ ownerUser \in [AccountId -> Subject \cup {NoBody}]
    /\ member \in [AccountId \X Subject -> Roles]
    /\ torn \subseteq Owner /\ tenantCalls \in 0 .. MaxTenantCalls

\* tenant() finds the workspace of an account by its owner and its profile.
Usable(o) == account[o].exists /\ workspace[o] = account[o].profile

(***************************************************************************)
(* The workspace of an account is the one its profile_id names, without    *)
(* which tenant() refuses it for good, except for an account whose first   *)
(* sign-ins overlapped or were cut off by a restart.                       *)
(***************************************************************************)
WorkspaceUsable ==
    \A o \in Owner \ torn :
        workspace[o] # None => Usable(o)

(***************************************************************************)
(* Linking is reversible: over any sequence of links, unlinks and          *)
(* rollbacks of overlapping requests, an unlinked subject is no owner and  *)
(* a linked one is the only owner of its workspace.                        *)
(***************************************************************************)
LinksReversible ==
    \A s \in Subject : \A a \in AccountId :
        IF link[s].account = a
        THEN ownerUser[a] = s /\ member[<<a, s>>] = "owner"
        ELSE ownerUser[a] # s /\ member[<<a, s>>] # "owner"

(***************************************************************************)
(* Whoever unlinks a subject, alone or with its batch, puts back the role  *)
(* the subject had when it was linked.                                     *)
(***************************************************************************)
RolesRestored ==
    [][\A s \in Subject : link[s] # NoLink /\ link'[s] = NoLink =>
          member'[<<link[s].account, s>>] = link[s].roleBefore]_tenantsVars

(***************************************************************************)
(* Workspaces stay usable and links reversible over sign-ins, batches and  *)
(* rollbacks that overlap or stop half way.                                *)
(***************************************************************************)
TenantsHold == []WorkspaceUsable /\ []LinksReversible /\ RolesRestored
=============================================================================
