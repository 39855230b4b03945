------------------------------- MODULE MCHosted ------------------------------
(***************************************************************************)
(* Small instances of what leaves a store and of the hosted service around *)
(* it: exchanges and their verification, backups, links and replays,       *)
(* anchoring and synchronisation, accounts, pairings, workspaces, billing  *)
(* and snapshots. They share no state here, so a behaviour is about one of *)
(* them, focus, chosen at the start; the others stay as they began.        *)
(***************************************************************************)
EXTENDS ExchangeChain, StoreEvidence, SessionAnchor, CloudSync, Accounts, Enrollment,
        ManagedTenants, ManagedBilling, ManagedSnapshots, StorageMigration, TLC

CONSTANTS q1, q2, e1, e2

\* A session of two turns with an event each.
Prompts  == e1 :> q1 @@ e2 :> q2
Messages == {<<q1, "assistant">>}

\* Of two exchanges, the first commits to a tool call and its result.
Commitments == <<{"call", "result"}, {}>>

\* A free plan allows one charged write, a paid one two.
Allowances == [p \in {"free", "pro", "team"} |-> IF p = "free" THEN 1 ELSE 2]

\* Processes of a kind are alike.  Only one part moves in a behaviour, so all
\* kinds are exchanged at once.
Exchanged(S) == CHOOSE f \in Permutations(S) : \A x \in S : f[x] # x
OtherSide ==
    Exchanged(Builder) @@ Exchanged(Caller) @@ Exchanged(Handler) @@ Exchanged(Note)
    @@ Exchanged(Import)
HostedSymmetry ==
    {[x \in DOMAIN OtherSide |-> IF swapped THEN OtherSide[x] ELSE x] : swapped \in BOOLEAN}

VARIABLE focus

Focus == {"exchanges", "evidence", "anchor", "cloud", "accounts", "enrollment", "tenants",
          "billing", "snapshots", "migration"}

HostedVars ==
    <<chainVars, evidenceVars, anchorVars, cloudVars, accountsVars, enrollmentVars,
      tenantsVars, billingVars, snapshotVars, migrationVars, focus>>

HostedNext ==
    \/ /\ focus = "exchanges" /\ ChainNext
       /\ UNCHANGED <<evidenceVars, anchorVars, cloudVars, accountsVars, enrollmentVars,
                      tenantsVars, billingVars, snapshotVars, migrationVars, focus>>
    \/ /\ focus = "evidence" /\ EvidenceNext
       /\ UNCHANGED <<chainVars, anchorVars, cloudVars, accountsVars, enrollmentVars,
                      tenantsVars, billingVars, snapshotVars, migrationVars, focus>>
    \/ /\ focus = "anchor" /\ AnchorNext
       /\ UNCHANGED <<chainVars, evidenceVars, cloudVars, accountsVars, enrollmentVars,
                      tenantsVars, billingVars, snapshotVars, migrationVars, focus>>
    \/ /\ focus = "cloud" /\ CloudNext
       /\ UNCHANGED <<chainVars, evidenceVars, anchorVars, accountsVars, enrollmentVars,
                      tenantsVars, billingVars, snapshotVars, migrationVars, focus>>
    \/ /\ focus = "accounts" /\ AccountsNext
       /\ UNCHANGED <<chainVars, evidenceVars, anchorVars, cloudVars, enrollmentVars,
                      tenantsVars, billingVars, snapshotVars, migrationVars, focus>>
    \/ /\ focus = "enrollment" /\ EnrollmentNext
       /\ UNCHANGED <<chainVars, evidenceVars, anchorVars, cloudVars, accountsVars,
                      tenantsVars, billingVars, snapshotVars, migrationVars, focus>>
    \/ /\ focus = "tenants" /\ TenantsNext
       /\ UNCHANGED <<chainVars, evidenceVars, anchorVars, cloudVars, accountsVars,
                      enrollmentVars, billingVars, snapshotVars, migrationVars, focus>>
    \/ /\ focus = "billing" /\ BillingNext
       /\ UNCHANGED <<chainVars, evidenceVars, anchorVars, cloudVars, accountsVars,
                      enrollmentVars, tenantsVars, snapshotVars, migrationVars, focus>>
    \/ /\ focus = "snapshots" /\ SnapshotsNext
       /\ UNCHANGED <<chainVars, evidenceVars, anchorVars, cloudVars, accountsVars,
                      enrollmentVars, tenantsVars, billingVars, migrationVars, focus>>
    \/ /\ focus = "migration" /\ MigrationNext
       /\ UNCHANGED <<chainVars, evidenceVars, anchorVars, cloudVars, accountsVars,
                      enrollmentVars, tenantsVars, billingVars, snapshotVars, focus>>

\* Where a part begins in one of several ways, the others leave it at one.
HostedInit ==
    /\ focus \in Focus
    /\ ChainInit /\ CloudInit /\ AccountsInit /\ EnrollmentInit /\ BillingInit
    /\ SnapshotsInit
    /\ EvidenceInit /\ (focus # "evidence" => path = CHOOSE b \in Bytes : TRUE)
    /\ AnchorInit
    /\ focus # "anchor" =>
          settings = (CHOOSE s \in Settings : TRUE) /\ standing = "unknown"
    /\ TenantsInit
    /\ focus # "tenants" => \A a \in AccountId, s \in Subject : member[<<a, s>>] = "none"
    /\ MigrationInit /\ (focus # "migration" => legacy = {})

HostedSpec == HostedInit /\ [][HostedNext]_HostedVars

\* The state of each part has its type.
HostedTypeOK ==
    /\ ChainTypeOK /\ EvidenceTypeOK /\ AnchorTypeOK /\ CloudTypeOK /\ AccountsTypeOK
    /\ EnrollmentTypeOK /\ TenantsTypeOK /\ BillingTypeOK /\ SnapshotsTypeOK

(***************************************************************************)
(* What a process says another place keeps is kept there: an anchor by the *)
(* service that took it (AnchoredIsHeld), a pairing by the file that a new *)
(* process reads (AuthenticatedSurvivesRestart), and an acknowledged write *)
(* by the snapshot in the hosted database (CopiedUnlessOverrun).           *)
(***************************************************************************)
KeptElsewhere == AnchoredIsHeld /\ AuthenticatedSurvivesRestart /\ CopiedUnlessOverrun
=============================================================================
