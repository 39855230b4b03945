--------------------------- MODULE StorageMigration ---------------------------
(***************************************************************************)
(* managed_storage_migrate.py: the tables of the SQLite control plane are  *)
(* imported into the hosted database in batches that can be rolled back,   *)
(* while the service already works there.                                  *)
(*                                                                         *)
(* A row is <<tenant, table>>; the row of a tenant is <<tenant, Root>> and *)
(* the schema deletes the others of the tenant with it.  Its value is a    *)
(* number: 0 when absent, 1 as the SQLite file has it, more after edits.   *)
(***************************************************************************)
EXTENDS Integers, FiniteSets

CONSTANTS Tenant, Dependent,    \* tenants; tables that refer to a tenant
          Import,               \* batch ids
          Migrator,             \* runs of the command at a time
          MaxEdits,             \* bound: edits of a row by the service
          MaxMigrations         \* bound: runs of the command

ASSUME MigrationAssumption == MaxEdits \in Nat /\ MaxMigrations \in Nat

VARIABLES
    legacy,     \* rows in the SQLite file
    target,     \* row -> its value in the hosted database
    imported,   \* Import -> row -> digest in managed_storage_migration_rows
    run,        \* Migrator -> what a rollback has read
    migrations

migrationVars == <<legacy, target, imported, run, migrations>>

Root    == "tenants"
RowOf   == Tenant \X (Dependent \cup {Root})
Stopped == [op |-> "stopped"]
OwnerRow(r) == <<r[1], Root>>
\* on delete cascade, and the foreign key of an insert
Referring(r) == IF r[2] = Root THEN {<<r[1], d>> : d \in Dependent} ELSE {}
HasOwner(r, rows) == r[2] = Root \/ OwnerRow(r) \in rows

MigrationInit ==
    /\ legacy \in {rows \in SUBSET RowOf : \A r \in rows : HasOwner(r, rows)}
    /\ target = [r \in RowOf |-> 0]
    /\ imported = [b \in Import |-> [r \in {} |-> 0]]
    /\ run = [m \in Migrator |-> Stopped]
    /\ migrations = 0

Present == {r \in RowOf : target[r] > 0}
Begin(m, next) ==
    /\ run[m] = Stopped /\ migrations < MaxMigrations
    /\ migrations' = migrations + 1
    /\ run' = [run EXCEPT ![m] = next]

\* The service inserts rows and edits them.
ServiceWrites(r) ==
    /\ target[r] < 1 + MaxEdits
    /\ HasOwner(r, Present)
    /\ target' = [target EXCEPT ![r] = IF @ = 0 THEN 2 ELSE @ + 1]
    /\ UNCHANGED <<legacy, imported, run, migrations>>

\* Nothing is imported when a row is there with another value.
Conflict == \E r \in legacy : target[r] > 1
Missing  == {r \in legacy : target[r] = 0}

Apply(m, b) ==
    /\ ~Conflict
    \* the ledger lists a row once, whatever the batch
    /\ \A other \in Import : DOMAIN imported[other] \cap Missing = {}
    /\ Begin(m, Stopped)
    /\ target' = [r \in RowOf |-> IF r \in Missing THEN 1 ELSE target[r]]
    /\ imported' = [imported EXCEPT ![b] = [r \in DOMAIN @ \cup Missing |-> 1]]
    /\ UNCHANGED legacy

\* Every row of the batch must be as it was imported, or gone.
Unmodified(b) == \A r \in DOMAIN imported[b] : target[r] \in {0, imported[b][r]}

RollbackRead(m, b) ==
    /\ DOMAIN imported[b] # {} /\ Unmodified(b)
    /\ Begin(m, [op |-> "delete", batch |-> b, rows |-> DOMAIN imported[b] \cap Present])
    /\ UNCHANGED <<legacy, target, imported>>

\* on delete cascade: the other rows of a tenant go with its own.
Deleted(rows) == rows \cup UNION {Referring(r) : r \in rows}

RollbackDelete(m) ==
    /\ run[m].op = "delete"
    /\ target' = [r \in RowOf |-> IF r \in Deleted(run[m].rows) THEN 0 ELSE target[r]]
    /\ imported' = [imported EXCEPT ![run[m].batch] = [r \in {} |-> 0]]
    /\ run' = [run EXCEPT ![m] = Stopped]
    /\ UNCHANGED <<legacy, migrations>>

MigrationNext ==
    \/ \E r \in RowOf : ServiceWrites(r)
    \/ \E m \in Migrator :
          \/ \E b \in Import : Apply(m, b) \/ RollbackRead(m, b)
          \/ RollbackDelete(m)

MigrationSpec == MigrationInit /\ [][MigrationNext]_migrationVars

-----------------------------------------------------------------------------
(***************************************************************************)
(* A rollback deletes no row that its batch did not import: the comment in *)
(* _rollback says that the order of its deletes sees to it.                *)
(***************************************************************************)
UnrelatedKept ==
    [][\A m \in Migrator : RollbackDelete(m) =>
          \A r \in Present : target'[r] = 0 => r \in DOMAIN imported[run[m].batch]]_migrationVars

=============================================================================
