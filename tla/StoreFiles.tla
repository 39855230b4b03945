------------------------------ MODULE StoreFiles ------------------------------
(***************************************************************************)
(* The files of a store and what opening one does to them: the schema is   *)
(* brought up to date statement by statement, each committed on its own,   *)
(* by processes that may stop at any of them or open the store together;   *)
(* the identity salt beside it; backup, restore and the read connections   *)
(* of a process, which a restore must take along.                          *)
(***************************************************************************)
EXTENDS Integers, Sequences, FiniteSets, Functions

CONSTANTS
    Opener,     \* processes, each with one handle on the store
    Datum,      \* rows, of every table alike
    Vintage,    \* schema versions a store is found at: of 0, 3, 8, 16
    MaxOpens,   \* bound: opens and restores
    MaxCrashes  \* bound: processes that stop half way

ASSUME FilesAssumption ==
    /\ Vintage \subseteq {0, 3, 8, 16}
    /\ MaxOpens \in Nat /\ MaxCrashes \in Nat

VARIABLES
    file,     \* the database file at the path of the store
    inode,    \* how many files have been at that path
    copy,     \* the backup file, if there is one
    salt,     \* identity_salt: Nothing, "empty" while it is written, who wrote it
    handle,   \* Opener -> its GraphStore
    reading,  \* Opener -> the read connection of one of its threads
    held,     \* history: the rows of each table when the file was put there, none
              \* of a file that was written over while another process had it open
    opens, crashes

filesVars == <<file, inode, copy, salt, handle, reading, held, opens, crashes>>

Nothing == "nothing"
LatestVersion == 16
\* Tables that are rebuilt: renamed aside, created, copied into, and dropped.
Rebuilt    == {"task", "checkpoint", "proposal"}
OurProfile == "ours"
Away       == [step |-> "away"]

\* "aside": the rows under the other name, if there is a table of that name.
Table(shape, rows) == [shape |-> shape, rows |-> rows, aside |-> <<>>]

\* A file at a version; one made by another profile, to be restored by mistake.
FileOf(v, owner) ==
    [version |-> v,
     owner   |-> IF v = 0 THEN Nothing ELSE owner,
     canon   |-> IF v = 0 THEN Nothing ELSE IF v = LatestVersion THEN "v2" ELSE "v1",
     table   |-> [t \in Rebuilt |->
                    IF v = 0 THEN Table("none", {})
                    ELSE IF v = LatestVersion THEN Table("now", Datum)
                    ELSE IF t = "task" THEN Table(IF v = 3 THEN "v3" ELSE "v8", Datum)
                    ELSE IF v = 3 THEN Table("none", {})
                    ELSE Table(IF t = "checkpoint" THEN "old" ELSE "now", Datum)],
     refers  |-> "task",
     vectors |-> CASE v = 0 -> Nothing [] v = 3 -> "l2" [] OTHER -> "cosine",
     vector  |-> IF v = 0 THEN {} ELSE Datum,
     scoped  |-> CASE v = 0 -> "none" [] v = LatestVersion -> "evidence" [] OTHER -> "unscoped"]

Rows(f) == [t \in Rebuilt |-> f.table[t].rows]

FilesInit ==
    /\ \E v \in Vintage : file = FileOf(v, OurProfile)
    /\ inode = 1
    /\ copy \in {{}, {FileOf(LatestVersion, "theirs")}}
    /\ salt = Nothing
    /\ handle = [o \in Opener |-> Away]
    /\ reading = [o \in Opener |-> {}]
    /\ held = Rows(file)
    /\ opens = 0 /\ crashes = 0

-----------------------------------------------------------------------------
(* One step of _migrate by a handle                                        *)

FilesAt(o, step) == handle[o].step = step
\* A rebuild is at one of its four statements.
At(o, name, step) == FilesAt(o, step) /\ handle[o].on = name
\* The file a process has open is the one at the path.
AtPath(o) == handle[o].inode = inode
FilesStep(o, step) == handle' = [handle EXCEPT ![o].step = step]
Quiet == UNCHANGED <<inode, copy, salt, reading, held, opens, crashes>>

\* An exception: the open, or the restore, ends and what is done stays done.
Fails(o) == FilesStep(o, "failed") /\ UNCHANGED file /\ Quiet

\* __init__: a handle, and the file, if there is none at the path.
OpenStore(o) ==
    /\ handle[o].step \in {"away", "failed"} /\ opens < MaxOpens
    /\ opens' = opens + 1
    /\ handle' = [handle EXCEPT ![o] =
         [step |-> "schema", on |-> Nothing, version |-> 0, vectors |-> FALSE, canon |-> Nothing,
          salt |-> Nothing, restoring |-> FALSE, inode |-> inode, generation |-> 0]]
    /\ reading' = [reading EXCEPT ![o] = {}]
    /\ UNCHANGED <<file, inode, copy, salt, held, crashes>>

\* executescript(_SCHEMA): what is not there is created in the shape of today.
Created(table) ==
    [t \in Rebuilt |->
        IF table[t].shape = "none" THEN [table[t] EXCEPT !.shape = "now"] ELSE table[t]]

RunSchema(o) ==
    /\ FilesAt(o, "schema")
    /\ file' = [file EXCEPT !.table = Created(@),
                            !.scoped = IF @ = "none" THEN "evidence" ELSE @,
                            !.refers = IF file.table["proposal"].shape = "none" THEN "task" ELSE @]
    /\ handle' = [handle EXCEPT ![o].step = "profile", ![o].version = file.version]
    /\ Quiet

CheckProfile(o) ==
    /\ FilesAt(o, "profile")
    /\ IF file.owner = Nothing
       THEN LET canon == IF handle[o].version = 0 THEN "v2" ELSE "v1"
            IN /\ file' = [file EXCEPT !.owner = OurProfile, !.canon = canon]
               /\ handle' = [handle EXCEPT ![o].step = "relations", ![o].canon = canon]
               /\ Quiet
       ELSE IF file.owner # OurProfile THEN Fails(o)
       ELSE /\ handle' = [handle EXCEPT ![o].step = "relations", ![o].canon = file.canon]
            /\ UNCHANGED file /\ Quiet

\* The column and what fills it are two statements; only the column is looked for.
ScopeRelations(o) ==
    /\ FilesAt(o, "relations")
    /\ IF file.scoped = "unscoped"
       THEN file' = [file EXCEPT !.scoped = "shared"] /\ FilesStep(o, "backfill")
       ELSE UNCHANGED file /\ FilesStep(o, "vectors")
    /\ Quiet

Backfill(o) ==
    /\ FilesAt(o, "backfill")
    /\ file' = [file EXCEPT !.scoped = "evidence"]
    /\ FilesStep(o, "vectors") /\ Quiet

LookForVectors(o) ==
    /\ FilesAt(o, "vectors")
    /\ handle' = [handle EXCEPT ![o].step = "rename", ![o].on = "v3",
                                ![o].vectors = file.vectors # Nothing]
    /\ UNCHANGED file /\ Quiet

-----------------------------------------------------------------------------
(* Rebuilding a table                                                      *)

\* ALTER TABLE RENAME takes the references of the proposals with it; DROP TABLE
\* deletes, and with foreign keys on what refers to the rows goes too.
Renamed(f, t) ==
    [f EXCEPT !.table[t] = [shape |-> "none", rows |-> {}, aside |-> <<f.table[t].rows>>],
              !.refers = IF t = "task" /\ @ = "task" THEN "aside" ELSE @]

CreatedAs(f, t, shape) ==
    [f EXCEPT !.table[t].shape = shape,
              !.refers = IF t = "proposal" THEN "task" ELSE @]

\* Mutant of Copied: the rows are left to be copied from the table itself.
CopiedNone(f, t) == f
Copied(f, t) == [f EXCEPT !.table[t].rows = @ \cup f.table[t].aside[1]]

Dropped(f, t) ==
    LET without == [f EXCEPT !.table[t].aside = <<>>]
    IN IF t = "task" /\ f.refers = "aside"
       THEN [without EXCEPT !.table["proposal"].rows = {}, !.refers = "dropped"]
       ELSE without

\* Whether the detector of a rebuild finds the old shape, and the shape it makes.
Due(o, name) ==
    CASE name = "v3"         -> handle[o].version < 4 /\ file.table["task"].shape = "v3"
      [] name = "checkpoint" -> file.table["checkpoint"].shape = "old"
      [] name = "v8"         -> file.table["task"].shape \in {"v3", "v8"}
      [] name = "proposal"   -> file.refers # "task"
TableAt(name) == IF name \in {"v3", "v8"} THEN "task" ELSE name
ShapeOf(name) == IF name = "v3" THEN "v8" ELSE "now"
After(name) ==
    CASE name = "v3" -> <<"l2", Nothing>> [] name = "checkpoint" -> <<"rename", "v8">>
      [] name = "v8" -> <<"rename", "proposal">> [] name = "proposal" -> <<"version", Nothing>>
GoOn(o, to) == handle' = [handle EXCEPT ![o].step = to[1], ![o].on = to[2]]
Rebuild == {"v3", "checkpoint", "v8", "proposal"}

Rename(o, name) ==
    LET t == TableAt(name) IN
    /\ At(o, name, "rename")
    /\ IF ~Due(o, name) THEN GoOn(o, After(name)) /\ UNCHANGED file /\ Quiet
       ELSE IF file.table[t].aside # <<>> THEN Fails(o)
       ELSE file' = Renamed(file, t) /\ FilesStep(o, "create") /\ Quiet

\* Another process may have run the schema since, or dropped what was put aside.
Create(o, name) ==
    LET t == TableAt(name) IN
    /\ At(o, name, "create")
    /\ IF file.table[t].shape # "none" /\ name # "proposal" THEN Fails(o)
       ELSE /\ file' = CreatedAs(file, t, ShapeOf(name))
            /\ FilesStep(o, "copy") /\ Quiet

\* A proposal whose task is not in the table of tasks cannot be copied, nor a row twice.
Copy(o, name) ==
    LET t == TableAt(name)
        aside == file.table[t].aside IN
    /\ At(o, name, "copy")
    /\ IF \/ aside = <<>> \/ aside[1] \cap file.table[t].rows # {}
          \/ name = "proposal" /\ ~(aside[1] \subseteq file.table["task"].rows)
       THEN Fails(o)
       ELSE file' = Copied(file, t) /\ FilesStep(o, "drop") /\ Quiet

Drop(o, name) ==
    LET t == TableAt(name) IN
    /\ At(o, name, "drop")
    /\ IF file.table[t].aside = <<>> THEN Fails(o)
       ELSE file' = Dropped(file, t) /\ GoOn(o, After(name)) /\ Quiet

\* The vectors of an early version are read and their table dropped; the
\* statement that makes it anew has a placeholder no one fills, and fails.
RebuildVectors(o) ==
    /\ FilesAt(o, "l2")
    /\ IF handle[o].version < 4 /\ handle[o].vectors
       THEN /\ file' = [file EXCEPT !.vectors = Nothing, !.vector = {}]
            /\ FilesStep(o, "failed")
       ELSE UNCHANGED file /\ FilesStep(o, "create vectors")
    /\ Quiet

CreateVectors(o) ==
    /\ FilesAt(o, "create vectors")
    /\ IF handle[o].vectors THEN UNCHANGED file /\ GoOn(o, <<"rename", "checkpoint">>) /\ Quiet
       ELSE IF file.vectors # Nothing THEN Fails(o)
       ELSE file' = [file EXCEPT !.vectors = "cosine"] /\ GoOn(o, <<"rename", "checkpoint">>) /\ Quiet

\* A restore ends with the upgrade and moves the readers on.
Upgraded(o) ==
    IF handle[o].restoring
    THEN handle' = [handle EXCEPT ![o].step = "open", ![o].restoring = FALSE,
                                  ![o].generation = @ + 1]
    ELSE FilesStep(o, "salt")

\* The version last.
RecordVersion(o) ==
    /\ FilesAt(o, "version")
    /\ file' = [file EXCEPT !.version = LatestVersion]
    /\ Upgraded(o) /\ Quiet

\* A file that another process restored over is upgraded where it is, out of
\* reach of the path: it fails, or ends like the others.
Upgrading ==
    {"schema", "profile", "relations", "backfill", "vectors", "rename", "create", "copy", "drop",
     "l2", "create vectors", "version"}
UpgradeUnlinked(o) ==
    /\ handle[o].step \in Upgrading /\ ~AtPath(o)
    /\ Upgraded(o) \/ FilesStep(o, "failed")
    /\ UNCHANGED file /\ Quiet

-----------------------------------------------------------------------------
(* The salt                                                                *)

\* _load_or_create_identity_salt: what is there is read, whoever is writing it.
LoadSalt(o) ==
    /\ FilesAt(o, "salt")
    /\ handle' = [handle EXCEPT ![o].step = IF salt = Nothing THEN "truncate salt" ELSE "open",
                                ![o].salt = salt]
    /\ UNCHANGED <<file, inode, copy, salt, reading, held, opens, crashes>>

\* write_bytes empties the file and then fills it.
TruncateSalt(o) ==
    /\ FilesAt(o, "truncate salt") /\ salt' = "empty" /\ FilesStep(o, "write salt")
    /\ UNCHANGED <<file, inode, copy, reading, held, opens, crashes>>

WriteSalt(o) ==
    /\ FilesAt(o, "write salt") /\ salt' = o
    /\ handle' = [handle EXCEPT ![o].step = "open", ![o].salt = o]
    /\ UNCHANGED <<file, inode, copy, reading, held, opens, crashes>>

-----------------------------------------------------------------------------
(* A store that is open                                                    *)

\* The process stops, wherever it is.
Crash(o) ==
    /\ ~FilesAt(o, "away") /\ crashes < MaxCrashes
    /\ crashes' = crashes + 1
    /\ handle' = [handle EXCEPT ![o] = Away]
    /\ reading' = [reading EXCEPT ![o] = {}]
    /\ UNCHANGED <<file, inode, copy, salt, held, opens>>

Backup(o) ==
    /\ FilesAt(o, "open") /\ AtPath(o)
    /\ copy' = {file}
    /\ UNCHANGED <<file, inode, salt, handle, reading, held, opens, crashes>>

\* restore: the copy is sound SQLite, whoever's it is; the file at the path goes first.
Unlink(o) ==
    /\ FilesAt(o, "open") /\ copy # {} /\ opens < MaxOpens
    /\ opens' = opens + 1
    /\ file' = FileOf(0, OurProfile) /\ held' = Rows(FileOf(0, OurProfile))
    /\ inode' = inode + 1
    /\ FilesStep(o, "copy back")
    /\ UNCHANGED <<copy, salt, reading, crashes>>

\* A process that has come between has the file open that is written over.
SharedFile(o) == \E p \in Opener \ {o} : ~FilesAt(p, "away") /\ AtPath(p)

\* What such a process has half done to what it found is done to the copy.
CopyBack(o) ==
    /\ FilesAt(o, "copy back")
    /\ \E f \in copy :
         file' = f /\ held' = IF SharedFile(o) THEN [t \in Rebuilt |-> {}] ELSE Rows(f)
    /\ handle' = [handle EXCEPT ![o].step = "schema", ![o].restoring = TRUE, ![o].inode = inode]
    /\ UNCHANGED <<inode, copy, salt, reading, opens, crashes>>

\* A read connection is kept while no restore has ended since it was made.
Follows(c, h) == c.generation = h.generation

\* _read_connection of a thread that reads; it does not wait for a restore.
Read(o) ==
    /\ FilesAt(o, "open") \/ (~FilesAt(o, "away") /\ handle[o].restoring)
    /\ ~ \E c \in reading[o] : Follows(c, handle[o])
    /\ reading' = [reading EXCEPT ![o] = {[inode |-> inode, generation |-> handle[o].generation]}]
    /\ UNCHANGED <<file, inode, copy, salt, handle, held, opens, crashes>>

Migrate(o) ==
    /\ handle[o].step \in Upgrading /\ AtPath(o)
    /\ \/ RunSchema(o) \/ CheckProfile(o) \/ ScopeRelations(o) \/ Backfill(o)
       \/ LookForVectors(o) \/ RebuildVectors(o) \/ CreateVectors(o) \/ RecordVersion(o)
       \/ \E name \in Rebuild : Rename(o, name) \/ Create(o, name) \/ Copy(o, name) \/ Drop(o, name)

FilesNext ==
    \E o \in Opener :
        \/ OpenStore(o) \/ Migrate(o) \/ UpgradeUnlinked(o)
        \/ LoadSalt(o) \/ TruncateSalt(o) \/ WriteSalt(o)
        \/ Crash(o) \/ Backup(o) \/ Unlink(o) \/ CopyBack(o) \/ Read(o)

FilesSpec == FilesInit /\ [][FilesNext]_filesVars

-----------------------------------------------------------------------------
FilesTypeOK ==
    /\ file.version \in {0, 3, 8, 16} /\ file.owner \in {Nothing, OurProfile, "theirs"}
    /\ file.canon \in {Nothing, "v1", "v2"} /\ file.refers \in {"task", "aside", "dropped"}
    /\ \A t \in Rebuilt : file.table[t].rows \subseteq Datum
    /\ Cardinality(copy) <= 1
    /\ salt \in {Nothing, "empty"} \cup Opener
    /\ \A o \in Opener : ~FilesAt(o, "away") => handle[o].inode \in 1..inode

\* Wherever an upgrade stops, and whoever else opens the store meanwhile, the
\* inference tasks and the projection checkpoints it had are in their table or
\* in the one put aside under another name (store.py _migrate).
RowsSomewhere ==
    \A t \in {"task", "checkpoint"} :
        held[t] \subseteq UNION ({file.table[t].rows} \cup Range(file.table[t].aside))

\* A thread that reads through an open store reads the file the store writes,
\* also when a restore put another one there (store.py _read_connection, restore).
ReadersFollow ==
    \A o \in Opener : \A c \in reading[o] :
        FilesAt(o, "open") /\ AtPath(o) /\ Follows(c, handle[o]) => c.inode = inode

\* An upgrade keeps the decisions about proposals it finds; it does not hold
\* (the repairs copy them row by row; tests/test_task_contract_migration.py
\* "must not strand proposals on its old name").
ProposalsKept ==
    \A o \in Opener :
        FilesAt(o, "open") /\ AtPath(o) => held["proposal"] \subseteq file.table["proposal"].rows

\* An upgrade keeps the vectors it finds; it does not hold
\* (test_memory_vectors_migrates_existing_l2_table_to_cosine_preserving_data).
VectorsKept ==
    \A o \in Opener : FilesAt(o, "open") /\ held["task"] # {} => file.vector # {}

\* It does not hold: relations that only the agent of their evidence saw are
\* not shared by the upgrade ("preserves each existing relation's current
\* visibility exactly", store.py:1057-1059).
RelationsStayPrivate == \A o \in Opener : FilesAt(o, "open") => file.scoped # "shared"

(***************************************************************************)
(* Upgrades, restores and the connections of other threads lose no row and *)
(* leave no reader behind.                                                 *)
(***************************************************************************)
FilesHold == RowsSomewhere /\ ReadersFollow
=============================================================================
