-------------------------- MODULE ManagedSnapshots --------------------------
(***************************************************************************)
(* The SQLite files of the managed service and their copies in the hosted  *)
(* database (managed/control.py): every write ends with a checkpoint, and  *)
(* who opens a file first restores it if the copy has another version than *)
(* the one this process knows.  The disk does not outlive the process.     *)
(*                                                                         *)
(* A file is the set of writes in it.  The store of a tenant is written    *)
(* under write_guard, the identity database is not.  Opening a file and    *)
(* using it is one step.                                                   *)
(***************************************************************************)
EXTENDS Integers, FiniteSets

CONSTANTS File, Guarded,    \* the files; those with a write_guard
          SnapThread,       \* requests served at a time
          MaxSnapWrites,    \* bound: writes
          MaxSnapCalls      \* bound: requests accepted

NoThread == "none"

ASSUME SnapshotsAssumption ==
    /\ Guarded \subseteq File /\ MaxSnapWrites \in Nat /\ MaxSnapCalls \in Nat
    /\ NoThread \notin SnapThread

VARIABLES
    local,      \* File -> the writes in the file on disk
    remote,     \* File -> version and content of its row of system_state
    known,      \* File -> _snapshot_versions
    recent,     \* File -> whether it was checked less than five seconds ago
    guard,      \* Guarded -> the thread in its write_guard
    request,    \* SnapThread -> what the request has read and does next
    acked,      \* writes whose request was answered
    unsaved,    \* writes whose checkpoint failed; a warning is logged
    overrun,    \* writes a restore replaced on disk by an older copy
    snapCalls

snapshotVars == <<local, remote, known, recent, guard, request, acked, unsaved, overrun, snapCalls>>

Quiet    == [op |-> "quiet"]
SnapWrite == File \X (1 .. MaxSnapWrites)

SnapshotsInit ==
    /\ local = [f \in File |-> {}]
    /\ remote = [f \in File |-> [version |-> 0, content |-> {}]]
    /\ known = [f \in File |-> 0]
    /\ recent = [f \in File |-> FALSE]
    /\ guard = [f \in Guarded |-> NoThread]
    /\ request = [t \in SnapThread |-> Quiet]
    /\ acked = {} /\ unsaved = {} /\ overrun = {}
    /\ snapCalls = 0

Step(t, op, next) == /\ request[t].op = op
                     /\ request' = [request EXCEPT ![t] = next]
                     /\ UNCHANGED snapCalls
To(t, op)         == [request[t] EXCEPT !.op = op]
Unchecked(t)      == IF request[t].write = <<>> THEN Quiet ELSE To(t, "apply")
outcome == <<acked, unsaved, overrun>>

-----------------------------------------------------------------------------
Used == {request[t].write : t \in {x \in SnapThread : request[x] # Quiet}}
            \cup acked \cup unsaved \cup UNION {local[f] : f \in File}

BeginRead(t, f) ==
    /\ request[t] = Quiet /\ snapCalls < MaxSnapCalls
    /\ snapCalls' = snapCalls + 1
    /\ request' = [request EXCEPT ![t] = [op |-> "check", file |-> f, write |-> <<>>]]
    /\ UNCHANGED <<local, remote, known, recent, guard, outcome>>

BeginWrite(t, f, n) ==
    /\ request[t] = Quiet /\ snapCalls < MaxSnapCalls
    /\ <<f, n>> \notin Used
    /\ IF f \in Guarded THEN guard[f] = NoThread /\ guard' = [guard EXCEPT ![f] = t] ELSE UNCHANGED guard
    /\ snapCalls' = snapCalls + 1
    /\ request' = [request EXCEPT ![t] = [op |-> "check", file |-> f, write |-> <<f, n>>]]
    /\ UNCHANGED <<local, remote, known, recent, outcome>>

(***************************************************************************)
(* _restore_supabase_snapshot_if_newer: the known version is read first,   *)
(* then the version of the copy, then the copy itself.                     *)
(***************************************************************************)
CheckWindow(t) ==
    LET f == request[t].file IN
    /\ Step(t, "check", IF recent[f] THEN Unchecked(t)
                        ELSE [op |-> "compare", file |-> f, write |-> request[t].write, known |-> known[f]])
    /\ UNCHANGED <<local, remote, known, recent, guard, outcome>>

CompareVersion(t) ==
    LET f == request[t].file IN
    /\ Step(t, "compare", IF remote[f].version \in {0, request[t].known} THEN Unchecked(t) ELSE To(t, "fetch"))
    /\ recent' = [recent EXCEPT ![f] = TRUE]
    /\ UNCHANGED <<local, remote, known, guard, outcome>>

FetchCopy(t) ==
    LET f == request[t].file IN
    /\ Step(t, "fetch", [op |-> "replace", file |-> f, write |-> request[t].write, copy |-> remote[f]])
    /\ UNCHANGED <<local, remote, known, recent, guard, outcome>>

\* _write_snapshot_file, whatever was written to the file meanwhile.
ReplaceFile(t) ==
    LET f == request[t].file IN
    /\ Step(t, "replace", To(t, "note"))
    /\ local' = [local EXCEPT ![f] = request[t].copy.content]
    /\ overrun' = overrun \cup (local[f] \ request[t].copy.content)
    /\ UNCHANGED <<remote, known, recent, guard, acked, unsaved>>

NoteVersion(t) ==
    LET f == request[t].file IN
    /\ Step(t, "note", Unchecked(t))
    /\ known' = [known EXCEPT ![f] = request[t].copy.version]
    /\ recent' = [recent EXCEPT ![f] = TRUE]
    /\ UNCHANGED <<local, remote, guard, outcome>>

ApplyWrite(t) ==
    LET f == request[t].file IN
    /\ Step(t, "apply", [op |-> "backup", file |-> f, write |-> request[t].write])
    /\ local' = [local EXCEPT ![f] = @ \cup {request[t].write}]
    /\ UNCHANGED <<remote, known, recent, guard, outcome>>

Payload(t) == local[request[t].file]

BackupFile(t) ==
    /\ Step(t, "backup", [op |-> "upload", file |-> request[t].file, write |-> request[t].write,
                          payload |-> Payload(t)])
    /\ UNCHANGED <<local, remote, known, recent, guard, outcome>>

Released(t) == IF request[t].file \in Guarded THEN [guard EXCEPT ![request[t].file] = NoThread] ELSE guard

\* The row is replaced without a condition on the version it has.
Upload(t) ==
    LET f == request[t].file IN
    /\ Step(t, "upload", [op |-> "record", file |-> f, write |-> request[t].write,
                          version |-> remote[f].version + 1])
    /\ remote' = [remote EXCEPT ![f] = [version |-> @.version + 1, content |-> request[t].payload]]
    /\ UNCHANGED <<local, known, recent, guard, outcome>>

\* A failed checkpoint is logged; the request succeeds all the same.
UploadFails(t) ==
    /\ Step(t, "upload", Quiet)
    /\ guard' = Released(t)
    /\ acked' = acked \cup {request[t].write}
    /\ unsaved' = unsaved \cup {request[t].write}
    /\ UNCHANGED <<local, remote, known, recent, overrun>>

RecordVersion(t) ==
    LET f == request[t].file IN
    /\ Step(t, "record", Quiet)
    /\ known' = [known EXCEPT ![f] = request[t].version]
    /\ recent' = [recent EXCEPT ![f] = TRUE]
    /\ guard' = Released(t)
    /\ acked' = acked \cup {request[t].write}
    /\ UNCHANGED <<local, remote, unsaved, overrun>>

WindowEnds(f) ==
    /\ recent[f]
    /\ recent' = [recent EXCEPT ![f] = FALSE]
    /\ UNCHANGED <<local, remote, known, guard, request, outcome, snapCalls>>

\* _restore_supabase_snapshots: a new process starts from the copies.
SnapshotsRestart ==
    /\ local' = [f \in File |-> remote[f].content]
    /\ known' = [f \in File |-> remote[f].version]
    /\ recent' = [f \in File |-> remote[f].version # 0]
    /\ guard' = [f \in Guarded |-> NoThread]
    /\ request' = [t \in SnapThread |-> Quiet]
    /\ snapCalls < MaxSnapCalls
    /\ snapCalls' = snapCalls + 1
    /\ UNCHANGED <<remote, outcome>>

SnapshotsNext ==
    \/ \E t \in SnapThread :
          \/ \E f \in File : BeginRead(t, f) \/ \E n \in 1 .. MaxSnapWrites : BeginWrite(t, f, n)
          \/ CheckWindow(t) \/ CompareVersion(t) \/ FetchCopy(t) \/ ReplaceFile(t) \/ NoteVersion(t)
          \/ ApplyWrite(t) \/ BackupFile(t) \/ Upload(t) \/ UploadFails(t) \/ RecordVersion(t)
    \/ \E f \in File : WindowEnds(f)
    \/ SnapshotsRestart

SnapshotsSpec == SnapshotsInit /\ [][SnapshotsNext]_snapshotVars

-----------------------------------------------------------------------------
SnapshotsTypeOK ==
    /\ \A f \in File : /\ local[f] \subseteq SnapWrite /\ remote[f].content \subseteq SnapWrite
                       /\ known[f] \in 0 .. remote[f].version /\ recent[f] \in BOOLEAN
    /\ guard \in [Guarded -> SnapThread \cup {NoThread}]
    /\ acked \cup unsaved \cup overrun \subseteq SnapWrite

(***************************************************************************)
(* An answered write of a guarded file is in the copy a restart starts     *)
(* from, except when its checkpoint failed or a restore that had begun     *)
(* before it replaced the file under it.                                   *)
(***************************************************************************)
CopiedUnlessOverrun ==
    \A w \in acked : w[1] \in Guarded => w \in remote[w[1]].content \cup unsaved \cup overrun

(***************************************************************************)
(* The same of every file, which is what the test                          *)
(* snapshot_round_trip_survives_ephemeral_restart says of the identity     *)
(* database too.                                                           *)
(***************************************************************************)
EveryWriteCopied ==
    \A w \in acked : w \in remote[w[1]].content \cup unsaved \cup overrun

=============================================================================
