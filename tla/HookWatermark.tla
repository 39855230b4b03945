----------------------------- MODULE HookWatermark -----------------------------
(***************************************************************************)
(* The watermark of hermes_watermark.py: one row per hook with counts of   *)
(* its deliveries and failures, written by every short-lived process of    *)
(* hermes_bridge.py once its handler is done.  The counts are read, added  *)
(* to in the process and written back.                                     *)
(***************************************************************************)
EXTENDS Integers, FiniteSets

CONSTANTS
    Hook,
    HookProcess,  \* processes of the bridge, one delivery each
    MaxAge        \* the age at which a hook counts as stale, in ticks

ASSUME WatermarkAssumption == MaxAge \in Nat

VARIABLES
    mark,      \* Hook -> {} or {its row}
    bridge,    \* HookProcess -> where its delivery is
    now,
    delivered  \* Hook -> the deliveries recorded: <<process, succeeded, time>>

watermarkVars == <<mark, bridge, now, delivered>>

WatermarkInit ==
    /\ mark = [h \in Hook |-> {}]
    /\ bridge = [p \in HookProcess |-> [at |-> "new"]]
    /\ now = 0 /\ delivered = [h \in Hook |-> {}]

\* The hook's handler runs and succeeds or fails; then its outcome is recorded.
Dispatch(p, h, success) ==
    /\ bridge[p].at = "new"
    /\ bridge' = [bridge EXCEPT ![p] = [at |-> "handled", hook |-> h, success |-> success]]
    /\ UNCHANGED <<mark, now, delivered>>

\* record_invocation takes the time, then reads the row outside any transaction,
ReadMark(p) ==
    /\ bridge[p].at = "handled"
    /\ bridge' = [bridge EXCEPT ![p] = [at |-> "read", row |-> mark[@.hook], hook |-> @.hook,
                                        success |-> @.success, time |-> now]]
    /\ UNCHANGED <<mark, now, delivered>>

\* Mutant of Counted: a success does not end the streak of failures.
CountedOn(call) ==
    LET old == IF call.row = {} THEN [total |-> 0, failures |-> 0, streak |-> 0]
               ELSE CHOOSE r \in call.row : TRUE
        failed == IF call.success THEN 0 ELSE 1
    IN  [at |-> call.time, last |-> call.success, total |-> old.total + 1,
         failures |-> old.failures + failed, streak |-> old.streak + failed]

Counted(call) ==
    LET old == IF call.row = {} THEN [total |-> 0, failures |-> 0, streak |-> 0]
               ELSE CHOOSE r \in call.row : TRUE
    IN  [at |-> call.time, last |-> call.success, total |-> old.total + 1,
         failures |-> old.failures + (IF call.success THEN 0 ELSE 1),
         streak |-> IF call.success THEN 0 ELSE old.streak + 1]

\* and replaces it with the row as counted from what was read.
WriteMark(p) ==
    /\ bridge[p].at = "read"
    /\ LET h == bridge[p].hook IN
         /\ mark' = [mark EXCEPT ![h] = {Counted(bridge[p])}]
         /\ delivered' = [delivered EXCEPT ![h] = @ \cup {<<p, bridge[p].success, now>>}]
    /\ bridge' = [bridge EXCEPT ![p] = [at |-> "done"]]
    /\ UNCHANGED now

\* The database stays locked for longer than the timeout: nothing is recorded.
GiveUp(p) ==
    /\ bridge[p].at \in {"handled", "read"}
    /\ bridge' = [bridge EXCEPT ![p] = [at |-> "done"]]
    /\ UNCHANGED <<mark, now, delivered>>

Tick == now <= MaxAge /\ now' = now + 1 /\ UNCHANGED <<mark, bridge, delivered>>

\* staleness_report
Stale(h) == \A r \in mark[h] : now - r.at > MaxAge

WatermarkNext ==
    \/ Tick
    \/ \E p \in HookProcess : \/ \E h \in Hook, s \in BOOLEAN : Dispatch(p, h, s)
                          \/ ReadMark(p) \/ WriteMark(p) \/ GiveUp(p)

WatermarkSpec == WatermarkInit /\ [][WatermarkNext]_watermarkVars

-----------------------------------------------------------------------------
(***************************************************************************)
(* Processes that overlap lose counts, but the report never makes them up: *)
(* it counts no delivery nor failure that was not recorded, its outcome is *)
(* that of some delivery and agrees with its streak, and a hook that only  *)
(* ever failed has one (hermes_watermark.py:106-120, 154-180).             *)
(***************************************************************************)
ReportIsHonest ==
    \A h \in Hook :
        LET failed == {d \in delivered[h] : ~ d[2]} IN
        /\ delivered[h] # {} => mark[h] # {}
        /\ \A r \in mark[h] :
             /\ r.total <= Cardinality(delivered[h]) /\ r.failures <= Cardinality(failed)
             /\ \E d \in delivered[h] : d[2] = r.last
             /\ (r.streak > 0) = ~ r.last

(***************************************************************************)
(* staleness_report's docstring: a hook is stale once last_invoked_at is   *)
(* older than the age.  A process that took its time before a newer one    *)
(* recorded its own, and writes after it, sets the clock back.             *)
(***************************************************************************)
NotStaleYet ==
    \A h \in Hook : Stale(h) => \A d \in delivered[h] : now - d[3] > MaxAge

\* hermes_watermark.py:29-32: concurrent processes are serialized correctly, so
\* the row counts every delivery that was recorded.
CountsAgree ==
    \A h \in Hook : \A r \in mark[h] :
        /\ r.total = Cardinality(delivered[h])
        /\ r.failures = Cardinality({d \in delivered[h] : ~d[2]})
=============================================================================
