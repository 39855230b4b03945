-------------------------- MODULE SessionSummaries --------------------------
(***************************************************************************)
(* Closing a session and attaching a summary to it: end_session and        *)
(* enqueue_session_summary in store.py, the backfill of the daemon, and    *)
(* what complete_inference_task does for summarize_session, on top of the  *)
(* queue of InferenceTasks.                                                *)
(*                                                                         *)
(* A task of this module is <<session, n>>, the row whose id is            *)
(* "auto-summary:{session}:v{n}".  The evidence of a session only grows;   *)
(* its hash is represented by the number of its items.  A summary memory   *)
(* is named by its idempotency key: the session and the evidence hash.     *)
(***************************************************************************)
EXTENDS InferenceTasks

CONSTANTS Session, Caller,
          SummaryLimit,   \* 3 in enqueue_session_summary
          MaxEvidence,    \* bound: items of evidence captured per session
          MaxEnds         \* bound: calls of end_session per session

ASSUME SummaryAssumption ==
    /\ SummaryLimit \in Nat \ {0} /\ {MaxEvidence, MaxEnds} \subseteq Nat
    /\ Task = Session \X (1 .. SummaryLimit)

VARIABLES
    ends,       \* session -> calls of end_session so far
    evidence,   \* session -> items captured so far
    ended,      \* session -> ended_at IS NOT NULL
    attached,   \* session -> summary_memory_id
    snapshot,   \* task -> input_snapshot_hash of its contract
    stored,     \* <<session, hash>> of the summary memories that exist
    draft,      \* worker -> what it learned of the summary it wants to attach
    todo,       \* caller -> the session it is about to enqueue a summary for
    plan        \* caller -> the task it decided to insert

sessions   == <<evidence, ends, ended, attached>>
callers    == <<todo, plan>>
sessionVars == <<sessions, snapshot, stored, draft, callers>>
allVars    == <<vars, sessionVars>>

\* Values of attached and draft that are not an evidence hash.
NoSummary == 0      \* NULL
Unread    == -1     \* draft: the session row has not been read
ToStore   == -2     \* draft: it was read, and had no summary
NoSession == <<>>
NoPlan    == <<>>

\* The memory that the k-th call of end_session stored for its caller.
CallerSummary(k) == MaxEvidence + k

TasksOf(s) == {s} \X (1 .. SummaryLimit)
Prior(s)   == {t \in TasksOf(s) : status[t] # "absent"}
Open(s)    == {t \in TasksOf(s) : status[t] \in {"pending", "claimed"}}

SummaryInit ==
    /\ Init
    /\ \A t \in Task : status[t] = "absent"
    /\ evidence = [s \in Session |-> 0]
    /\ ends = [s \in Session |-> 0]
    /\ ended = [s \in Session |-> FALSE]
    /\ attached = [s \in Session |-> NoSummary]
    /\ snapshot = [t \in Task |-> 0]
    /\ stored = {}
    /\ draft = [w \in Worker |-> Unread]
    /\ todo = [c \in Caller |-> NoSession]
    /\ plan = [c \in Caller |-> NoPlan]

-----------------------------------------------------------------------------
\* record_exchange and the other captures; a closed session still accepts them.
Capture(s) ==
    /\ evidence[s] < MaxEvidence
    /\ evidence' = [evidence EXCEPT ![s] = @ + 1]
    /\ UNCHANGED <<vars, ends, ended, attached, snapshot, stored, draft, callers>>

(***************************************************************************)
(* UPDATE sessions SET ended_at, summary_memory_id: unconditional, so that *)
(* ending again without a summary detaches the one there was.              *)
(***************************************************************************)
SummaryAfterEnd(s, given) ==
    IF given THEN CallerSummary(ends[s] + 1) ELSE NoSummary

\* end_session; without a summary the caller goes on to enqueue one.
EndSession(c, s, given) ==
    /\ todo[c] = NoSession
    /\ ends[s] < MaxEnds
    /\ ends' = [ends EXCEPT ![s] = @ + 1]
    /\ ended' = [ended EXCEPT ![s] = TRUE]
    /\ attached' = [attached EXCEPT ![s] = SummaryAfterEnd(s, given)]
    /\ todo' = IF given THEN todo ELSE [todo EXCEPT ![c] = s]
    /\ UNCHANGED <<vars, evidence, snapshot, stored, draft, plan>>

\* enqueue_missing_session_summaries: the daemon selects a session.
Backfill(c, s) ==
    /\ todo[c] = NoSession
    /\ ended[s] /\ attached[s] = NoSummary
    /\ Open(s) = {} /\ Cardinality(Prior(s)) < SummaryLimit
    /\ todo' = [todo EXCEPT ![c] = s]
    /\ UNCHANGED <<vars, sessions, snapshot, stored, draft, plan>>

\* Mutants of Eligible: a failed task is never followed by another; a session
\* with nothing to summarize is.
EligibleOnce(s) ==
    ended[s] /\ attached[s] = NoSummary /\ Prior(s) = {} /\ evidence[s] > 0
EligibleEmpty(s) ==
    /\ ended[s] /\ attached[s] = NoSummary
    /\ Open(s) = {} /\ Cardinality(Prior(s)) < SummaryLimit

Eligible(s) ==
    /\ ended[s] /\ attached[s] = NoSummary
    /\ Open(s) = {} /\ Cardinality(Prior(s)) < SummaryLimit
    /\ evidence[s] > 0

\* Mutant of NextSummaryTask: an id of its own for every request.
FreshSummaryTask(s) == {t \in TasksOf(s) : status[t] = "absent"}

\* f"auto-summary:{session}:v{len(prior_tasks) + 1}"
NextSummaryTask(s) == {<<s, Cardinality(Prior(s)) + 1>>}

(***************************************************************************)
(* First half of enqueue_session_summary: session, prior tasks and         *)
(* evidence are read, outside any transaction.  (They are three reads;     *)
(* what is decided from them can be as stale after one.)                   *)
(***************************************************************************)
PlanSummary(c) ==
    /\ todo[c] # NoSession /\ plan[c] = NoPlan
    /\ Eligible(todo[c])
    /\ \E t \in NextSummaryTask(todo[c]) :
          plan' = [plan EXCEPT ![c] = <<t, evidence[todo[c]]>>]
    /\ UNCHANGED <<vars, sessions, snapshot, stored, draft, todo>>

NothingToPlan(c) ==
    /\ todo[c] # NoSession /\ plan[c] = NoPlan
    /\ ~ Eligible(todo[c])
    /\ todo' = [todo EXCEPT ![c] = NoSession]
    /\ UNCHANGED <<vars, sessions, snapshot, stored, draft, plan>>

\* Second half: request_inference_task, INSERT OR IGNORE.
InsertSummaryTask(c) ==
    /\ plan[c] # NoPlan
    /\ LET t == plan[c][1] IN
         IF status[t] = "absent"
         THEN /\ RequestTask(t)
              /\ snapshot' = [snapshot EXCEPT ![t] = plan[c][2]]
         ELSE UNCHANGED <<vars, snapshot>>
    /\ todo' = [todo EXCEPT ![c] = NoSession]
    /\ plan' = [plan EXCEPT ![c] = NoPlan]
    /\ UNCHANGED <<sessions, stored, draft>>

-----------------------------------------------------------------------------
Abandon(w) == draft' = [draft EXCEPT ![w] = Unread]

\* The summary branch of complete_inference_task starts with get_session.
ReadSession(w) ==
    /\ pc[w] = "validated" /\ result[w] = "ok" /\ draft[w] = Unread
    /\ draft' = [draft EXCEPT ![w] =
                    LET a == attached[job[w][1]]
                    IN IF a = NoSummary THEN ToStore ELSE a]
    /\ UNCHANGED <<vars, sessions, snapshot, stored, callers>>

\* idempotency_key "session-summary-inference:{session}:{input_snapshot_hash}"
Key(w) == <<job[w][1], snapshot[job[w]]>>

(***************************************************************************)
(* store_memory, a transaction of its own before the claim is compared     *)
(* again: a completion refused later leaves the memory behind.  With a key *)
(* that exists it returns the memory that is there, whatever its content.  *)
(***************************************************************************)
StoreSummary(w) ==
    /\ draft[w] = ToStore
    /\ stored' = stored \cup {Key(w)}
    /\ draft' = [draft EXCEPT ![w] = Key(w)[2]]
    /\ UNCHANGED <<vars, sessions, snapshot, callers>>

\* store_memory raises (quota, UNIQUE across processes): an error completion.
StoreFails(w) ==
    /\ draft[w] = ToStore
    /\ result' = [result EXCEPT ![w] = "error"]
    /\ Abandon(w)
    /\ UNCHANGED <<rows, pc, job, held, nextToken, applied, faults,
                   sessions, snapshot, stored, callers>>

AttachableNow(s) == ended[s] /\ attached[s] = NoSummary

\* Last transaction: complete the row and attach, or find it attached already.
AttachAndComplete(w) ==
    LET s == job[w][1] IN
    /\ result[w] = "ok" /\ draft[w] \notin {Unread, ToStore}
    /\ AttachableNow(s) \/ attached[s] = draft[w]
    /\ CommitCompletion(w)
    /\ attached' = [attached EXCEPT ![s] = draft[w]]
    /\ Abandon(w)
    /\ UNCHANGED <<evidence, ends, ended, snapshot, stored, callers>>

\* "session summary could not be attached": ValueError, ROLLBACK.
AttachFails(w) ==
    LET s == job[w][1] IN
    /\ draft[w] \notin {Unread, ToStore}
    /\ ~ AttachableNow(s) /\ attached[s] # draft[w]
    /\ CommitRolledBack(w)
    /\ Abandon(w)
    /\ UNCHANGED <<sessions, snapshot, stored, callers>>

FailSummary(w) ==
    /\ result[w] = "error"
    /\ CommitCompletion(w)
    /\ Abandon(w)
    /\ UNCHANGED <<sessions, snapshot, stored, callers>>

SummaryRefused(w) ==
    /\ result[w] = "ok" => draft[w] \notin {Unread, ToStore}
    /\ CommitRefused(w)
    /\ Abandon(w)
    /\ UNCHANGED <<sessions, snapshot, stored, callers>>

SummaryWorkerStep(w) ==
    \/ ReadSession(w) \/ StoreSummary(w) \/ StoreFails(w)
    \/ AttachAndComplete(w) \/ AttachFails(w) \/ FailSummary(w)
    \/ SummaryRefused(w)
    \/ /\ \E r \in {"ok", "error"} : CheckClaim(w, r)
       /\ UNCHANGED sessionVars
    \/ ClaimLost(w) /\ UNCHANGED sessionVars

QueueStep ==
    \/ \E t \in Task : LeaseRunsOut(t) \/ \E w \in Worker : ClaimTask(w, t)
    \/ RequeueExpired

SummaryNext ==
    \/ \E s \in Session : Capture(s)
    \/ \E c \in Caller, s \in Session :
          Backfill(c, s) \/ \E given \in BOOLEAN : EndSession(c, s, given)
    \/ \E c \in Caller :
          PlanSummary(c) \/ NothingToPlan(c) \/ InsertSummaryTask(c)
    \/ \E w \in Worker : SummaryWorkerStep(w)
    \/ \E w \in Worker : WorkerCrash(w) /\ Abandon(w)
                         /\ UNCHANGED <<sessions, snapshot, stored, callers>>
    \/ QueueStep /\ UNCHANGED sessionVars

SummarySpec == SummaryInit /\ [][SummaryNext]_allVars

-----------------------------------------------------------------------------
SummaryFairness ==
    /\ \A c \in Caller : /\ WF_allVars(PlanSummary(c) \/ NothingToPlan(c))
                         /\ WF_allVars(InsertSummaryTask(c))
    /\ \A s \in Session : WF_allVars(\E c \in Caller : Backfill(c, s))
    /\ \A w \in Worker : WF_allVars(SummaryWorkerStep(w) /\ ~ StoreFails(w))
    /\ \A t \in Task :
          /\ WF_allVars(LeaseRunsOut(t) /\ UNCHANGED sessionVars)
          /\ WF_allVars(/\ status[t] = "pending"
                        /\ \E w \in Worker : ClaimTask(w, t)
                        /\ UNCHANGED sessionVars)
    /\ WF_allVars(RequeueExpired /\ UNCHANGED sessionVars)

FairSummarySpec == SummarySpec /\ SummaryFairness

-----------------------------------------------------------------------------
Hash == 1 .. MaxEvidence

\* Types; a contract is bound to evidence that was there; drafts of busy workers.
SummaryTypeOK ==
    /\ TypeOK
    /\ evidence \in [Session -> 0 .. MaxEvidence]
    /\ ends \in [Session -> 0 .. MaxEnds]
    /\ ended \in [Session -> BOOLEAN]
    /\ attached \in [Session -> 0 .. MaxEvidence + MaxEnds]
    /\ snapshot \in [Task -> 0 .. MaxEvidence]
    /\ stored \subseteq Session \X Hash
    /\ draft \in [Worker -> ToStore .. MaxEvidence + MaxEnds]
    /\ \A t \in Task : status[t] # "absent" => snapshot[t] \in 1 .. evidence[t[1]]
    /\ \A w \in Worker : draft[w] # Unread => pc[w] = "validated"

(***************************************************************************)
(* Two callers that enqueue at once, each from what it read before, never  *)
(* leave a session with two summary tasks to run: the id is derived from   *)
(* the count that was read, so the second insert is ignored.               *)
(***************************************************************************)
OneOpenSummaryTask == \A s \in Session : Cardinality(Open(s)) <= 1

(***************************************************************************)
(* A summary that inference wrote is attached to a session only if a task  *)
(* of that session completed over the very evidence it is named after:     *)
(* memories left by stale or rolled back completions are never attached.   *)
(***************************************************************************)
AttachedFromCompletion ==
    \A s \in Session : attached[s] \in Hash =>
        \E t \in TasksOf(s) : status[t] = "completed" /\ snapshot[t] = attached[s]

(***************************************************************************)
(* A closed session with evidence gets a summary, or has used up its       *)
(* SummaryLimit tasks, whatever crashes and lost leases there were.        *)
(***************************************************************************)
SummaryArrives ==
    \A s \in Session :
        ended[s] /\ evidence[s] > 0
            ~> attached[s] # NoSummary \/ Cardinality(Prior(s)) = SummaryLimit

(***************************************************************************)
(* The summaries of a session follow its tasks: one is open at a time, and *)
(* what is attached comes from a completed one.                            *)
(***************************************************************************)
SummaryFollowsTask == OneOpenSummaryTask /\ AttachedFromCompletion
=============================================================================
