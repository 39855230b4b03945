--------------------------- MODULE InferenceTasks ---------------------------
(***************************************************************************)
(* The durable inference queue: rows of memory_inference_tasks in store.py *)
(* and the workers (daemon threads, operator processes, MCP clients) that  *)
(* claim, run and complete them.                                           *)
(*                                                                         *)
(* Every SQLite write transaction (BEGIN IMMEDIATE ... COMMIT) is one      *)
(* action.  complete_inference_task is two: it reads the row and validates *)
(* outside any transaction, then updates under a WHERE clause, and other   *)
(* connections run in between.                                             *)
(*                                                                         *)
(* A claim is a pair (owner, token).  Workers of a family share one owner  *)
(* name and the token is a fresh uuid4, so the pair is represented by the  *)
(* token alone, a number never given out twice; NoToken is SQL NULL.       *)
(***************************************************************************)
EXTENDS Integers, FiniteSets

CONSTANTS Task,         \* task ids (idempotency keys)
          Worker,       \* callers of the queue
          NoTask,       \* the job of an idle worker
          Runs,         \* Runs[w]: the provider_id worker w executes with
          Needs,        \* Needs[t]: provider_id of the contract, or AnyProvider
          AnyProvider,
          MaxAttempts,  \* max_attempts of requeue_expired_inference_tasks
          RequeueLimit, \* limit of requeue_expired_inference_tasks
          MaxFaults     \* bound: crashes and leases lost by a live worker

ASSUME QueueAssumption ==
    /\ NoTask \notin Task
    /\ MaxAttempts \in Nat \ {0}
    /\ RequeueLimit \in Nat \ {0}
    /\ MaxFaults \in Nat

VARIABLES
    status,     \* task -> absent | pending | claimed | completed | failed
    token,      \* task -> claim_token, NoToken when NULL
    expired,    \* task -> lease_expires_at <= CURRENT_TIMESTAMP
    attempts,   \* task -> attempt_count
    pc,         \* worker -> where it is between two calls of the store
    job,        \* worker -> the task it works on
    held,       \* worker -> the claim token it was handed
    result,     \* worker -> what it is about to commit
    nextToken,  \* the next unused token
    applied,    \* <<task, token>>: outcomes (proposals, metadata) on disk
    faults      \* how many of MaxFaults happened

rows    == <<status, token, expired, attempts>>
workers == <<pc, job, held, result>>
vars    == <<rows, workers, nextToken, applied, faults>>

NoToken == 0
Terminal == {"completed", "failed"}

(***************************************************************************)
(* A row left by a store older than the claim columns: claimed, but with   *)
(* owner, token and lease all NULL.                                        *)
(***************************************************************************)
Legacy(t) == status[t] = "claimed" /\ token[t] = NoToken

\* lease_expires_at <= CURRENT_TIMESTAMP is not true of a NULL lease.
LeaseOver(t) == status[t] = "claimed" /\ token[t] # NoToken /\ expired[t]

\* Mutant of Claimable: failed rows are retried.
ClaimableFailed(t) == status[t] \in {"pending", "failed"} \/ LeaseOver(t)

\* WHERE clause of claim_inference_task.
Claimable(t) == status[t] = "pending" \/ LeaseOver(t)

\* Mutant of ClaimValid: the completion checks the status only.
ClaimValidAnyToken(w) == status[job[w]] = "claimed"

\* WHERE clause of the completion, and the check that precedes it.
ClaimValid(w) == /\ status[job[w]] = "claimed"
                 /\ token[job[w]] = held[w]

Init ==
    /\ status \in [Task -> {"absent", "claimed"}]   \* claimed: legacy rows
    /\ token = [t \in Task |-> NoToken]
    /\ expired = [t \in Task |-> FALSE]
    /\ attempts = [t \in Task |-> 0]
    /\ pc = [w \in Worker |-> "idle"]
    /\ job = [w \in Worker |-> NoTask]
    /\ held = [w \in Worker |-> NoToken]
    /\ result = [w \in Worker |-> "none"]
    /\ nextToken = 1
    /\ applied = {}
    /\ faults = 0

-----------------------------------------------------------------------------
\* INSERT OR IGNORE: asking again for a row that exists changes nothing.
RequestTask(t) ==
    /\ status[t] = "absent"
    /\ status' = [status EXCEPT ![t] = "pending"]
    /\ UNCHANGED <<token, expired, attempts, workers, nextToken, applied, faults>>

\* Mutant of FreshToken: a claim is named by something two claims can share.
SharedToken == 1

FreshToken == nextToken   \* str(uuid.uuid4())

ClaimTask(w, t) ==
    /\ pc[w] = "idle"
    /\ Needs[t] \in {AnyProvider, Runs[w]}
    /\ Claimable(t)
    /\ status' = [status EXCEPT ![t] = "claimed"]
    /\ token' = [token EXCEPT ![t] = FreshToken]
    /\ expired' = [expired EXCEPT ![t] = FALSE]
    /\ attempts' = [attempts EXCEPT ![t] = @ + 1]
    /\ nextToken' = nextToken + 1
    /\ pc' = [pc EXCEPT ![w] = "inferring"]
    /\ job' = [job EXCEPT ![w] = t]
    /\ held' = [held EXCEPT ![w] = FreshToken]
    /\ UNCHANGED <<result, applied, faults>>

\* The worker leaves the task, whatever the row says.
Leave(w) ==
    /\ pc' = [pc EXCEPT ![w] = "idle"]
    /\ job' = [job EXCEPT ![w] = NoTask]
    /\ held' = [held EXCEPT ![w] = NoToken]
    /\ result' = [result EXCEPT ![w] = "none"]

(***************************************************************************)
(* First half of complete_inference_task: the claim is read and compared,  *)
(* then the output is validated.  An inference error, or output that fails *)
(* validation, becomes the completion's error.  A worker whose completion  *)
(* was rolled back reports the error instead ("recovering").               *)
(***************************************************************************)
CheckClaim(w, r) ==
    /\ pc[w] = "inferring" \/ (pc[w] = "recovering" /\ r = "error")
    /\ ClaimValid(w)
    /\ pc' = [pc EXCEPT ![w] = "validated"]
    /\ result' = [result EXCEPT ![w] = r]
    /\ UNCHANGED <<rows, job, held, nextToken, applied, faults>>

\* The check raises ValueError; the worker gives the task up.
ClaimLost(w) ==
    /\ pc[w] \in {"inferring", "recovering"}
    /\ ~ ClaimValid(w)
    /\ Leave(w)
    /\ UNCHANGED <<rows, nextToken, applied, faults>>

\* Mutant of Outcome: proposals of a failed completion are inserted too.
OutcomeOfErrorKept(w) == {<<job[w], held[w]>>}

(***************************************************************************)
(* What the transaction inserts besides the update: nothing for an error.  *)
(***************************************************************************)
Outcome(w) == IF result[w] = "error" THEN {} ELSE {<<job[w], held[w]>>}

(***************************************************************************)
(* Second half: UPDATE ... WHERE claim_token = ?, and in the same          *)
(* transaction the rows the outcome is made of.                            *)
(***************************************************************************)
CommitCompletion(w) ==
    /\ pc[w] = "validated"
    /\ ClaimValid(w)
    /\ status' = [status EXCEPT ![job[w]] =
                     IF result[w] = "error" THEN "failed" ELSE "completed"]
    /\ token' = [token EXCEPT ![job[w]] = NoToken]
    /\ expired' = [expired EXCEPT ![job[w]] = FALSE]
    /\ applied' = applied \union Outcome(w)
    /\ Leave(w)
    /\ UNCHANGED <<attempts, nextToken, faults>>

\* rowcount = 0: KeyError, ROLLBACK.
CommitRefused(w) ==
    /\ pc[w] = "validated"
    /\ ~ ClaimValid(w)
    /\ Leave(w)
    /\ UNCHANGED <<rows, nextToken, applied, faults>>

\* Writing the outcome raises: ROLLBACK, the worker then reports an error.
CommitRolledBack(w) ==
    /\ pc[w] = "validated"
    /\ result[w] = "ok"
    /\ ClaimValid(w)
    /\ pc' = [pc EXCEPT ![w] = "recovering"]
    /\ result' = [result EXCEPT ![w] = "none"]
    /\ UNCHANGED <<rows, job, held, nextToken, applied, faults>>

-----------------------------------------------------------------------------
(***************************************************************************)
(* requeue_expired_inference_tasks: one transaction over at most           *)
(* RequeueLimit expired rows.  Rows are taken by updated_at, which has a   *)
(* resolution of one second, so any choice is possible.                    *)
(***************************************************************************)
\* Mutant of Expired: rows out of attempts are left alone.
ExpiredRetryable == {t \in Task : LeaseOver(t) /\ attempts[t] < MaxAttempts}

Expired == {t \in Task : LeaseOver(t)}

\* Mutant of TokensWithout: the requeue forgets claim_token = NULL.
TokensKept(S) == token

TokensWithout(S) == [t \in Task |-> IF t \in S THEN NoToken ELSE token[t]]

RequeueBatch(S) ==
    /\ S # {} /\ S \subseteq Expired
    /\ Cardinality(S) <= RequeueLimit
    /\ S = Expired \/ Cardinality(S) = RequeueLimit
    /\ status' = [t \in Task |-> IF t \notin S THEN status[t]
                                 ELSE IF attempts[t] >= MaxAttempts
                                      THEN "failed" ELSE "pending"]
    /\ token' = TokensWithout(S)
    /\ expired' = [t \in Task |-> t \notin S /\ expired[t]]
    /\ UNCHANGED <<attempts, workers, nextToken, applied, faults>>

RequeueExpired == \E S \in SUBSET Task : RequeueBatch(S)

ReconcileLegacy ==
    /\ \E t \in Task : Legacy(t)
    /\ status' = [t \in Task |-> IF Legacy(t) THEN "failed" ELSE status[t]]
    /\ UNCHANGED <<token, expired, attempts, workers, nextToken, applied, faults>>

-----------------------------------------------------------------------------
\* The worker that was handed the current claim of t is still on it.
Attended(t) == \E w \in Worker : job[w] = t /\ held[w] = token[t]

(***************************************************************************)
(* 900 seconds pass.  For an abandoned claim this always happens; that a   *)
(* live worker outlasts its lease is a fault.                              *)
(***************************************************************************)
LeaseRunsOut(t) ==
    /\ status[t] = "claimed" /\ token[t] # NoToken /\ ~ expired[t]
    /\ Attended(t) => faults < MaxFaults
    /\ expired' = [expired EXCEPT ![t] = TRUE]
    /\ faults' = IF Attended(t) THEN faults + 1 ELSE faults
    /\ UNCHANGED <<status, token, attempts, workers, nextToken, applied>>

WorkerCrash(w) ==
    /\ pc[w] # "idle"
    /\ faults < MaxFaults
    /\ faults' = faults + 1
    /\ Leave(w)
    /\ UNCHANGED <<rows, nextToken, applied>>

WorkerStep(w) ==
    \/ \E r \in {"ok", "error"} : CheckClaim(w, r)
    \/ ClaimLost(w)
    \/ CommitCompletion(w)
    \/ CommitRefused(w)
    \/ CommitRolledBack(w)

Next ==
    \/ \E t \in Task : RequestTask(t) \/ LeaseRunsOut(t)
    \/ \E w \in Worker, t \in Task : ClaimTask(w, t)
    \/ \E w \in Worker : WorkerStep(w) \/ WorkerCrash(w)
    \/ RequeueExpired
    \/ ReconcileLegacy

Spec == Init /\ [][Next]_vars

-----------------------------------------------------------------------------
(***************************************************************************)
(* Fairness.  The daemon (inference_loop.main) runs a cycle every          *)
(* interval_seconds for ever: it requeues and reconciles, then each family *)
(* claims rows it lists as pending (never an expired claim: only a direct  *)
(* caller does that) and finishes what it claimed.  A lease is             *)
(* wall-clock time, so an abandoned one runs out.  A requeue can be        *)
(* forestalled only by a claim, of which there are finitely many.  Nothing *)
(* obliges a caller to request, a worker to crash, or a commit to roll     *)
(* back.                                                                   *)
(***************************************************************************)
Fairness ==
    /\ \A t \in Task : WF_vars(LeaseRunsOut(t))
    /\ \A w \in Worker, t \in Task :
          WF_vars(status[t] = "pending" /\ ClaimTask(w, t))
    /\ \A w \in Worker : WF_vars(\/ \E r \in {"ok", "error"} : CheckClaim(w, r)
                                 \/ ClaimLost(w)
                                 \/ CommitCompletion(w)
                                 \/ CommitRefused(w))
    /\ WF_vars(RequeueExpired)
    /\ WF_vars(ReconcileLegacy)

FairSpec == Spec /\ Fairness

-----------------------------------------------------------------------------
\* Types; claim metadata on claimed rows only; a job exactly when not idle.
TypeOK ==
    /\ status \in [Task -> {"absent", "pending", "claimed"} \union Terminal]
    /\ token \in [Task -> Nat]
    /\ expired \in [Task -> BOOLEAN]
    /\ attempts \in [Task -> Nat]
    /\ pc \in [Worker -> {"idle", "inferring", "recovering", "validated"}]
    /\ job \in [Worker -> Task \union {NoTask}]
    /\ held \in [Worker -> Nat]
    /\ result \in [Worker -> {"none", "ok", "error"}]
    /\ nextToken \in Nat \ {NoToken}
    /\ applied \subseteq Task \X Nat
    /\ faults \in Nat
    /\ \A t \in Task : token[t] # NoToken => status[t] = "claimed"
    /\ \A w \in Worker : pc[w] = "idle" <=> job[w] = NoTask

(***************************************************************************)
(* Whatever stale workers do, at most one of them could complete a task    *)
(* now: two workers on one task never both hold its current claim          *)
(* (claim_inference_task hands out a new token, and clears the old one).   *)
(***************************************************************************)
OneValidClaim ==
    \A v, w \in Worker :
        (/\ job[v] # NoTask /\ job[v] = job[w]
         /\ ClaimValid(v) /\ ClaimValid(w)) => v = w

(***************************************************************************)
(* However often a task was executed, the outcome on disk is that of one   *)
(* execution, and is there exactly when the row says completed: a stale,   *)
(* failed or dead-lettered completion leaves no proposal behind            *)
(* (complete_inference_task writes both in one transaction).               *)
(***************************************************************************)
OutcomeOnce ==
    \A t \in Task :
        LET kept == {k \in 1 .. nextToken : <<t, k>> \in applied} IN
        IF status[t] = "completed" THEN \E k \in kept : kept = {k} ELSE kept = {}

(***************************************************************************)
(* A second execution of a task is always paid for by a fault: attempts    *)
(* beyond the first never exceed the crashes and overrun leases.  Claims   *)
(* in force are not given away, and requeueing leaves live claims alone.   *)
(***************************************************************************)
RetryNeedsFault == \A t \in Task : attempts[t] <= 1 + faults

(***************************************************************************)
(* Completed and failed rows are final: no late completion, claim or       *)
(* requeue touches them, although transient failures carry a retry_after.  *)
(***************************************************************************)
SettledForGood ==
    [][\A t \in Task : status[t] \in Terminal =>
          /\ status'[t] = status[t] /\ token'[t] = NoToken
          /\ attempts'[t] = attempts[t]]_vars

(***************************************************************************)
(* Every task that was asked for is settled, crashes and lost leases       *)
(* notwithstanding, if each provider it needs has a worker.                *)
(***************************************************************************)
EveryTaskSettles ==
    \A t \in Task : status[t] \in {"pending", "claimed"} ~> status[t] \in Terminal

(***************************************************************************)
(* A task that was asked for is settled, and is executed again only for a  *)
(* crash or an overrun lease.                                              *)
(***************************************************************************)
TasksHold == EveryTaskSettles /\ []RetryNeedsFault

-----------------------------------------------------------------------------
\* The queue implements its contract: leases, workers and faults are hidden.
Phase(s) == CASE s = "absent"    -> "absent"
              [] s = "pending"   -> "open"
              [] s = "claimed"   -> "granted"
              [] s = "completed" -> "done"
              [] s = "failed"    -> "dead"

Contract == INSTANCE TaskContract
    WITH phase <- [t \in Task |-> Phase(status[t])], grant <- token,
         lastGrant <- nextToken - 1, outcome <- applied

\* Every step of the queue is a step of TaskContract or changes none of its state.
ImplementsContract == Contract!Spec
=============================================================================
