----------------------------- MODULE QueueProofs -----------------------------
(***************************************************************************)
(* Proofs about the inference queue, for any number of tasks, workers,     *)
(* sessions and callers and any bound on attempts and faults: one claim at *)
(* most completes a task, settled rows are final and the queue implements  *)
(* TaskContract; the summaries of closed sessions follow their tasks, and  *)
(* workers count what they completed.                                      *)
(***************************************************************************)
EXTENDS MCQueueWork, FiniteSetTheorems, WellFoundedInduction, TLAPS

-----------------------------------------------------------------------------
(* InferenceTasks: claims, outcomes and the contract *)

LEMMA InitTypeOK == Init => TypeOK
  BY QueueAssumption DEF Init, TypeOK, NoToken, Terminal

LEMMA NextTypeOK == TypeOK /\ [Next]_vars => TypeOK'
<1> SUFFICES ASSUME TypeOK, [Next]_vars PROVE TypeOK'
  OBVIOUS
<1> USE QueueAssumption DEF TypeOK, NoToken, Terminal
<1>1. CASE \E t \in Task : RequestTask(t)
  BY <1>1 DEF RequestTask, workers
<1>2. CASE \E t \in Task : LeaseRunsOut(t)
  BY <1>2 DEF LeaseRunsOut, workers
<1>3. ASSUME NEW w \in Worker, NEW t \in Task, ClaimTask(w, t) PROVE TypeOK'
  BY <1>3 DEF ClaimTask, Claimable, LeaseOver, FreshToken
<1>4. ASSUME NEW w \in Worker, NEW r \in {"ok", "error"}, CheckClaim(w, r) PROVE TypeOK'
  BY <1>4 DEF CheckClaim, rows
<1>5. CASE \E w \in Worker : ClaimLost(w)
  BY <1>5 DEF ClaimLost, Leave, rows
<1>6. ASSUME NEW w \in Worker, CommitCompletion(w) PROVE TypeOK'
  BY <1>6 DEF CommitCompletion, ClaimValid, Outcome, Leave
<1>7. CASE \E w \in Worker : CommitRefused(w)
  BY <1>7 DEF CommitRefused, Leave, rows
<1>8. CASE \E w \in Worker : CommitRolledBack(w)
  BY <1>8 DEF CommitRolledBack, rows
<1>9. CASE \E w \in Worker : WorkerCrash(w)
  BY <1>9 DEF WorkerCrash, Leave, rows
<1>10. CASE RequeueExpired
  BY <1>10 DEF RequeueExpired, RequeueBatch, TokensWithout, Expired, LeaseOver, workers
<1>11. CASE ReconcileLegacy
  BY <1>11 DEF ReconcileLegacy, Legacy, workers
<1>12. CASE UNCHANGED vars
  BY <1>12 DEF vars, rows, workers
<1>13. QED
  BY <1>1, <1>2, <1>3, <1>4, <1>5, <1>6, <1>7, <1>8, <1>9, <1>10, <1>11, <1>12
     DEF Next, WorkerStep

(***************************************************************************)
(* Every reachable state has rows and workers of the declared types, claim *)
(* metadata on claimed rows only, and a job for exactly the busy workers.  *)
(***************************************************************************)
THEOREM TypeCorrect == Spec => []TypeOK
  BY InitTypeOK, NextTypeOK, PTL DEF Spec

-----------------------------------------------------------------------------
(***************************************************************************)
(* Why two workers cannot both hold the current claim: a token is given    *)
(* out once, to one worker.                                                *)
(***************************************************************************)
TokensSpent ==
    /\ \A t \in Task : token[t] < nextToken
    /\ \A w \in Worker : held[w] < nextToken
    /\ \A w \in Worker : job[w] # NoTask => held[w] # NoToken

HeldOnce ==
    \A v, w \in Worker : held[v] = held[w] /\ held[v] # NoToken => v = w

AppliedSpent == \A p \in applied : p[2] \in 1 .. nextToken - 1

OneOutcome ==
    \A t \in Task :
        IF status[t] = "completed"
        THEN \E k \in Nat : \A p \in applied : p[1] = t <=> p = <<t, k>>
        ELSE \A p \in applied : p[1] # t

CompletedHasOutcome ==
    \A t \in Task : status[t] = "completed" => \E p \in applied : p[1] = t

IInv == TypeOK /\ TokensSpent /\ HeldOnce /\ AppliedSpent
        /\ OneOutcome /\ CompletedHasOutcome

LEMMA InitIInv == Init => IInv
  BY InitTypeOK, QueueAssumption
     DEF Init, IInv, TokensSpent, HeldOnce, AppliedSpent, OneOutcome,
         CompletedHasOutcome, NoToken

\* Actions that change neither tokens, jobs nor outcomes of completed rows.
LEMMA SameTokens ==
  ASSUME IInv, TypeOK', UNCHANGED <<token, job, held, nextToken>>
  PROVE  TokensSpent' /\ HeldOnce'
  BY DEF IInv, TypeOK, TokensSpent, HeldOnce

LEMMA LeaveTokens ==
  ASSUME IInv, TypeOK', NEW w \in Worker, Leave(w), nextToken' = nextToken,
         \A t \in Task : token'[t] \in {token[t], NoToken}
  PROVE  TokensSpent' /\ HeldOnce'
  BY DEF IInv, TypeOK, TokensSpent, HeldOnce, Leave, NoToken

\* The outcomes on disk, and which rows are completed, stay as they are.
LEMMA OutcomesKept ==
  ASSUME IInv, applied' = applied, nextToken' \in Nat, nextToken' >= nextToken,
         \A t \in Task : status'[t] = "completed" <=> status[t] = "completed"
  PROVE  AppliedSpent' /\ OneOutcome' /\ CompletedHasOutcome'
  BY DEF IInv, TypeOK, AppliedSpent, OneOutcome, CompletedHasOutcome

LEMMA NextIInv == IInv /\ [Next]_vars => IInv'
<1> SUFFICES ASSUME IInv, [Next]_vars PROVE IInv'
  OBVIOUS
<1>0. TypeOK /\ TypeOK'
  BY NextTypeOK DEF IInv
<1>1. ASSUME NEW t \in Task, RequestTask(t) PROVE IInv'
  BY <1>0, <1>1, SameTokens, OutcomesKept DEF RequestTask, workers, IInv, TypeOK
<1>2. ASSUME NEW t \in Task, LeaseRunsOut(t) PROVE IInv'
  BY <1>0, <1>2, SameTokens, OutcomesKept DEF LeaseRunsOut, workers, IInv, TypeOK
<1>3. ASSUME NEW w \in Worker, NEW t \in Task, ClaimTask(w, t) PROVE IInv'
  <2>1. TokensSpent'
    BY <1>0, <1>3 DEF IInv, TypeOK, TokensSpent, ClaimTask, FreshToken, NoToken
  <2>2. HeldOnce'
    BY <1>0, <1>3 DEF IInv, TypeOK, TokensSpent, HeldOnce, ClaimTask, FreshToken, NoToken
  <2>3. \A s \in Task : status'[s] = "completed" <=> status[s] = "completed"
    BY <1>0, <1>3 DEF TypeOK, ClaimTask, Claimable, LeaseOver
  <2>4. applied' = applied /\ nextToken' \in Nat /\ nextToken' >= nextToken
    BY <1>0, <1>3 DEF TypeOK, ClaimTask
  <2>5. QED
    BY <1>0, <2>1, <2>2, <2>3, <2>4, OutcomesKept DEF IInv
<1>4. ASSUME NEW w \in Worker, NEW r \in {"ok", "error"}, CheckClaim(w, r) PROVE IInv'
  BY <1>0, <1>4, SameTokens, OutcomesKept DEF CheckClaim, rows, IInv, TypeOK
<1>5. ASSUME NEW w \in Worker, Leave(w), UNCHANGED <<rows, nextToken, applied>> PROVE IInv'
  BY <1>0, <1>5, LeaveTokens, OutcomesKept DEF rows, IInv, TypeOK
<1>6. ASSUME NEW w \in Worker, CommitCompletion(w) PROVE IInv'
  <2>1. TokensSpent' /\ HeldOnce'
    BY <1>0, <1>6, LeaveTokens DEF CommitCompletion, IInv, TypeOK
  <2> DEFINE t == job[w]
  <2>2. t \in Task /\ status[t] = "claimed" /\ held[w] \in 1 .. nextToken - 1
    BY <1>0, <1>6 DEF CommitCompletion, ClaimValid, IInv, TypeOK, TokensSpent, NoToken
  <2>3. CASE result[w] = "error"
    BY <1>0, <1>6, <2>1, <2>2, <2>3, OutcomesKept
       DEF CommitCompletion, Outcome, IInv, TypeOK
  <2>4. CASE result[w] # "error"
    <3>1. /\ status' = [status EXCEPT ![t] = "completed"]
          /\ applied' = applied \union {<<t, held[w]>>}
          /\ nextToken' = nextToken
      BY <1>6, <2>4 DEF CommitCompletion, Outcome
    <3>2. AppliedSpent'
      BY <2>2, <3>1 DEF IInv, AppliedSpent
    <3>3. OneOutcome'
      <4>1. \A p \in applied : p[1] # t
        BY <2>2 DEF IInv, OneOutcome
      <4>2. ASSUME NEW s \in Task, s # t
            PROVE  status'[s] = status[s]
                   /\ \A p \in applied' : p[1] = s => p \in applied
        BY <1>0, <3>1, <4>2 DEF TypeOK
      <4>3. \A p \in applied' : p[1] = t <=> p = <<t, held[w]>>
        BY <3>1, <4>1
      <4>4. status'[t] = "completed" /\ held[w] \in Nat
        BY <1>0, <2>2, <3>1 DEF TypeOK
      <4>5. ASSUME NEW s \in Task, s # t
            PROVE  IF status'[s] = "completed"
                   THEN \E k \in Nat : \A p \in applied' : p[1] = s <=> p = <<s, k>>
                   ELSE \A p \in applied' : p[1] # s
        BY <3>1, <4>2, <4>5 DEF IInv, OneOutcome
      <4>6. QED
        BY <4>3, <4>4, <4>5 DEF OneOutcome
    <3>4. CompletedHasOutcome'
      <4>1. ASSUME NEW s \in Task, status'[s] = "completed" PROVE \E p \in applied' : p[1] = s
        <5>1. CASE s = t
          <6>1. <<t, held[w]>> \in applied' /\ <<t, held[w]>>[1] = s
            BY <3>1, <5>1
          <6>2. QED
            BY <6>1
        <5>2. CASE s # t
          <6>1. status[s] = "completed"
            BY <1>0, <2>2, <3>1, <4>1, <5>2 DEF TypeOK
          <6>2. QED
            BY <3>1, <6>1 DEF IInv, CompletedHasOutcome
        <5>3. QED
          BY <5>1, <5>2
      <4>2. QED
        BY <4>1 DEF CompletedHasOutcome
    <3>5. QED
      BY <1>0, <2>1, <3>2, <3>3, <3>4 DEF IInv
  <2>5. QED
    BY <2>3, <2>4
<1>7. ASSUME NEW w \in Worker, CommitRolledBack(w) PROVE IInv'
  BY <1>0, <1>7, SameTokens, OutcomesKept DEF CommitRolledBack, rows, IInv, TypeOK
<1>8. ASSUME NEW S \in SUBSET Task, RequeueBatch(S) PROVE IInv'
  <2>1. TokensSpent' /\ HeldOnce'
    BY <1>0, <1>8 DEF RequeueBatch, TokensWithout, workers, IInv, TypeOK, TokensSpent,
                      HeldOnce, NoToken
  <2>2. \A t \in Task : status'[t] = "completed" <=> status[t] = "completed"
    BY <1>0, <1>8 DEF RequeueBatch, Expired, LeaseOver, TypeOK
  <2>3. QED
    BY <1>0, <1>8, <2>1, <2>2, OutcomesKept DEF RequeueBatch, IInv, TypeOK
<1>9. CASE ReconcileLegacy
  BY <1>0, <1>9, SameTokens, OutcomesKept DEF ReconcileLegacy, Legacy, workers, IInv, TypeOK
<1>10. CASE UNCHANGED vars
  BY <1>0, <1>10, SameTokens, OutcomesKept DEF vars, rows, workers, IInv, TypeOK
<1>11. QED
  BY <1>1, <1>2, <1>3, <1>4, <1>5, <1>6, <1>7, <1>8, <1>9, <1>10
     DEF Next, WorkerStep, ClaimLost, CommitRefused, WorkerCrash, RequeueExpired, rows

LEMMA AlwaysIInv == Spec => []IInv
  BY InitIInv, NextIInv, PTL DEF Spec

(***************************************************************************)
(* Two workers never both hold the current claim of a task.                *)
(***************************************************************************)
THEOREM ClaimsAreExclusive == Spec => []OneValidClaim
<1>1. IInv => OneValidClaim
  BY DEF IInv, TypeOK, TokensSpent, HeldOnce, OneValidClaim, ClaimValid
<1>2. QED
  BY AlwaysIInv, <1>1, PTL

(***************************************************************************)
(* A task's outcome is on disk once if it completed, and not at all        *)
(* otherwise.                                                              *)
(***************************************************************************)
THEOREM OutcomeIsUnique == Spec => []OutcomeOnce
<1>1. ASSUME IInv, NEW t \in Task
      PROVE  LET kept == {k \in 1 .. nextToken : <<t, k>> \in applied} IN
             IF status[t] = "completed" THEN \E k \in kept : kept = {k} ELSE kept = {}
  <2> DEFINE kept == {k \in 1 .. nextToken : <<t, k>> \in applied}
  <2>1. CASE status[t] # "completed"
    BY <1>1, <2>1 DEF IInv, OneOutcome
  <2>2. CASE status[t] = "completed"
    <3>1. PICK p \in applied : p[1] = t
      BY <1>1, <2>2 DEF IInv, CompletedHasOutcome
    <3>2. p = <<t, p[2]>> /\ p[2] \in kept
      BY <1>1, <3>1 DEF IInv, TypeOK, AppliedSpent
    <3>3. PICK k \in Nat : \A q \in applied : q[1] = t <=> q = <<t, k>>
      BY <1>1, <2>2 DEF IInv, OneOutcome
    <3>4. kept = {p[2]}
      BY <3>1, <3>2, <3>3
    <3>5. QED
      BY <2>2, <3>2, <3>4
  <2>3. QED
    BY <2>1, <2>2
<1>2. IInv => OutcomeOnce
  BY <1>1 DEF OutcomeOnce
<1>3. QED
  BY AlwaysIInv, <1>2, PTL

-----------------------------------------------------------------------------
(***************************************************************************)
(* Completed and failed rows never change again.                           *)
(***************************************************************************)
THEOREM SettledRowsAreFinal == Spec => SettledForGood
<1>1. ASSUME IInv, [Next]_vars, NEW t \in Task, status[t] \in Terminal
      PROVE  /\ status'[t] = status[t] /\ token'[t] = NoToken
             /\ attempts'[t] = attempts[t]
  <2>0. TypeOK /\ TypeOK'
    BY <1>1, NextTypeOK DEF IInv
  <2>1. status[t] # "claimed" /\ status[t] # "pending" /\ status[t] # "absent"
    BY <1>1 DEF Terminal
  <2>2. status'[t] = status[t] /\ attempts'[t] = attempts[t]
    <3>1. ASSUME NEW w \in Worker, CommitCompletion(w) PROVE job[w] # t
      BY <2>1, <3>1 DEF CommitCompletion, ClaimValid
    <3>2. CASE UNCHANGED vars
      BY <3>2 DEF vars, rows
    <3>3. CASE \E w \in Worker : WorkerStep(w) \/ WorkerCrash(w)
      BY <2>0, <3>1, <3>3
         DEF WorkerStep, WorkerCrash, CheckClaim, ClaimLost, CommitCompletion,
             CommitRefused, CommitRolledBack, rows, TypeOK
    <3>4. CASE \E w \in Worker, s \in Task : ClaimTask(w, s)
      BY <2>0, <2>1, <3>4 DEF ClaimTask, Claimable, LeaseOver, TypeOK
    <3>5. CASE \E s \in Task : RequestTask(s) \/ LeaseRunsOut(s)
      BY <2>0, <2>1, <3>5 DEF RequestTask, LeaseRunsOut, TypeOK
    <3>6. CASE RequeueExpired \/ ReconcileLegacy
      BY <2>0, <2>1, <3>6
         DEF RequeueExpired, RequeueBatch, Expired, LeaseOver, ReconcileLegacy, Legacy, TypeOK
    <3>7. QED
      BY <1>1, <3>2, <3>3, <3>4, <3>5, <3>6 DEF Next
  <2>3. token'[t] = NoToken
    BY <2>0, <2>1, <2>2 DEF TypeOK
  <2>4. QED
    BY <2>2, <2>3
<1>2. IInv /\ [Next]_vars =>
        [\A t \in Task : status[t] \in Terminal =>
          /\ status'[t] = status[t] /\ token'[t] = NoToken
          /\ attempts'[t] = attempts[t]]_vars
  BY <1>1
<1>3. QED
  BY AlwaysIInv, <1>2, PTL DEF Spec, SettledForGood

-----------------------------------------------------------------------------
\* Refinement: initial states map to initial states, steps to steps or stutters.
LEMMA InitContract == Init => Contract!Init
  BY DEF Init, Contract!Init, Phase, NoToken

LEMMA PhaseOf ==
  /\ Phase("absent") = "absent" /\ Phase("pending") = "open"
  /\ Phase("claimed") = "granted" /\ Phase("completed") = "done"
  /\ Phase("failed") = "dead"
  BY DEF Phase

LEMMA StutterContract ==
  ASSUME UNCHANGED <<status, token, nextToken, applied>>
  PROVE  UNCHANGED Contract!contractVars
  BY DEF Contract!contractVars

LEMMA NextContract == IInv /\ [Next]_vars => [Contract!Next]_(Contract!contractVars)
<1> SUFFICES ASSUME IInv, [Next]_vars PROVE [Contract!Next]_(Contract!contractVars)
  OBVIOUS
<1> DEFINE phase == [t \in Task |-> Phase(status[t])]
<1>0. TypeOK /\ TypeOK'
  BY NextTypeOK DEF IInv
<1>p. phase' = [t \in Task |-> Phase(status'[t])]
  OBVIOUS
<1>q. phase' \in [Task -> {"absent", "open", "granted", "done", "dead"}]
  BY <1>0, <1>p, PhaseOf DEF TypeOK, Terminal
<1> HIDE DEF phase
<1>r. /\ phase = [t \in Task |-> Phase(status[t])]
      /\ \A t \in Task : phase[t] = Phase(status[t])
  BY DEF phase
<1>1. ASSUME NEW t \in Task, RequestTask(t) PROVE Contract!Submit(t)
  <2>1. phase' = [phase EXCEPT ![t] = "open"]
    BY <1>0, <1>1, <1>p, <1>r, PhaseOf DEF RequestTask, TypeOK
  <2>2. phase[t] = "absent"
    BY <1>1, <1>r, PhaseOf DEF RequestTask
  <2>3. QED
    BY <1>1, <2>1, <2>2 DEF RequestTask, Contract!Submit, phase
<1>2. ASSUME NEW t \in Task, LeaseRunsOut(t) PROVE UNCHANGED Contract!contractVars
  BY <1>2, StutterContract DEF LeaseRunsOut
<1>3. ASSUME NEW w \in Worker, NEW t \in Task, ClaimTask(w, t) PROVE Contract!Grant(t)
  <2>1. phase' = [phase EXCEPT ![t] = "granted"]
    BY <1>0, <1>3, <1>p, <1>r, PhaseOf DEF ClaimTask, TypeOK
  <2>2. phase[t] \in {"open", "granted"}
    BY <1>3, <1>r, PhaseOf DEF ClaimTask, Claimable, LeaseOver
  <2>3. (nextToken - 1)' = (nextToken - 1) + 1 /\ (nextToken - 1)' = nextToken
    BY <1>0, <1>3 DEF ClaimTask, TypeOK
  <2>4. QED
    BY <1>3, <2>1, <2>2, <2>3 DEF ClaimTask, FreshToken, Contract!Grant, phase
<1>4. ASSUME NEW w \in Worker, CommitCompletion(w)
      PROVE  Contract!Keep(job[w]) \/ Contract!Withdraw({job[w]})
  <2> DEFINE t == job[w]
  <2>1. t \in Task /\ status[t] = "claimed" /\ token[t] = held[w] /\ held[w] # 0
    BY <1>0, <1>4 DEF CommitCompletion, ClaimValid, IInv, TypeOK, TokensSpent, NoToken
  <2>2. CASE result[w] # "error"
    <3>1. phase' = [phase EXCEPT ![t] = "done"]
      BY <1>0, <1>4, <1>p, <1>r, <2>1, <2>2, PhaseOf DEF CommitCompletion, TypeOK
    <3>2. phase[t] = "granted"
      BY <1>r, <2>1, PhaseOf
    <3>3. QED
      BY <1>4, <2>1, <2>2, <3>1, <3>2
         DEF CommitCompletion, Outcome, Contract!Keep, NoToken, phase
  <2>3. CASE result[w] = "error"
    <3>1. status' = [status EXCEPT ![t] = "failed"]
      BY <1>4, <2>3 DEF CommitCompletion
    <3>2. /\ \A s \in Task : phase'[s] = IF s = t THEN "dead" ELSE phase[s]
          /\ phase[t] = "granted"
      BY <1>0, <1>p, <1>r, <2>1, <3>1, PhaseOf DEF TypeOK
    <3>4. token' = [s \in Task |-> IF s \in {t} THEN 0 ELSE token[s]]
      BY <1>0, <1>4 DEF CommitCompletion, NoToken, TypeOK
    <3>5. applied' = applied /\ nextToken' = nextToken
      BY <1>4, <2>3 DEF CommitCompletion, Outcome
    <3>6. QED
      BY <1>q, <3>2, <3>4, <3>5 DEF Contract!Withdraw, phase
  <2>4. QED
    BY <2>2, <2>3
<1>5. ASSUME NEW w \in Worker, UNCHANGED <<rows, nextToken, applied>>
      PROVE  UNCHANGED Contract!contractVars
  BY <1>5, StutterContract DEF rows
<1>6. ASSUME NEW S \in SUBSET Task, RequeueBatch(S) PROVE Contract!Withdraw(S)
  <2>1. /\ \A t \in S : phase[t] = "granted"
        /\ \A t \in Task : IF t \in S THEN phase'[t] \in {"open", "dead"}
                                      ELSE phase'[t] = phase[t]
    BY <1>0, <1>6, <1>p, <1>r, PhaseOf DEF RequeueBatch, Expired, LeaseOver, TypeOK
  <2>2. QED
    BY <1>6, <1>q, <2>1 DEF RequeueBatch, TokensWithout, NoToken, Contract!Withdraw, phase
<1>7. ASSUME ReconcileLegacy PROVE Contract!Withdraw({t \in Task : Legacy(t)})
  <2> DEFINE S == {t \in Task : Legacy(t)}
  <2>1. /\ \A t \in S : phase[t] = "granted"
        /\ \A t \in Task : IF t \in S THEN phase'[t] \in {"open", "dead"}
                                      ELSE phase'[t] = phase[t]
    BY <1>0, <1>7, <1>p, <1>r, PhaseOf DEF ReconcileLegacy, Legacy, TypeOK
  <2>3. token' = [t \in Task |-> IF t \in S THEN 0 ELSE token[t]]
    BY <1>0, <1>7 DEF ReconcileLegacy, Legacy, NoToken, TypeOK
  <2>4. QED
    BY <1>7, <1>q, <2>1, <2>3 DEF ReconcileLegacy, Contract!Withdraw, phase
<1>8. CASE UNCHANGED vars
  BY <1>8, StutterContract DEF vars, rows
<1>9. ASSUME NEW w \in Worker, WorkerStep(w) \/ WorkerCrash(w)
      PROVE  [Contract!Next]_(Contract!contractVars)
  <2>1. CASE CommitCompletion(w)
    <3>1. job[w] \in Task
      BY <1>0, <2>1 DEF CommitCompletion, TypeOK
    <3>2. QED
      BY <1>4, <2>1, <3>1 DEF Contract!Next
  <2>2. CASE ~ CommitCompletion(w)
    BY <1>5, <1>9, <2>2
       DEF WorkerStep, WorkerCrash, CheckClaim, ClaimLost, CommitRefused, CommitRolledBack
  <2>3. QED
    BY <2>1, <2>2
<1>10. QED
  BY <1>1, <1>2, <1>3, <1>6, <1>7, <1>8, <1>9 DEF Next, RequeueExpired, Contract!Next

(***************************************************************************)
(* The queue implements TaskContract: each step maps to a submission, a    *)
(* grant, a kept outcome, a withdrawal, or to no change at all.            *)
(***************************************************************************)
THEOREM ContractHolds == Spec => ImplementsContract
  BY AlwaysIInv, InitContract, NextContract, PTL DEF Spec, ImplementsContract, Contract!Spec

-----------------------------------------------------------------------------
(***************************************************************************)
(* Why a retry needs a fault: every attempt but the last was ended by one. *)
(* The last one is not paid for while its claim is in force and its worker *)
(* on it, or when the row was settled by it.                               *)
(***************************************************************************)
InForce(t) ==
    status[t] = "claimed" /\ token[t] # NoToken /\ ~ expired[t] /\ Attended(t)

AttemptsPaid ==
    \A t \in Task :
        attempts[t] <= IF status[t] \in Terminal \/ InForce(t) THEN 1 + faults ELSE faults

\* Jobs and rows stay: every claim in force stays in force.
LEMMA PaidKept ==
  ASSUME AttemptsPaid, TypeOK, UNCHANGED <<token, expired, attempts, faults, job, held>>,
         \A t \in Task : \/ status'[t] = status[t]
                         \/ status[t] \notin Terminal /\ ~ InForce(t)
  PROVE  AttemptsPaid'
  BY DEF AttemptsPaid, TypeOK, InForce, Attended

\* A worker that does not hold the claim of its row leaves.
LEMMA PaidByOthers ==
  ASSUME AttemptsPaid, TypeOK, NEW w \in Worker, Leave(w), UNCHANGED <<rows, faults>>,
         \A t \in Task : job[w] = t /\ held[w] = token[t] => status[t] # "claimed"
  PROVE  AttemptsPaid'
<1>1. ASSUME NEW t \in Task, InForce(t) PROVE InForce(t)'
  <2>1. PICK v \in Worker : job[v] = t /\ held[v] = token[t]
    BY <1>1 DEF InForce, Attended
  <2>2. v # w
    BY <1>1, <2>1 DEF InForce
  <2>3. job'[v] = t /\ held'[v] = token'[t]
    BY <2>1, <2>2 DEF Leave, TypeOK, rows
  <2>4. QED
    BY <1>1, <2>3 DEF InForce, Attended, rows
<1>2. QED
  BY <1>1 DEF AttemptsPaid, TypeOK, rows

LEMMA NextAttemptsPaid == TypeOK /\ AttemptsPaid /\ [Next]_vars => AttemptsPaid'
<1> SUFFICES ASSUME TypeOK, AttemptsPaid, [Next]_vars PROVE AttemptsPaid'
  OBVIOUS
<1>0. TypeOK'
  BY NextTypeOK
<1>1. ASSUME NEW t \in Task, RequestTask(t) PROVE AttemptsPaid'
  <2>1. \A s \in Task : status'[s] = status[s] \/ (status[s] \notin Terminal /\ ~ InForce(s))
    BY <1>1 DEF RequestTask, TypeOK, Terminal, InForce
  <2>2. QED
    BY <1>1, <2>1, PaidKept DEF RequestTask, workers
<1>2. ASSUME NEW t \in Task, LeaseRunsOut(t) PROVE AttemptsPaid'
  <2>1. /\ \A s \in Task : s # t /\ InForce(s) => InForce(s)'
        /\ ~ InForce(t)' /\ attempts' = attempts /\ status' = status
    BY <1>2 DEF LeaseRunsOut, workers, TypeOK, InForce, Attended
  <2>2. faults' \in Nat /\ faults' >= faults
    BY <1>2 DEF LeaseRunsOut, TypeOK
  <2>3. status[t] \notin Terminal /\ attempts[t] \in Nat /\ attempts[t] <= faults'
    BY <1>2 DEF LeaseRunsOut, TypeOK, InForce, Terminal, AttemptsPaid
  <2>4. ASSUME NEW s \in Task, s # t
        PROVE  attempts'[s] <= IF status'[s] \in Terminal \/ InForce(s)' THEN 1 + faults' ELSE faults'
    BY <2>1, <2>2, <2>4 DEF TypeOK, AttemptsPaid
  <2>5. QED
    BY <2>1, <2>3, <2>4 DEF AttemptsPaid
<1>3. ASSUME NEW w \in Worker, NEW t \in Task, ClaimTask(w, t) PROVE AttemptsPaid'
  <2>1. ASSUME NEW s \in Task, s # t, InForce(s) PROVE InForce(s)'
    <3>1. PICK v \in Worker : job[v] = s /\ held[v] = token[s]
      BY <2>1 DEF InForce, Attended
    <3>2. v # w
      BY <1>3, <3>1, QueueAssumption DEF ClaimTask, TypeOK
    <3>3. job'[v] = s /\ held'[v] = token'[s]
      BY <1>3, <2>1, <3>1, <3>2 DEF ClaimTask, TypeOK
    <3>4. QED
      BY <1>3, <2>1, <3>3 DEF ClaimTask, TypeOK, InForce, Attended
  <2>2. InForce(t)'
    <3>1. job'[w] = t /\ held'[w] = token'[t]
      BY <1>3 DEF ClaimTask, TypeOK
    <3>2. QED
      BY <1>3, <3>1 DEF ClaimTask, FreshToken, TypeOK, InForce, Attended
  <2>3. attempts[t] <= faults /\ attempts'[t] = attempts[t] + 1 /\ faults' = faults
    BY <1>3 DEF ClaimTask, Claimable, LeaseOver, InForce, TypeOK, AttemptsPaid, Terminal
  <2>4. \A s \in Task : s # t => attempts'[s] = attempts[s] /\ status'[s] = status[s]
    BY <1>3 DEF ClaimTask, TypeOK
  <2>5. \A s \in Task : attempts[s] \in Nat /\ faults \in Nat
    BY DEF TypeOK
  <2>6. ASSUME NEW s \in Task, s # t
        PROVE  attempts'[s] <= IF status'[s] \in Terminal \/ InForce(s)' THEN 1 + faults' ELSE faults'
    BY <2>1, <2>3, <2>4, <2>5, <2>6 DEF AttemptsPaid
  <2>7. QED
    BY <2>2, <2>3, <2>5, <2>6 DEF AttemptsPaid
<1>4. ASSUME NEW w \in Worker, NEW r \in {"ok", "error"}, CheckClaim(w, r) PROVE AttemptsPaid'
  BY <1>4, PaidKept DEF CheckClaim, rows
<1>5. ASSUME NEW w \in Worker, ClaimLost(w) \/ CommitRefused(w) PROVE AttemptsPaid'
  <2>1. \A t \in Task : job[w] = t /\ held[w] = token[t] => status[t] # "claimed"
    BY <1>5 DEF ClaimLost, CommitRefused, ClaimValid
  <2>2. QED
    BY <1>5, <2>1, PaidByOthers DEF ClaimLost, CommitRefused
<1>6. ASSUME NEW w \in Worker, CommitCompletion(w) PROVE AttemptsPaid'
  <2> DEFINE t == job[w]
  <2>1. t \in Task /\ status'[t] \in Terminal /\ attempts' = attempts /\ faults' = faults
    BY <1>6 DEF CommitCompletion, TypeOK, Terminal
  <2>2. ASSUME NEW s \in Task, s # t, InForce(s) PROVE InForce(s)'
    <3>1. PICK v \in Worker : job[v] = s /\ held[v] = token[s]
      BY <2>2 DEF InForce, Attended
    <3>2. job'[v] = s /\ held'[v] = token'[s]
      BY <1>6, <2>1, <2>2, <3>1 DEF CommitCompletion, Leave, TypeOK
    <3>3. QED
      BY <1>6, <2>1, <2>2, <3>2 DEF CommitCompletion, TypeOK, InForce, Attended
  <2>3. \A s \in Task : s # t => status'[s] = status[s]
    BY <1>6, <2>1 DEF CommitCompletion, TypeOK
  <2>4. \A s \in Task : attempts[s] \in Nat /\ faults \in Nat
    BY DEF TypeOK
  <2>5. ASSUME NEW s \in Task, s # t
        PROVE  attempts'[s] <= IF status'[s] \in Terminal \/ InForce(s)' THEN 1 + faults' ELSE faults'
    BY <2>1, <2>2, <2>3, <2>4, <2>5 DEF AttemptsPaid
  <2>6. attempts'[t] <= 1 + faults'
    BY <2>1, <2>4 DEF AttemptsPaid
  <2>7. QED
    BY <2>1, <2>5, <2>6 DEF AttemptsPaid
<1>7. ASSUME NEW w \in Worker, CommitRolledBack(w) PROVE AttemptsPaid'
  BY <1>7, PaidKept DEF CommitRolledBack, rows
<1>8. ASSUME NEW w \in Worker, WorkerCrash(w) PROVE AttemptsPaid'
  <2>1. attempts' = attempts /\ faults' = 1 + faults
    BY <1>8 DEF WorkerCrash, rows, TypeOK
  <2>2. \A t \in Task : attempts[t] <= 1 + faults /\ attempts[t] \in Nat /\ faults \in Nat
    BY DEF AttemptsPaid, TypeOK
  <2>3. QED
    BY <2>1, <2>2 DEF AttemptsPaid
<1>9. ASSUME NEW S \in SUBSET Task, RequeueBatch(S) PROVE AttemptsPaid'
  <2>1. ASSUME NEW t \in Task
        PROVE  attempts'[t] <= IF status'[t] \in Terminal \/ InForce(t)' THEN 1 + faults' ELSE faults'
    <3>1. attempts' = attempts /\ faults' = faults /\ attempts[t] \in Nat /\ faults \in Nat
      BY <1>9 DEF RequeueBatch, TypeOK
    <3>2. CASE t \in S
      <4>1. attempts[t] <= faults
        BY <1>9, <3>2 DEF RequeueBatch, Expired, LeaseOver, InForce, AttemptsPaid, Terminal
      <4>2. QED
        BY <3>1, <4>1
    <3>3. CASE t \notin S
      <4>1. status'[t] = status[t] /\ (InForce(t) => InForce(t)')
        BY <1>9, <3>3 DEF RequeueBatch, TokensWithout, workers, InForce, Attended
      <4>2. QED
        BY <3>1, <4>1 DEF AttemptsPaid
    <3>4. QED
      BY <3>2, <3>3
  <2>2. QED
    BY <2>1 DEF AttemptsPaid
<1>10. CASE ReconcileLegacy
  <2>1. \A s \in Task : status'[s] = status[s] \/ (status[s] \notin Terminal /\ ~ InForce(s))
    BY <1>10 DEF ReconcileLegacy, Legacy, TypeOK, Terminal, InForce
  <2>2. QED
    BY <1>10, <2>1, PaidKept DEF ReconcileLegacy, workers
<1>11. CASE UNCHANGED vars
  BY <1>11, PaidKept DEF vars, rows, workers
<1>12. QED
  BY <1>1, <1>2, <1>3, <1>4, <1>5, <1>6, <1>7, <1>8, <1>9, <1>10, <1>11
     DEF Next, WorkerStep, RequeueExpired

(***************************************************************************)
(* A task is executed again only after a crash or an overrun lease, however*)
(* the workers, the requeue and direct claims of expired rows interleave.  *)
(***************************************************************************)
THEOREM RetriesArePaidFor == Spec => []RetryNeedsFault
<1>1. Init => AttemptsPaid
  BY QueueAssumption DEF Init, AttemptsPaid, Terminal
<1>2. TypeOK /\ AttemptsPaid => RetryNeedsFault
  BY DEF TypeOK, AttemptsPaid, RetryNeedsFault
<1>3. QED
  BY TypeCorrect, NextAttemptsPaid, <1>1, <1>2, PTL DEF Spec

-----------------------------------------------------------------------------
(* SessionSummaries: the inductive invariant *)

Known(t) == status[t] # "absent"
Settled(t) == status[t] \in Terminal
Version == 1 .. SummaryLimit

SettledBefore(s, n) == \A k \in 1 .. n - 1 : Settled(<<s, k>>)
SettledThen(s, n) == \A k \in 1 .. n - 1 : status'[<<s, k>>] \in Terminal

\* What a caller decided to insert stays right however long it waits.
CallersFit ==
    /\ todo \in [Caller -> Session \cup {NoSession}]
    /\ plan \in [Caller -> {NoPlan} \cup (Task \X Hash)]
    /\ \A c \in Caller : plan[c] # NoPlan =>
          /\ plan[c][2] \in 1 .. evidence[plan[c][1][1]]
          /\ SettledBefore(plan[c][1][1], plan[c][1][2])

\* The tasks of a session come one after the other.
InOrder ==
    \A s \in Session, n \in Version : Known(<<s, n>>) => SettledBefore(s, n)

\* A task of s completed over evidence h.
Backed(s, h) == \E t \in TasksOf(s) : status[t] = "completed" /\ snapshot[t] = h
BackedThen(s, h) == \E t \in TasksOf(s) : status'[t] = "completed" /\ snapshot'[t] = h

\* A worker is about to attach what its own task says, or what it found there.
DraftsFit ==
    \A w \in Worker : job[w] # NoTask =>
        /\ Known(job[w])
        /\ draft[w] \in Hash => draft[w] = snapshot[job[w]] \/ Backed(job[w][1], draft[w])

SummaryInv ==
    /\ IInv /\ SummaryTypeOK /\ CallersFit /\ InOrder /\ DraftsFit
    /\ AttachedFromCompletion

LEMMA SummaryFacts ==
    ASSUME SummaryInv
    PROVE  /\ TypeOK /\ MaxEvidence \in Nat /\ MaxEnds \in Nat /\ SummaryLimit \in Nat \ {0}
           /\ \A t \in Task : t[1] \in Session /\ t[2] \in Version /\ t = <<t[1], t[2]>>
           /\ \A s \in Session, n \in Version : <<s, n>> \in Task
           /\ \A w \in Worker : job[w] # NoTask => job[w] \in Task
           /\ \A s \in Session : evidence[s] \in 0 .. MaxEvidence
BY SummaryAssumption DEF SummaryInv, SummaryTypeOK, TypeOK, Version

-----------------------------------------------------------------------------
(* What a step of the queue does to rows and jobs *)

\* Rows come into being by a request only, and settled ones stay.
RowsAdvance ==
    \A t \in Task : (Known(t)' <=> Known(t)) /\ (Settled(t) => status'[t] = status[t])

JobsMove ==
    \A w \in Worker :
        job'[w] = job[w] \/ job'[w] = NoTask
        \/ (pc[w] = "idle" /\ job'[w] \in Task /\ status'[job'[w]] = "claimed")

LEMMA WorkerRows ==
    ASSUME TypeOK, NEW w \in Worker,
           \/ \E r \in {"ok", "error"} : CheckClaim(w, r)
           \/ ClaimLost(w) \/ CommitCompletion(w) \/ CommitRefused(w)
           \/ CommitRolledBack(w) \/ WorkerCrash(w)
    PROVE  /\ RowsAdvance /\ JobsMove
           /\ \A v \in Worker : v # w => pc'[v] = pc[v] /\ job'[v] = job[v]
<1>1. CASE CommitCompletion(w)
  <2>1. status[job[w]] = "claimed" /\ job[w] \in Task
    BY <1>1 DEF CommitCompletion, ClaimValid, TypeOK
  <2>2. QED
    BY <1>1, <2>1 DEF CommitCompletion, Leave, RowsAdvance, JobsMove, Known, Settled, Terminal, TypeOK
<1>2. CASE ~ CommitCompletion(w)
  BY <1>2 DEF CheckClaim, ClaimLost, CommitRefused, CommitRolledBack, WorkerCrash, Leave, rows,
     RowsAdvance, JobsMove, Known, Settled, TypeOK
<1>3. QED
  BY <1>1, <1>2

LEMMA QueueRows ==
    ASSUME TypeOK, QueueStep
    PROVE  /\ RowsAdvance /\ JobsMove
           /\ \A v \in Worker : pc[v] = "validated" => pc'[v] = pc[v] /\ job'[v] = job[v]
<1>1. CASE \E t \in Task : LeaseRunsOut(t)
  BY <1>1 DEF LeaseRunsOut, workers, RowsAdvance, JobsMove, Known, Settled
<1>2. ASSUME NEW t \in Task, NEW w \in Worker, ClaimTask(w, t)
      PROVE  /\ RowsAdvance /\ JobsMove
             /\ \A v \in Worker : pc[v] = "validated" => pc'[v] = pc[v] /\ job'[v] = job[v]
  BY <1>2 DEF ClaimTask, Claimable, LeaseOver, RowsAdvance, JobsMove, Known, Settled, Terminal, TypeOK
<1>3. ASSUME NEW S \in SUBSET Task, RequeueBatch(S)
      PROVE  /\ RowsAdvance /\ JobsMove
             /\ \A v \in Worker : pc[v] = "validated" => pc'[v] = pc[v] /\ job'[v] = job[v]
  BY <1>3 DEF RequeueBatch, Expired, LeaseOver, workers, RowsAdvance, JobsMove, Known, Settled, Terminal
<1>4. QED
  BY <1>1, <1>2, <1>3 DEF QueueStep, RequeueExpired

\* Steps of the queue keep its invariant; so does a summary that fails to be stored.
LEMMA QueueInvKept ==
    ASSUME IInv, \/ QueueStep \/ UNCHANGED vars
                 \/ \E t \in Task : RequestTask(t)
                 \/ \E w \in Worker :
                        \/ \E r \in {"ok", "error"} : CheckClaim(w, r)
                        \/ ClaimLost(w) \/ CommitCompletion(w) \/ CommitRefused(w)
                        \/ CommitRolledBack(w) \/ WorkerCrash(w) \/ StoreFails(w)
    PROVE  IInv' /\ TypeOK'
<1>1. CASE \E w \in Worker : StoreFails(w)
  <2>1. PICK w \in Worker : StoreFails(w)
    BY <1>1
  <2>2. result' = [result EXCEPT ![w] = "error"]
        /\ UNCHANGED <<rows, pc, job, held, nextToken, applied, faults>>
    BY <2>1 DEF StoreFails
  <2>3. TypeOK'
    BY <2>2 DEF IInv, TypeOK, rows
  <2>4. QED
    BY <2>2, <2>3 DEF IInv, rows, TokensSpent, HeldOnce, AppliedSpent, OneOutcome, CompletedHasOutcome
<1>2. CASE [Next]_vars
  BY <1>2, NextIInv DEF IInv
<1>3. QED
  BY <1>1, <1>2 DEF QueueStep, Next, WorkerStep

\* What is settled stays so, with the evidence its contract names.
LEMMA BackingStays ==
    ASSUME SummaryInv,
           \A t \in Task : /\ Settled(t) => status'[t] = status[t]
                           /\ Known(t) => snapshot'[t] = snapshot[t]
    PROVE  /\ \A s \in Session : \A h : Backed(s, h) => BackedThen(s, h)
           /\ \A s \in Session, n \in Version : SettledBefore(s, n) => SettledBefore(s, n)'
<1>1. ASSUME NEW s \in Session, NEW h, Backed(s, h) PROVE BackedThen(s, h)
  <2>1. PICK t \in TasksOf(s) : status[t] = "completed" /\ snapshot[t] = h
    BY <1>1 DEF Backed
  <2>2. t \in Task
    BY <2>1, SummaryAssumption DEF TasksOf
  <2>3. status'[t] = "completed" /\ snapshot'[t] = h
    BY <2>1, <2>2 DEF Settled, Known, Terminal
  <2>4. QED
    BY <2>1, <2>3 DEF BackedThen
<1>2. ASSUME NEW s \in Session, NEW n \in Version, SettledBefore(s, n) PROVE SettledBefore(s, n)'
  <2>1. ASSUME NEW k \in 1 .. n - 1 PROVE Settled(<<s, k>>)'
    <3>1. k \in Version /\ <<s, k>> \in Task
      BY SummaryFacts DEF Version
    <3>2. Settled(<<s, k>>)
      BY <1>2 DEF SettledBefore
    <3>3. QED
      BY <3>1, <3>2 DEF Settled
  <2>2. QED
    BY <2>1 DEF SettledBefore
<1>3. QED
  BY <1>1, <1>2

\* What a worker may learn of the summary of its session.
Learned(w) ==
    \/ draft'[w] \notin Hash \/ draft'[w] = draft[w]
    \/ draft'[w] = snapshot[job[w]] \/ draft'[w] = attached[job[w][1]]

\* A worker, or the queue, makes a step: the callers stay.
LEMMA WorkersMove ==
    ASSUME SummaryInv, IInv', TypeOK', RowsAdvance, JobsMove,
           UNCHANGED <<evidence, ends, ended, snapshot, callers>>,
           stored' \subseteq Session \X Hash,
           draft' \in [Worker -> ToStore .. MaxEvidence + MaxEnds],
           \A w \in Worker : draft'[w] # Unread =>
               pc'[w] = "validated" /\ job'[w] = job[w] /\ job[w] # NoTask /\ Learned(w),
           attached' \in [Session -> 0 .. MaxEvidence + MaxEnds],
           \A s \in Session : attached'[s] \in Hash =>
               attached'[s] = attached[s] \/ BackedThen(s, attached'[s])
    PROVE  SummaryInv'
<1>1. /\ \A s \in Session : \A h : Backed(s, h) => BackedThen(s, h)
      /\ \A s \in Session, n \in Version : SettledBefore(s, n) => SettledBefore(s, n)'
  BY BackingStays DEF RowsAdvance
<1>2. SummaryTypeOK'
  <2>1. \A t \in Task : status'[t] # "absent" => snapshot'[t] \in 1 .. evidence'[t[1]]
    BY DEF RowsAdvance, Known, SummaryInv, SummaryTypeOK
  <2>2. QED
    BY <2>1 DEF SummaryInv, SummaryTypeOK
<1>3. CallersFit'
  <2>1. \A c \in Caller : plan[c] # NoPlan => plan[c][1][1] \in Session /\ plan[c][1][2] \in Version
    BY SummaryAssumption DEF SummaryInv, CallersFit, Version
  <2>2. QED
    BY <1>1, <2>1 DEF SummaryInv, CallersFit, callers
<1>4. InOrder'
  BY <1>1, SummaryFacts DEF RowsAdvance, SummaryInv, InOrder
<1>5. AttachedFromCompletion'
  <2>1. ASSUME NEW s \in Session, attached'[s] \in Hash PROVE BackedThen(s, attached'[s])
    BY <1>1, <2>1 DEF SummaryInv, AttachedFromCompletion, Backed
  <2>2. QED
    BY <2>1 DEF AttachedFromCompletion, BackedThen, Hash, TasksOf
<1>6. ASSUME NEW w \in Worker, job'[w] # NoTask
      PROVE  /\ Known(job[w])'
             /\ draft'[w] \in Hash => draft'[w] = snapshot'[job'[w]]
                                       \/ BackedThen(job'[w][1], draft'[w])
  <2>1. CASE job'[w] = job[w]
    <3>1. job[w] \in Task /\ job[w][1] \in Session /\ Known(job[w])
      BY <1>6, <2>1, SummaryFacts DEF SummaryInv, DraftsFit
    <3>2. Known(job[w])'
      BY <2>1, <3>1 DEF RowsAdvance, Known
    <3>3. ASSUME draft'[w] \in Hash
          PROVE  draft'[w] = snapshot'[job'[w]] \/ BackedThen(job'[w][1], draft'[w])
      <4>1. Learned(w)
        <5>1. draft'[w] # Unread
          BY <3>3, SummaryFacts DEF Hash, Unread
        <5>2. QED
          BY <5>1
      <4>2. draft'[w] = snapshot[job[w]] \/ Backed(job[w][1], draft'[w])
        BY <1>6, <2>1, <3>1, <3>3, <4>1
           DEF Learned, SummaryInv, DraftsFit, AttachedFromCompletion, Backed
      <4>3. Backed(job[w][1], draft'[w]) => BackedThen(job'[w][1], draft'[w])
        BY <1>1, <2>1, <3>1
      <4>4. QED
        BY <2>1, <4>2, <4>3
    <3>4. QED
      BY <3>2, <3>3
  <2>2. CASE job'[w] # job[w]
    <3>1. draft'[w] = Unread /\ Unread \notin Hash
      BY <2>2, SummaryFacts DEF Hash, Unread
    <3>2. status'[job'[w]] = "claimed"
      BY <1>6, <2>2 DEF JobsMove
    <3>3. QED
      BY <3>1, <3>2 DEF Known
  <2>3. QED
    BY <2>1, <2>2
<1>7. DraftsFit'
  BY <1>6 DEF DraftsFit, Backed, BackedThen, Hash, TasksOf
<1>8. QED
  BY <1>2, <1>3, <1>4, <1>5, <1>7 DEF SummaryInv

-----------------------------------------------------------------------------
(* SessionSummaries: the steps of a worker *)

\* Where the fields of a worker lie.
LEMMA DraftFacts ==
    ASSUME SummaryInv, NEW w \in Worker
    PROVE  /\ draft \in [Worker -> ToStore .. MaxEvidence + MaxEnds]
           /\ Unread \in ToStore .. MaxEvidence + MaxEnds /\ Unread \notin Hash
           /\ ToStore \in ToStore .. MaxEvidence + MaxEnds /\ ToStore \notin Hash
           /\ draft[w] # Unread => pc[w] = "validated" /\ job[w] # NoTask
           /\ pc[w] = "validated" => job[w] # NoTask
           /\ \A s \in Session : attached[s] \in 0 .. MaxEvidence + MaxEnds
<1>1. /\ Unread \in ToStore .. MaxEvidence + MaxEnds /\ Unread \notin Hash
      /\ ToStore \in ToStore .. MaxEvidence + MaxEnds /\ ToStore \notin Hash
  BY SummaryFacts DEF Unread, ToStore, Hash
<1>2. QED
  BY <1>1, SummaryFacts DEF SummaryInv, SummaryTypeOK, TypeOK

\* A worker leaves, or its task moves: its draft is dropped or kept.
LEMMA LeavingStep ==
    ASSUME SummaryInv, NEW w \in Worker,
           \/ \E r \in {"ok", "error"} : CheckClaim(w, r)
           \/ ClaimLost(w) \/ CommitCompletion(w) \/ CommitRefused(w)
           \/ CommitRolledBack(w) \/ WorkerCrash(w),
           \/ Abandon(w)
           \/ draft' = draft /\ pc[w] # "validated",
           UNCHANGED <<evidence, ends, ended, snapshot, stored, callers>>,
           attached' \in [Session -> 0 .. MaxEvidence + MaxEnds],
           \A s \in Session : attached'[s] \in Hash =>
               attached'[s] = attached[s] \/ BackedThen(s, attached'[s])
    PROVE  SummaryInv'
<1>1. IInv' /\ TypeOK'
  BY QueueInvKept DEF SummaryInv
<1>2. /\ RowsAdvance /\ JobsMove
      /\ \A v \in Worker : v # w => pc'[v] = pc[v] /\ job'[v] = job[v]
  BY WorkerRows DEF SummaryInv, IInv
<1>3. draft' \in [Worker -> ToStore .. MaxEvidence + MaxEnds]
      /\ draft'[w] = Unread /\ \A v \in Worker : v # w => draft'[v] = draft[v]
  BY DraftFacts DEF Abandon
<1>4. \A v \in Worker : draft'[v] # Unread =>
          pc'[v] = "validated" /\ job'[v] = job[v] /\ job[v] # NoTask /\ Learned(v)
  BY <1>2, <1>3, DraftFacts DEF Learned
<1>5. stored' \subseteq Session \X Hash
  BY DEF SummaryInv, SummaryTypeOK
<1>6. QED
  BY <1>1, <1>2, <1>3, <1>4, <1>5, WorkersMove

\* The queue rests while a worker reads the session or stores its summary.
LEMMA WorkerReads ==
    ASSUME SummaryInv, NEW w \in Worker, ReadSession(w) \/ StoreSummary(w) \/ StoreFails(w)
    PROVE  SummaryInv'
<1>1. IInv' /\ TypeOK'
  BY QueueInvKept DEF SummaryInv, ReadSession, StoreSummary
<1>2. UNCHANGED <<rows, pc, job, sessions, snapshot, callers>>
  BY DEF ReadSession, StoreSummary, StoreFails, vars, workers
<1>3. RowsAdvance /\ JobsMove
  BY <1>2 DEF RowsAdvance, JobsMove, Known, Settled, rows
<1>4. pc[w] = "validated" /\ job[w] \in Task
  BY DraftFacts, SummaryFacts DEF ReadSession, StoreSummary, StoreFails, ToStore, Unread
<1>5. job[w][1] \in Session /\ snapshot[job[w]] \in Hash
  <2>1. Known(job[w])
    BY <1>4, DraftFacts DEF SummaryInv, DraftsFit
  <2>2. job[w][1] \in Session /\ snapshot[job[w]] \in 1 .. evidence[job[w][1]]
    BY <1>4, <2>1, SummaryFacts DEF Known, SummaryInv, SummaryTypeOK
  <2>3. QED
    BY <2>2, SummaryFacts DEF Hash
<1>6. stored' \subseteq Session \X Hash
  BY <1>5 DEF ReadSession, StoreSummary, StoreFails, Key, SummaryInv, SummaryTypeOK
<1>7. PICK d \in {Unread, ToStore, snapshot[job[w]], attached[job[w][1]]} :
          draft' = [draft EXCEPT ![w] = d]
  BY DEF ReadSession, StoreSummary, StoreFails, Abandon, Key
<1>8. d \in ToStore .. MaxEvidence + MaxEnds
  <2>1. snapshot[job[w]] \in ToStore .. MaxEvidence + MaxEnds
    BY <1>5, SummaryFacts DEF Hash, ToStore
  <2>2. attached[job[w][1]] \in ToStore .. MaxEvidence + MaxEnds
    BY <1>5, DraftFacts, SummaryFacts DEF ToStore
  <2>3. QED
    BY <1>7, <2>1, <2>2, DraftFacts
<1>9. draft' \in [Worker -> ToStore .. MaxEvidence + MaxEnds]
      /\ draft'[w] = d /\ \A v \in Worker : v # w => draft'[v] = draft[v]
  BY <1>7, <1>8, DraftFacts
<1>10. Learned(w)
  BY <1>7, <1>9, DraftFacts DEF Learned
<1>11. \A v \in Worker : draft'[v] # Unread =>
           pc'[v] = "validated" /\ job'[v] = job[v] /\ job[v] # NoTask /\ Learned(v)
  BY <1>2, <1>4, <1>9, <1>10, DraftFacts DEF Learned
<1>12. attached' \in [Session -> 0 .. MaxEvidence + MaxEnds]
       /\ \A s \in Session : attached'[s] = attached[s]
  BY <1>2 DEF sessions, SummaryInv, SummaryTypeOK
<1>13. UNCHANGED <<evidence, ends, ended, snapshot, callers>>
  BY <1>2 DEF sessions
<1>14. QED
  BY <1>1, <1>3, <1>6, <1>9, <1>11, <1>12, <1>13, WorkersMove

\* What is attached is the evidence of the task that completes, or another's.
LEMMA AttachStep ==
    ASSUME SummaryInv, NEW w \in Worker, AttachAndComplete(w)
    PROVE  SummaryInv'
<1> DEFINE s == job[w][1]
<1>1. /\ CommitCompletion(w) /\ Abandon(w) /\ result[w] = "ok"
      /\ draft[w] \notin {Unread, ToStore}
      /\ attached' = [attached EXCEPT ![s] = draft[w]]
      /\ AttachableNow(s) \/ attached[s] = draft[w]
      /\ UNCHANGED <<evidence, ends, ended, snapshot, stored, callers>>
  BY DEF AttachAndComplete
<1>2. job[w] \in Task /\ s \in Session /\ Known(job[w]) /\ attached \in [Session -> 0 .. MaxEvidence + MaxEnds]
  BY <1>1, DraftFacts, SummaryFacts DEF SummaryInv, DraftsFit, SummaryTypeOK
<1>3. draft[w] \in 0 .. MaxEvidence + MaxEnds
  BY <1>1, DraftFacts, SummaryFacts DEF Unread, ToStore
<1>4. attached' \in [Session -> 0 .. MaxEvidence + MaxEnds] /\ attached'[s] = draft[w]
      /\ \A x \in Session : x # s => attached'[x] = attached[x]
  BY <1>1, <1>2, <1>3
<1>5. status'[job[w]] = "completed" /\ snapshot'[job[w]] = snapshot[job[w]] /\ job[w] \in TasksOf(s)
  BY <1>1, <1>2, SummaryFacts, SummaryAssumption DEF CommitCompletion, TypeOK, TasksOf
<1>6. attached'[s] \in Hash => BackedThen(s, attached'[s])
  <2>1. ASSUME draft[w] \in Hash PROVE BackedThen(s, draft[w])
    <3>1. CASE draft[w] = snapshot[job[w]]
      BY <1>5, <3>1 DEF BackedThen
    <3>2. CASE Backed(s, draft[w])
      <4>1. RowsAdvance
        BY <1>1, WorkerRows DEF SummaryInv, IInv
      <4>2. \A t \in Task : Known(t) => snapshot'[t] = snapshot[t]
        BY <1>1
      <4>3. QED
        BY <1>2, <3>2, <4>1, <4>2, BackingStays DEF RowsAdvance
    <3>3. QED
      BY <1>2, <2>1, <3>1, <3>2, DraftFacts, <1>1 DEF SummaryInv, DraftsFit
  <2>2. QED
    BY <1>4, <2>1
<1>7. \A x \in Session : attached'[x] \in Hash =>
          attached'[x] = attached[x] \/ BackedThen(x, attached'[x])
  BY <1>4, <1>6
<1>8. QED
  BY <1>1, <1>4, <1>7, LeavingStep

LEMMA SummaryWorkerSteps ==
    ASSUME SummaryInv, NEW w \in Worker,
           \/ SummaryWorkerStep(w)
           \/ WorkerCrash(w) /\ Abandon(w) /\ UNCHANGED <<sessions, snapshot, stored, callers>>
    PROVE  SummaryInv'
<1>1. attached \in [Session -> 0 .. MaxEvidence + MaxEnds]
  BY DEF SummaryInv, SummaryTypeOK
<1>2. CASE \/ AttachFails(w) \/ FailSummary(w) \/ SummaryRefused(w)
           \/ WorkerCrash(w) /\ Abandon(w) /\ UNCHANGED <<sessions, snapshot, stored, callers>>
  <2>1. Abandon(w) /\ UNCHANGED <<evidence, ends, ended, attached, snapshot, stored, callers>>
    BY <1>2 DEF AttachFails, FailSummary, SummaryRefused, sessions
  <2>2. \/ CommitCompletion(w) \/ CommitRefused(w) \/ CommitRolledBack(w) \/ WorkerCrash(w)
    BY <1>2 DEF AttachFails, FailSummary, SummaryRefused
  <2>3. QED
    BY <1>1, <2>1, <2>2, LeavingStep
<1>3. CASE \/ (\E r \in {"ok", "error"} : CheckClaim(w, r)) /\ UNCHANGED sessionVars
           \/ ClaimLost(w) /\ UNCHANGED sessionVars
  <2>1. draft' = draft /\ pc[w] # "validated"
        /\ UNCHANGED <<evidence, ends, ended, attached, snapshot, stored, callers>>
    BY <1>3 DEF CheckClaim, ClaimLost, sessionVars, sessions
  <2>2. QED
    BY <1>1, <1>3, <2>1, LeavingStep
<1>4. CASE ReadSession(w) \/ StoreSummary(w) \/ StoreFails(w)
  BY <1>4, WorkerReads
<1>5. CASE AttachAndComplete(w)
  BY <1>5, AttachStep
<1>6. QED
  BY <1>2, <1>3, <1>4, <1>5 DEF SummaryWorkerStep

LEMMA QueueOnly ==
    ASSUME SummaryInv, UNCHANGED sessionVars, QueueStep \/ UNCHANGED vars
    PROVE  SummaryInv'
<1>1. IInv' /\ TypeOK'
  BY QueueInvKept DEF SummaryInv
<1>2. /\ RowsAdvance /\ JobsMove
      /\ \A v \in Worker : pc[v] = "validated" => pc'[v] = pc[v] /\ job'[v] = job[v]
  <2>1. CASE UNCHANGED vars
    BY <2>1 DEF vars, rows, workers, RowsAdvance, JobsMove, Known, Settled
  <2>2. CASE QueueStep
    BY <2>2, QueueRows DEF SummaryInv, IInv
  <2>3. QED
    BY <2>1, <2>2
<1>3. UNCHANGED <<evidence, ends, ended, attached, snapshot, stored, draft, callers>>
  BY DEF sessionVars, sessions
<1>4. /\ stored' \subseteq Session \X Hash
      /\ draft' \in [Worker -> ToStore .. MaxEvidence + MaxEnds]
      /\ attached' \in [Session -> 0 .. MaxEvidence + MaxEnds]
  BY <1>3 DEF SummaryInv, SummaryTypeOK
<1>5. \A v \in Worker : draft'[v] # Unread =>
          pc'[v] = "validated" /\ job'[v] = job[v] /\ job[v] # NoTask /\ Learned(v)
  BY <1>2, <1>3, DraftFacts DEF Learned
<1>6. QED
  BY <1>1, <1>2, <1>3, <1>4, <1>5, WorkersMove

-----------------------------------------------------------------------------
(* SessionSummaries: the steps of a caller *)

\* Rows, workers and contracts rest.
LEMMA CallersMove ==
    ASSUME SummaryInv, UNCHANGED <<vars, snapshot, stored, draft>>,
           evidence' \in [Session -> 0 .. MaxEvidence],
           \A s \in Session : evidence[s] <= evidence'[s],
           ends' \in [Session -> 0 .. MaxEnds], ended' \in [Session -> BOOLEAN],
           attached' \in [Session -> 0 .. MaxEvidence + MaxEnds],
           \A s \in Session : attached'[s] \in Hash => attached'[s] = attached[s],
           CallersFit'
    PROVE  SummaryInv'
<1>1. IInv' /\ TypeOK'
  BY QueueInvKept DEF SummaryInv
<1>2. UNCHANGED <<status, pc, job, snapshot, stored, draft>>
  BY DEF vars, rows, workers
<1>3. SummaryTypeOK'
  <2>1. \A t \in Task : status'[t] # "absent" => snapshot'[t] \in 1 .. evidence'[t[1]]
    <3>1. ASSUME NEW t \in Task, status[t] # "absent" PROVE snapshot[t] \in 1 .. evidence'[t[1]]
      <4>1. t[1] \in Session /\ snapshot[t] \in 1 .. evidence[t[1]]
        BY <3>1, SummaryFacts DEF SummaryInv, SummaryTypeOK
      <4>2. evidence[t[1]] \in Int /\ evidence'[t[1]] \in Int /\ evidence[t[1]] <= evidence'[t[1]]
        BY <4>1, SummaryFacts
      <4>3. QED
        BY <4>1, <4>2
    <3>2. QED
      BY <1>2, <3>1
  <2>2. QED
    BY <1>1, <1>2, <2>1 DEF SummaryInv, SummaryTypeOK
<1>4. InOrder' /\ DraftsFit'
  BY <1>2 DEF SummaryInv, InOrder, DraftsFit, Known, Settled, SettledBefore, Backed
<1>5. AttachedFromCompletion'
  BY <1>2 DEF SummaryInv, AttachedFromCompletion
<1>6. QED
  BY <1>1, <1>3, <1>4, <1>5 DEF SummaryInv

LEMMA CallerFacts ==
    ASSUME SummaryInv
    PROVE  /\ evidence \in [Session -> 0 .. MaxEvidence] /\ ends \in [Session -> 0 .. MaxEnds]
           /\ ended \in [Session -> BOOLEAN]
           /\ attached \in [Session -> 0 .. MaxEvidence + MaxEnds]
           /\ \A s \in Session : evidence[s] \in Int /\ ends[s] \in Int
BY SummaryFacts DEF SummaryInv, SummaryTypeOK

LEMMA CaptureStep ==
    ASSUME SummaryInv, NEW s \in Session, Capture(s)
    PROVE  SummaryInv'
<1>1. /\ evidence' = [evidence EXCEPT ![s] = @ + 1] /\ evidence[s] < MaxEvidence
      /\ UNCHANGED <<vars, ends, ended, attached, snapshot, stored, draft, callers>>
  BY DEF Capture
<1>2. evidence' \in [Session -> 0 .. MaxEvidence] /\ \A x \in Session : evidence[x] <= evidence'[x]
  BY <1>1, CallerFacts, SummaryFacts
<1>3. CallersFit'
  <2>1. ASSUME NEW c \in Caller, plan'[c] # NoPlan
        PROVE  /\ plan'[c][2] \in 1 .. evidence'[plan'[c][1][1]]
               /\ SettledBefore(plan[c][1][1], plan[c][1][2])
    <3>1. plan'[c] = plan[c] /\ plan[c][1][1] \in Session
      BY <1>1, <2>1, SummaryAssumption DEF callers, SummaryInv, CallersFit
    <3>2. plan[c][2] \in 1 .. evidence[plan[c][1][1]] /\ SettledBefore(plan[c][1][1], plan[c][1][2])
      BY <2>1, <3>1 DEF SummaryInv, CallersFit
    <3>3. /\ evidence[plan[c][1][1]] \in Int /\ evidence'[plan[c][1][1]] \in Int
          /\ evidence[plan[c][1][1]] <= evidence'[plan[c][1][1]]
      BY <1>2, <3>1, CallerFacts
    <3>4. QED
      BY <3>1, <3>2, <3>3
  <2>2. UNCHANGED <<todo, plan, status>>
    BY <1>1 DEF callers, vars, rows
  <2>3. QED
    BY <2>1, <2>2 DEF SummaryInv, CallersFit, SettledBefore, Settled
<1>4. QED
  BY <1>1, <1>2, <1>3, CallerFacts, CallersMove

LEMMA EndSessionStep ==
    ASSUME SummaryInv, NEW c \in Caller, NEW s \in Session, NEW given \in BOOLEAN,
           EndSession(c, s, given)
    PROVE  SummaryInv'
<1>1. /\ ends[s] < MaxEnds /\ ends' = [ends EXCEPT ![s] = @ + 1]
      /\ ended' = [ended EXCEPT ![s] = TRUE]
      /\ attached' = [attached EXCEPT ![s] = SummaryAfterEnd(s, given)]
      /\ todo' = IF given THEN todo ELSE [todo EXCEPT ![c] = s]
      /\ UNCHANGED <<vars, evidence, snapshot, stored, draft, plan>>
  BY DEF EndSession
<1>2. SummaryAfterEnd(s, given) \in 0 .. MaxEvidence + MaxEnds /\ SummaryAfterEnd(s, given) \notin Hash
  BY <1>1, CallerFacts, SummaryFacts DEF SummaryAfterEnd, CallerSummary, NoSummary, Hash
<1>3. /\ ends' \in [Session -> 0 .. MaxEnds] /\ ended' \in [Session -> BOOLEAN]
      /\ attached' \in [Session -> 0 .. MaxEvidence + MaxEnds]
      /\ \A x \in Session : attached'[x] \in Hash => attached'[x] = attached[x]
  <2>1. ends' \in [Session -> 0 .. MaxEnds] /\ ended' \in [Session -> BOOLEAN]
    BY <1>1, CallerFacts, SummaryFacts
  <2>2. QED
    BY <1>1, <1>2, <2>1, CallerFacts
<1>4. CallersFit'
  <2>1. UNCHANGED <<plan, status, evidence>>
    BY <1>1 DEF vars, rows
  <2>2. todo' \in [Caller -> Session \cup {NoSession}]
    BY <1>1 DEF SummaryInv, CallersFit
  <2>3. QED
    BY <2>1, <2>2 DEF SummaryInv, CallersFit, SettledBefore, Settled
<1>5. QED
  BY <1>1, <1>3, <1>4, CallerFacts, CallersMove

LEMMA TodoStep ==
    ASSUME SummaryInv, NEW c \in Caller,
           (\E s \in Session : Backfill(c, s)) \/ NothingToPlan(c)
    PROVE  SummaryInv'
<1>1. PICK x \in Session \cup {NoSession} : todo' = [todo EXCEPT ![c] = x]
  BY DEF Backfill, NothingToPlan
<1>2. UNCHANGED <<vars, evidence, ends, ended, attached, snapshot, stored, draft, plan>>
  BY DEF Backfill, NothingToPlan, sessions
<1>3. CallersFit'
  <2>1. UNCHANGED <<plan, status, evidence>>
    BY <1>2 DEF vars, rows
  <2>2. todo' \in [Caller -> Session \cup {NoSession}]
    BY <1>1 DEF SummaryInv, CallersFit
  <2>3. QED
    BY <2>1, <2>2 DEF SummaryInv, CallersFit, SettledBefore, Settled
<1>4. QED
  BY <1>2, <1>3, CallerFacts, CallersMove

\* The tasks there are of a session have the first numbers.
LEMMA CountIsNext ==
    ASSUME SummaryInv, NEW s \in Session, Open(s) = {}
    PROVE  /\ Cardinality(Prior(s)) \in Nat
           /\ SettledBefore(s, Cardinality(Prior(s)) + 1)
<1> DEFINE n == Cardinality(Prior(s))
<1>1. /\ Prior(s) \subseteq {s} \X Version /\ IsFiniteSet({s} \X Version)
  <2>1. IsFiniteSet({s}) /\ IsFiniteSet(Version)
    <3>1. 1 \in Int /\ SummaryLimit \in Int
      BY SummaryFacts
    <3>2. IsFiniteSet(1 .. SummaryLimit)
      BY <3>1, FS_Interval
    <3>3. QED
      BY <3>2, FS_Singleton DEF Version
  <2>2. QED
    BY <2>1, FS_Product DEF Prior, TasksOf, Version
<1>2. IsFiniteSet(Prior(s)) /\ n \in Nat
  BY <1>1, FS_Subset, FS_CardinalityType
<1>3. \A t \in Prior(s) : Settled(t)
  BY SummaryFacts DEF Prior, Open, TasksOf, Settled, Terminal, TypeOK, SummaryInv, IInv, Version
<1>4. ASSUME NEW k \in 1 .. n, ~ Settled(<<s, k>>) PROVE FALSE
  <2>1. \A t \in Prior(s) : t[2] \in 1 .. k - 1
    <3>1. ASSUME NEW t \in Prior(s), t[2] >= k PROVE FALSE
      <4>1. t = <<s, t[2]>> /\ t[2] \in Version /\ Known(<<s, t[2]>>) /\ Settled(t)
        BY <1>3, <3>1 DEF Prior, TasksOf, Known, Version
      <4>2. t[2] # k
        BY <1>4, <4>1
      <4>3. k \in 1 .. t[2] - 1
        BY <3>1, <4>1, <4>2 DEF Version
      <4>4. SettledBefore(s, t[2])
        BY <4>1 DEF SummaryInv, InOrder
      <4>5. QED
        BY <1>4, <4>3, <4>4 DEF SettledBefore
    <3>2. QED
      BY <3>1, <1>1 DEF Version
  <2>2. Prior(s) \subseteq {s} \X (1 .. k - 1)
    BY <1>1, <2>1
  <2>3. IsFiniteSet(1 .. k - 1) /\ Cardinality(1 .. k - 1) = k - 1
    <3>1. 1 \in Int /\ k - 1 \in Int /\ k >= 1
      BY <1>2
    <3>2. /\ IsFiniteSet(1 .. k - 1)
          /\ Cardinality(1 .. k - 1) = IF 1 > k - 1 THEN 0 ELSE (k - 1) - 1 + 1
      BY <3>1, FS_Interval
    <3>3. QED
      BY <3>1, <3>2
  <2>4. IsFiniteSet({s} \X (1 .. k - 1)) /\ Cardinality({s} \X (1 .. k - 1)) = k - 1
    <3>1. IsFiniteSet({s}) /\ Cardinality({s}) = 1
      BY FS_Singleton
    <3>2. /\ IsFiniteSet({s} \X (1 .. k - 1))
          /\ Cardinality({s} \X (1 .. k - 1)) = Cardinality({s}) * Cardinality(1 .. k - 1)
      BY <2>3, <3>1, FS_Product
    <3>3. k - 1 \in Nat
      BY <1>2
    <3>4. QED
      BY <2>3, <3>1, <3>2, <3>3
  <2>5. n <= k - 1
    BY <2>2, <2>4, FS_Subset
  <2>6. QED
    BY <1>2, <2>5
<1>5. QED
  BY <1>2, <1>4 DEF SettledBefore

LEMMA PlanSummaryStep ==
    ASSUME SummaryInv, NEW c \in Caller, PlanSummary(c)
    PROVE  SummaryInv'
<1> DEFINE s == todo[c]
           n == Cardinality(Prior(todo[c])) + 1
<1>1. /\ s # NoSession /\ Eligible(s)
      /\ plan' = [plan EXCEPT ![c] = <<<<s, n>>, evidence[s]>>]
      /\ UNCHANGED <<vars, evidence, ends, ended, attached, snapshot, stored, draft, todo>>
  BY DEF PlanSummary, NextSummaryTask, sessions
<1>2. s \in Session
  BY <1>1 DEF SummaryInv, CallersFit
<1>3. SettledBefore(s, n) /\ n \in Version /\ evidence[s] \in Hash
  <2>1. Open(s) = {} /\ Cardinality(Prior(s)) < SummaryLimit /\ evidence[s] > 0
    BY <1>1 DEF Eligible
  <2>2. Cardinality(Prior(s)) \in Nat /\ SettledBefore(s, n)
    BY <1>2, <2>1, CountIsNext
  <2>3. n \in Version
    BY <2>1, <2>2, SummaryFacts DEF Version
  <2>4. evidence[s] \in Hash
    BY <1>2, <2>1, SummaryFacts DEF Hash
  <2>5. QED
    BY <2>2, <2>3, <2>4
<1> HIDE DEF n
<1>4. CallersFit'
  <2>1. UNCHANGED <<todo, status, evidence>>
    BY <1>1 DEF vars, rows
  <2>2. <<<<s, n>>, evidence[s]>> \in Task \X Hash
    BY <1>2, <1>3, SummaryFacts
  <2>3. plan' \in [Caller -> {NoPlan} \cup (Task \X Hash)]
    BY <1>1, <2>2 DEF SummaryInv, CallersFit
  <2>4. ASSUME NEW d \in Caller, plan'[d] # NoPlan
        PROVE  /\ plan'[d][2] \in 1 .. evidence[plan'[d][1][1]]
               /\ SettledBefore(plan'[d][1][1], plan'[d][1][2])
    <3>1. CASE d = c
      <4>1. plan'[d] = <<<<s, n>>, evidence[s]>>
        BY <1>1, <3>1 DEF SummaryInv, CallersFit
      <4>2. evidence[s] \in 1 .. evidence[s]
        BY <1>3 DEF Hash
      <4>3. QED
        BY <1>3, <4>1, <4>2
    <3>2. CASE d # c
      BY <1>1, <2>4, <3>2 DEF SummaryInv, CallersFit
    <3>3. QED
      BY <3>1, <3>2
  <2>5. QED
    BY <2>1, <2>3, <2>4 DEF SummaryInv, CallersFit, SettledBefore, Settled
<1>5. QED
  BY <1>1, <1>4, CallerFacts, CallersMove

\* The insert is the one step that makes a task known.
LEMMA InsertStep ==
    ASSUME SummaryInv, NEW c \in Caller, InsertSummaryTask(c)
    PROVE  SummaryInv'
<1>1. /\ plan[c] # NoPlan
      /\ todo' = [todo EXCEPT ![c] = NoSession] /\ plan' = [plan EXCEPT ![c] = NoPlan]
      /\ UNCHANGED <<evidence, ends, ended, attached, stored, draft>>
  BY DEF InsertSummaryTask, sessions
<1>2. PICK s \in Session, n \in Version, e \in Hash :
          plan[c] = <<<<s, n>>, e>> /\ e \in 1 .. evidence[s] /\ SettledBefore(s, n)
  <2>1. plan[c] \in Task \X Hash
    BY <1>1 DEF SummaryInv, CallersFit
  <2>2. plan[c][1] \in Task /\ plan[c] = <<plan[c][1], plan[c][2]>>
    BY <2>1
  <2>3. /\ plan[c][1][1] \in Session /\ plan[c][1][2] \in Version
        /\ plan[c][1] = <<plan[c][1][1], plan[c][1][2]>>
    BY <2>2, SummaryFacts
  <2>4. /\ plan[c][2] \in 1 .. evidence[plan[c][1][1]]
        /\ SettledBefore(plan[c][1][1], plan[c][1][2])
    BY <1>1 DEF SummaryInv, CallersFit
  <2>5. plan[c][2] \in Hash
    BY <2>1
  <2>6. QED
    BY <2>2, <2>3, <2>4, <2>5
<1> DEFINE t == <<s, n>>
<1>3. t \in Task /\ e \in 0 .. MaxEvidence
  BY <1>2, SummaryFacts DEF Hash
<1>4. \/ Known(t) /\ UNCHANGED <<vars, snapshot>>
      \/ ~ Known(t) /\ RequestTask(t) /\ snapshot' = [snapshot EXCEPT ![t] = e]
  BY <1>2 DEF InsertSummaryTask, Known
<1>5. IInv' /\ TypeOK'
  BY <1>3, <1>4, QueueInvKept DEF SummaryInv
<1>6. /\ UNCHANGED <<pc, job>>
      /\ \A x \in Task : x # t => status'[x] = status[x] /\ snapshot'[x] = snapshot[x]
      /\ Known(t) => status'[t] = status[t] /\ snapshot'[t] = snapshot[t]
      /\ ~ Known(t) => status'[t] = "pending" /\ snapshot'[t] = e
      /\ snapshot' \in [Task -> 0 .. MaxEvidence]
  <2>1. CASE Known(t) /\ UNCHANGED <<vars, snapshot>>
    BY <2>1 DEF vars, rows, workers, SummaryInv, SummaryTypeOK
  <2>2. CASE ~ Known(t) /\ RequestTask(t) /\ snapshot' = [snapshot EXCEPT ![t] = e]
    BY <1>3, <2>2 DEF RequestTask, workers, SummaryInv, SummaryTypeOK, TypeOK
  <2>3. QED
    BY <1>4, <2>1, <2>2
<1> HIDE DEF t
<1>7. \A x \in Task : /\ Settled(x) => status'[x] = status[x]
                      /\ Known(x) => snapshot'[x] = snapshot[x] /\ status'[x] = status[x]
  BY <1>6 DEF Settled, Known, Terminal
<1>8. /\ \A x \in Session : \A h : Backed(x, h) => BackedThen(x, h)
      /\ \A x \in Session, m \in Version : SettledBefore(x, m) => SettledBefore(x, m)'
  BY <1>7, BackingStays
<1>9. InOrder'
  <2>1. ASSUME NEW x \in Session, NEW m \in Version, Known(<<x, m>>)' PROVE SettledBefore(x, m)'
    <3>1. CASE <<x, m>> = t
      BY <1>2, <1>8, <3>1 DEF t
    <3>2. CASE <<x, m>> # t
      <4>1. Known(<<x, m>>)
        BY <1>6, <2>1, <3>2, SummaryFacts DEF Known
      <4>2. QED
        BY <1>8, <4>1 DEF SummaryInv, InOrder
    <3>3. QED
      BY <3>1, <3>2
  <2>2. QED
    BY <2>1 DEF InOrder
<1>10. SummaryTypeOK'
  <2>1. ASSUME NEW x \in Task, status'[x] # "absent" PROVE snapshot'[x] \in 1 .. evidence'[x[1]]
    <3>1. CASE x = t /\ ~ Known(t)
      BY <1>1, <1>2, <1>6, <3>1 DEF t
    <3>2. CASE ~ (x = t /\ ~ Known(t))
      <4>1. status[x] # "absent" /\ snapshot'[x] = snapshot[x]
        BY <1>6, <2>1, <3>2 DEF Known
      <4>2. QED
        BY <1>1, <4>1 DEF SummaryInv, SummaryTypeOK
    <3>3. QED
      BY <3>1, <3>2
  <2>2. QED
    BY <1>1, <1>5, <1>6, <2>1 DEF SummaryInv, SummaryTypeOK
<1>11. CallersFit'
  <2>1. ASSUME NEW d \in Caller, plan'[d] # NoPlan
        PROVE  /\ plan'[d][2] \in 1 .. evidence'[plan'[d][1][1]]
               /\ SettledThen(plan'[d][1][1], plan'[d][1][2])
    <3>1. d # c /\ plan'[d] = plan[d]
      BY <1>1, <2>1 DEF SummaryInv, CallersFit
    <3>2. plan[d][1][1] \in Session /\ plan[d][1][2] \in Version
      BY <2>1, <3>1, SummaryAssumption DEF SummaryInv, CallersFit, Version
    <3>3. plan[d][2] \in 1 .. evidence[plan[d][1][1]] /\ SettledBefore(plan[d][1][1], plan[d][1][2])
      BY <2>1, <3>1 DEF SummaryInv, CallersFit
    <3>4. SettledBefore(plan[d][1][1], plan[d][1][2])'
      BY <1>8, <3>2, <3>3, <3>1
    <3>5. SettledThen(plan[d][1][1], plan[d][1][2])
      BY <3>1, <3>4 DEF SettledBefore, SettledThen, Settled
    <3>6. QED
      BY <1>1, <3>1, <3>3, <3>5
  <2>2. QED
    BY <1>1, <2>1 DEF SummaryInv, CallersFit, SettledBefore, SettledThen, Settled
<1>12. DraftsFit'
  <2>1. ASSUME NEW w \in Worker, job[w] # NoTask
        PROVE  /\ status'[job[w]] # "absent"
               /\ draft[w] \in Hash => draft[w] = snapshot'[job[w]] \/ BackedThen(job[w][1], draft[w])
    <3>1. job[w] \in Task /\ job[w][1] \in Session /\ Known(job[w])
          /\ (draft[w] \in Hash => draft[w] = snapshot[job[w]] \/ Backed(job[w][1], draft[w]))
      BY <2>1, SummaryFacts DEF SummaryInv, DraftsFit
    <3>2. QED
      BY <1>7, <1>8, <3>1 DEF Known
  <2>2. QED
    BY <1>1, <1>6, <2>1 DEF DraftsFit, Known, Backed, BackedThen, TasksOf, Hash
<1>13. AttachedFromCompletion'
  BY <1>1, <1>8 DEF SummaryInv, AttachedFromCompletion, Backed, BackedThen, TasksOf, Hash
<1>14. QED
  BY <1>5, <1>9, <1>10, <1>11, <1>12, <1>13 DEF SummaryInv

-----------------------------------------------------------------------------
(* SessionSummaries: the theorem *)

LEMMA InitSummaryInv == SummaryInit => SummaryInv
<1> SUFFICES ASSUME SummaryInit PROVE SummaryInv
  OBVIOUS
<1>1. IInv /\ TypeOK
  BY InitIInv DEF SummaryInit, IInv
<1>2. SummaryTypeOK
  BY <1>1, SummaryAssumption DEF SummaryInit, SummaryTypeOK, NoSummary, Unread, ToStore
<1>3. CallersFit /\ InOrder /\ DraftsFit
  BY SummaryAssumption DEF SummaryInit, Init, CallersFit, InOrder, DraftsFit, Known, Version
<1>4. AttachedFromCompletion
  BY SummaryAssumption DEF SummaryInit, AttachedFromCompletion, Hash, NoSummary
<1>5. QED
  BY <1>1, <1>2, <1>3, <1>4 DEF SummaryInv

LEMMA NextSummaryInv == SummaryInv /\ [SummaryNext]_allVars => SummaryInv'
<1> SUFFICES ASSUME SummaryInv, [SummaryNext]_allVars PROVE SummaryInv'
  OBVIOUS
<1>1. CASE UNCHANGED allVars
  BY <1>1, QueueOnly DEF allVars
<1>2. CASE QueueStep /\ UNCHANGED sessionVars
  BY <1>2, QueueOnly
<1>3. CASE \E s \in Session : Capture(s)
  BY <1>3, CaptureStep
<1>4. CASE \E c \in Caller, s \in Session : Backfill(c, s)
  BY <1>4, TodoStep
<1>5. CASE \E c \in Caller, s \in Session, given \in BOOLEAN : EndSession(c, s, given)
  BY <1>5, EndSessionStep
<1>6. CASE \E c \in Caller : NothingToPlan(c)
  BY <1>6, TodoStep
<1>7. CASE \E c \in Caller : PlanSummary(c)
  BY <1>7, PlanSummaryStep
<1>8. CASE \E c \in Caller : InsertSummaryTask(c)
  BY <1>8, InsertStep
<1>9. CASE \E w \in Worker :
               \/ SummaryWorkerStep(w)
               \/ WorkerCrash(w) /\ Abandon(w) /\ UNCHANGED <<sessions, snapshot, stored, callers>>
  BY <1>9, SummaryWorkerSteps
<1>10. QED
  BY <1>1, <1>2, <1>3, <1>4, <1>5, <1>6, <1>7, <1>8, <1>9 DEF SummaryNext

LEMMA AlwaysSummaryInv == SummarySpec => []SummaryInv
  BY InitSummaryInv, NextSummaryInv, PTL DEF SummarySpec

(***************************************************************************)
(* Sessions, their tasks, callers and the drafts of workers keep their     *)
(* types, and a contract is bound to evidence that was there.              *)
(***************************************************************************)
THEOREM SummariesTyped == SummarySpec => []SummaryTypeOK
<1>1. SummaryInv => SummaryTypeOK
  BY DEF SummaryInv
<1>2. QED
  BY AlwaysSummaryInv, <1>1, PTL

\* Of two open tasks the first would have been settled before the second.
LEMMA OneOpenAtMost == SummaryInv => OneOpenSummaryTask
<1> SUFFICES ASSUME SummaryInv, NEW s \in Session PROVE Cardinality(Open(s)) <= 1
  BY DEF OneOpenSummaryTask
<1>1. ASSUME NEW a \in Open(s), NEW b \in Open(s) PROVE a = b
  <2>1. /\ a = <<s, a[2]>> /\ b = <<s, b[2]>> /\ a[2] \in Version /\ b[2] \in Version
        /\ Known(a) /\ Known(b) /\ ~ Settled(a) /\ ~ Settled(b)
    BY DEF Open, TasksOf, Known, Settled, Terminal, Version
  <2>2. SettledBefore(s, a[2]) /\ SettledBefore(s, b[2])
    BY <2>1 DEF SummaryInv, InOrder
  <2>3. ~ a[2] \in 1 .. b[2] - 1 /\ ~ b[2] \in 1 .. a[2] - 1
    BY <2>1, <2>2 DEF SettledBefore
  <2>4. a[2] = b[2]
    BY <2>1, <2>3, SummaryFacts DEF Version
  <2>5. QED
    BY <2>1, <2>4
<1>2. CASE Open(s) = {}
  BY <1>2, FS_EmptySet
<1>3. CASE Open(s) # {}
  <2>1. PICK a \in Open(s) : TRUE
    BY <1>3
  <2>2. Open(s) = {a}
    BY <1>1, <2>1
  <2>3. Cardinality({a}) = 1
    BY FS_Singleton
  <2>4. QED
    BY <2>2, <2>3
<1>4. QED
  BY <1>2, <1>3

(***************************************************************************)
(* One summary task of a session is open at a time, and the summary that   *)
(* is attached comes from a task that completed over the evidence it is    *)
(* named after, whatever callers, workers, crashes and lost leases do.     *)
(***************************************************************************)
THEOREM SummariesFollowTasks == SummarySpec => []SummaryFollowsTask
<1>1. SummaryInv => SummaryFollowsTask
  BY OneOpenAtMost DEF SummaryInv, SummaryFollowsTask
<1>2. QED
  BY AlwaysSummaryInv, <1>1, PTL

-----------------------------------------------------------------------------
(* InferenceWorkers *)

RowState == [status : {"absent", "pending", "claimed", "completed", "failed"}, token : Nat]
Claim == [job : Job, token : Nat]

\* What every hand holds is typed, and what it counts is what it settled.
HandsFit ==
    /\ row \in [Job -> RowState]
    /\ handStage \in [Hand -> {"idle", "claiming", "settling", "discarding"}]
    /\ page \in [Hand -> SUBSET Job] /\ mine \in [Hand -> SUBSET Claim]
    /\ counted \in [Hand -> SUBSET Job] /\ settled \in [Hand -> SUBSET Job]
    /\ \A h \in Hand : handStage[h] = "idle" => mine[h] = {} /\ page[h] = {}
    /\ \A j \in Job : row[j].status = "claimed" => row[j].token > 0

WorkersInv == HandsFit /\ CountsHonest

LEMMA LeastJob ==
    ASSUME NEW S \in SUBSET Job, S # {}
    PROVE  Min(S) \in S
<1>1. S \subseteq Nat
  BY WorkersAssumption
<1>2. PICK i \in S : \A j \in S : ~(<<j, i>> \in OpToRel(<, Nat))
  BY <1>1, NatLessThanWellFounded, WFMin
<1>3. ASSUME NEW j \in S PROVE i <= j
  <2>1. i \in Nat /\ j \in Nat
    BY <1>1
  <2>2. ~ (j < i)
    BY <1>2, <2>1 DEF OpToRel
  <2>3. QED
    BY <2>1, <2>2
<1>4. QED
  BY <1>3 DEF Min

LEMMA ListedJobs == \A h \in Hand : Listed(h) \subseteq Job
  BY DEF Listed, Grouped, Oldest

\* A row moves to another status under the claim it has, or a new one.
LEMMA RowMoves ==
    ASSUME HandsFit, NEW j \in Job, NEW r \in RowState, row' = [row EXCEPT ![j] = r],
           r.status = "claimed" => r.token > 0
    PROVE  /\ row' \in [Job -> RowState]
           /\ \A i \in Job : row'[i].status = "claimed" => row'[i].token > 0
BY DEF HandsFit

LEMMA StatusMoves ==
    ASSUME HandsFit, NEW j \in Job, NEW x \in {"pending", "completed", "failed"},
           row' = [row EXCEPT ![j].status = x]
    PROVE  /\ row' \in [Job -> RowState]
           /\ \A i \in Job : row'[i].status = "claimed" => row'[i].token > 0
<1>1. row[j] \in RowState
  BY DEF HandsFit
<1>2. PICK r : r = [row[j] EXCEPT !.status = x]
  OBVIOUS
<1>3. r \in RowState /\ r.status = x
  BY <1>1, <1>2 DEF RowState
<1>4. row' = [row EXCEPT ![j] = r]
  BY <1>2
<1>5. QED
  BY <1>3, <1>4, RowMoves

\* A hand gives back one claim, and works on or ends its batch.
LEMMA SettleStep ==
    ASSUME WorkersInv, NEW h \in Hand, NEW c \in mine[h],
           \/ AcceptOutput(h, c) \/ Reject(h, c) \/ LoseOne(h, c) \/ LoseBatch(h, c)
    PROVE  WorkersInv'
<1>1. c \in Claim /\ c.job \in Job /\ handStage[h] # "idle"
  BY DEF WorkersInv, HandsFit, Claim
<1>2. /\ row' \in [Job -> RowState]
      /\ \A i \in Job : row'[i].status = "claimed" => row'[i].token > 0
  <2>1. CASE AcceptOutput(h, c)
    BY <1>1, <2>1, StatusMoves DEF AcceptOutput, WorkersInv
  <2>2. CASE Reject(h, c)
    BY <1>1, <2>2, StatusMoves DEF Reject, WorkersInv
  <2>3. CASE LoseOne(h, c) \/ LoseBatch(h, c)
    BY <2>3 DEF LoseOne, LoseBatch, WorkersInv, HandsFit
  <2>4. QED
    BY <2>1, <2>2, <2>3
<1>3. \/ ClaimSettled(h, c)
      \/ /\ handStage' = [handStage EXCEPT ![h] = "idle"]
         /\ page' = [page EXCEPT ![h] = {}] /\ mine' = [mine EXCEPT ![h] = {}]
  BY DEF AcceptOutput, Reject, LoseOne, LoseBatch
<1>4. /\ handStage' \in [Hand -> {"idle", "claiming", "settling", "discarding"}]
      /\ page' \in [Hand -> SUBSET Job] /\ mine' \in [Hand -> SUBSET Claim]
      /\ \A g \in Hand : handStage'[g] = "idle" => mine'[g] = {} /\ page'[g] = {}
  <2>1. CASE ClaimSettled(h, c)
    BY <1>1, <2>1 DEF ClaimSettled, WorkersInv, HandsFit
  <2>2. CASE ~ ClaimSettled(h, c)
    BY <1>3, <2>2 DEF WorkersInv, HandsFit
  <2>3. QED
    BY <2>1, <2>2
<1>5. /\ counted' \in [Hand -> SUBSET Job] /\ settled' \in [Hand -> SUBSET Job]
      /\ CountsHonest'
  <2>1. CASE AcceptOutput(h, c)
    BY <1>1, <2>1 DEF AcceptOutput, WorkersInv, HandsFit, CountsHonest
  <2>2. CASE Reject(h, c)
    BY <1>1, <2>2 DEF Reject, CountsRejected, WorkersInv, HandsFit, CountsHonest
  <2>3. CASE LoseOne(h, c) \/ LoseBatch(h, c)
    BY <2>3 DEF LoseOne, LoseBatch, WorkersInv, HandsFit, CountsHonest
  <2>4. QED
    BY <2>1, <2>2, <2>3
<1>6. QED
  BY <1>2, <1>4, <1>5 DEF WorkersInv, HandsFit

LEMMA TakeStep ==
    ASSUME WorkersInv, NEW h \in Hand, Take(h)
    PROVE  WorkersInv'
<1>1. PICK j : j = Min(page[h])
  OBVIOUS
<1>2. j \in Job
  BY <1>1, LeastJob DEF Take, WorkersInv, HandsFit
<1>3. /\ page' = [page EXCEPT ![h] = @ \ {j}]
      /\ handStage[h] = "claiming" /\ UNCHANGED <<handStage, counted, settled>>
      /\ IF Takeable(j)
         THEN /\ row' = [row EXCEPT ![j] = [status |-> "claimed", token |-> @.token + 1]]
              /\ mine' = [mine EXCEPT ![h] = @ \union {[job |-> j, token |-> row[j].token + 1]}]
         ELSE UNCHANGED <<row, mine>>
  BY <1>1 DEF Take
<1>4. row[j] \in RowState /\ row[j].token \in Nat
  BY <1>2 DEF WorkersInv, HandsFit, RowState
<1>5. PICK r : r = [status |-> "claimed", token |-> row[j].token + 1]
  OBVIOUS
<1>6. r \in RowState /\ r.token > 0
  BY <1>4, <1>5 DEF RowState
<1>7. /\ row' \in [Job -> RowState]
      /\ \A i \in Job : row'[i].status = "claimed" => row'[i].token > 0
  <2>1. CASE Takeable(j)
    <3>1. row' = [row EXCEPT ![j] = r]
      BY <1>3, <1>5, <2>1
    <3>2. QED
      BY <1>2, <1>6, <3>1, RowMoves DEF WorkersInv
  <2>2. CASE ~ Takeable(j)
    BY <1>3, <2>2 DEF WorkersInv, HandsFit
  <2>3. QED
    BY <2>1, <2>2
<1>8. mine' \in [Hand -> SUBSET Claim] /\ \A g \in Hand : g # h => mine'[g] = mine[g]
  <2>1. [job |-> j, token |-> row[j].token + 1] \in Claim
    BY <1>2, <1>4 DEF Claim
  <2>2. QED
    BY <1>3, <2>1 DEF WorkersInv, HandsFit
<1>9. page' \in [Hand -> SUBSET Job] /\ \A g \in Hand : g # h => page'[g] = page[g]
  BY <1>3 DEF WorkersInv, HandsFit
<1>10. QED
  BY <1>3, <1>7, <1>8, <1>9 DEF WorkersInv, HandsFit, CountsHonest

LEMMA NextWorkersInv == WorkersInv /\ [WorkersNext]_workerVars => WorkersInv'
<1> SUFFICES ASSUME WorkersInv, [WorkersNext]_workerVars PROVE WorkersInv'
  OBVIOUS
<1>1. CASE UNCHANGED workerVars
  BY <1>1 DEF workerVars, handVars, WorkersInv, HandsFit, CountsHonest
<1>2. ASSUME NEW j \in Job, RequestJob(j) \/ Lapse(j) PROVE WorkersInv'
  <2>1. row' = [row EXCEPT ![j].status = "pending"] /\ UNCHANGED handVars
    BY <1>2 DEF RequestJob, Lapse
  <2>2. /\ row' \in [Job -> RowState]
        /\ \A i \in Job : row'[i].status = "claimed" => row'[i].token > 0
    BY <2>1, StatusMoves DEF WorkersInv
  <2>3. QED
    BY <2>1, <2>2 DEF handVars, WorkersInv, HandsFit, CountsHonest
<1>3. ASSUME NEW h \in Hand, NEW j \in Job, NEW refused \in BOOLEAN, StartSelf(h, j, refused)
      PROVE  WorkersInv'
  <2>1. PICK r : r = [status |-> "claimed", token |-> 1]
    OBVIOUS
  <2>2. r \in RowState /\ r.token > 0
    BY <2>1 DEF RowState
  <2>3. /\ row' \in [Job -> RowState]
        /\ \A i \in Job : row'[i].status = "claimed" => row'[i].token > 0
    BY <1>3, <2>1, <2>2, RowMoves DEF StartSelf, WorkersInv
  <2>4. /\ handStage[h] = "idle" /\ UNCHANGED <<page, counted, settled>>
        /\ handStage' = [handStage EXCEPT ![h] = IF refused THEN "idle" ELSE "settling"]
        /\ mine' = [mine EXCEPT ![h] = IF refused THEN {} ELSE {[job |-> j, token |-> 1]}]
    BY <1>3 DEF StartSelf
  <2>5. [job |-> j, token |-> 1] \in Claim
    BY DEF Claim
  <2>6. /\ handStage' \in [Hand -> {"idle", "claiming", "settling", "discarding"}]
        /\ mine' \in [Hand -> SUBSET Claim]
        /\ \A g \in Hand : handStage'[g] = "idle" => mine'[g] = {} /\ page'[g] = {}
    BY <2>4, <2>5 DEF WorkersInv, HandsFit
  <2>7. QED
    BY <2>3, <2>4, <2>6 DEF WorkersInv, HandsFit, CountsHonest
<1>4. ASSUME NEW h \in Hand, HandStep(h) PROVE WorkersInv'
  <2>1. CASE BeginPage(h)
    <3>1. Listed(h) \subseteq Job
      BY ListedJobs
    <3>2. QED
      BY <2>1, <3>1 DEF BeginPage, WorkersInv, HandsFit, CountsHonest
  <2>2. CASE Take(h)
    BY <2>2, TakeStep
  <2>3. CASE (\E answered \in BOOLEAN : Infer(h, answered)) \/ EndPage(h)
    BY <2>3 DEF Infer, EndPage, WorkersInv, HandsFit, CountsHonest
  <2>4. CASE \E c \in mine[h] :
                 AcceptOutput(h, c) \/ Reject(h, c) \/ LoseOne(h, c) \/ LoseBatch(h, c)
    BY <2>4, SettleStep
  <2>5. QED
    BY <1>4, <2>1, <2>2, <2>3, <2>4 DEF HandStep
<1>5. QED
  BY <1>1, <1>2, <1>3, <1>4 DEF WorkersNext

LEMMA AlwaysWorkersInv == WorkersSpec => []WorkersInv
<1>1. WorkersInit => WorkersInv
  BY DEF WorkersInit, WorkersInv, HandsFit, CountsHonest, RowState
<1>2. QED
  BY <1>1, NextWorkersInv, PTL DEF WorkersSpec

(***************************************************************************)
(* Rows and hands keep their types, and a hand at rest holds no claim.     *)
(***************************************************************************)
THEOREM WorkersTyped == WorkersSpec => []WorkersTypeOK
<1>1. WorkersInv => WorkersTypeOK
  BY DEF WorkersInv, HandsFit, WorkersTypeOK, RowState, Claim
<1>2. QED
  BY AlwaysWorkersInv, <1>1, PTL

(***************************************************************************)
(* The combined, extraction and in-session workers report as completed     *)
(* what they did complete, however leases lapse and outputs are refused.   *)
(***************************************************************************)
THEOREM CountsAlwaysHonest == WorkersSpec => []CountsHonest
<1>1. WorkersInv => CountsHonest
  BY DEF WorkersInv
<1>2. QED
  BY AlwaysWorkersInv, <1>1, PTL

-----------------------------------------------------------------------------
(* The two of them side by side *)

LEMMA QueueParts == FairQueueSpec => SummarySpec /\ WorkersSpec
<1>1. QueueInit => SummaryInit /\ WorkersInit
  BY DEF QueueInit
<1>2. [QueueNext]_QueueVars => [SummaryNext]_allVars /\ [WorkersNext]_workerVars
  BY DEF QueueNext, QueueVars
<1>3. QED
  BY <1>1, <1>2, PTL DEF FairQueueSpec, SummarySpec, WorkersSpec

(***************************************************************************)
(* The sessions with their tasks, and the workers with their rows, keep    *)
(* their types when they are run beside each other.                        *)
(***************************************************************************)
THEOREM QueueTyped == FairQueueSpec => []QueueTypeOK
<1>1. SummaryTypeOK /\ WorkersTypeOK => QueueTypeOK
  BY DEF QueueTypeOK
<1>2. QED
  BY <1>1, QueueParts, SummariesTyped, WorkersTyped, PTL
=============================================================================
