---------------------------- MODULE TaskContract ----------------------------
(***************************************************************************)
(* What the inference queue promises its callers, without workers, leases, *)
(* retries or time: a task is asked for, is handed out under grants that   *)
(* are never reused, and is settled at most once, by the grant in force,   *)
(* or given up with no outcome.                                            *)
(***************************************************************************)
EXTENDS Integers

CONSTANTS Task

VARIABLES phase,    \* task -> absent | open | granted | done | dead
          grant,    \* task -> the grant in force, 0 when there is none
          lastGrant,
          outcome   \* set of <<task, grant>>: whose work was kept

contractVars == <<phase, grant, lastGrant, outcome>>

Init == /\ phase \in [Task -> {"absent", "granted"}]
        /\ grant = [t \in Task |-> 0]
        /\ lastGrant = 0
        /\ outcome = {}

Submit(t) ==
    /\ phase[t] = "absent"
    /\ phase' = [phase EXCEPT ![t] = "open"]
    /\ UNCHANGED <<grant, lastGrant, outcome>>

Grant(t) ==
    /\ phase[t] \in {"open", "granted"}
    /\ lastGrant' = lastGrant + 1
    /\ phase' = [phase EXCEPT ![t] = "granted"]
    /\ grant' = [grant EXCEPT ![t] = lastGrant']
    /\ UNCHANGED outcome

\* The work done under the grant in force is kept.
Keep(t) ==
    /\ phase[t] = "granted" /\ grant[t] # 0
    /\ phase' = [phase EXCEPT ![t] = "done"]
    /\ grant' = [grant EXCEPT ![t] = 0]
    /\ outcome' = outcome \union {<<t, grant[t]>>}
    /\ UNCHANGED lastGrant

\* Grants are withdrawn: each task is open again or given up.
Withdraw(S) ==
    /\ \A t \in S : phase[t] = "granted"
    /\ phase' \in [Task -> {"absent", "open", "granted", "done", "dead"}]
    /\ \A t \in Task : IF t \in S THEN phase'[t] \in {"open", "dead"}
                                  ELSE phase'[t] = phase[t]
    /\ grant' = [t \in Task |-> IF t \in S THEN 0 ELSE grant[t]]
    /\ UNCHANGED <<lastGrant, outcome>>

Next == \/ \E t \in Task : Submit(t) \/ Grant(t) \/ Keep(t)
        \/ \E S \in SUBSET Task : Withdraw(S)

Spec == Init /\ [][Next]_contractVars
=============================================================================
