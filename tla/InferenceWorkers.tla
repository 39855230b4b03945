-------------------------- MODULE InferenceWorkers --------------------------
(***************************************************************************)
(* What the workers do with the inference queue: which rows they list,     *)
(* claim and settle, one after the other.  process_combined_tasks takes    *)
(* the tasks of several memories to one model call; the extraction, PARA   *)
(* and contradiction workers make one call per task; an agent in its own   *)
(* session requests, claims and answers one task.  The leases, and what a  *)
(* completion writes, are in InferenceTasks: here a row is its status and  *)
(* the token of its claim, and a lease that lapses is requeued at once.    *)
(*                                                                         *)
(* A list is ordered by created_at: jobs are numbered in that order.       *)
(***************************************************************************)
EXTENDS Naturals, FiniteSets, FiniteSetsExt

CONSTANTS
    Subject,   \* [1 .. n -> memory]: job -> subject_id
    TaskKind,  \* job -> "entities" | "relations" | "para" | "contradictions"
    Route,     \* job -> provider_id of its contract, "none" when absent
    Missing,   \* memories of which only tasks are left
    Hand,      \* the callers of the queue
    Family,    \* hand -> "combined" | "extraction" | "para" | "contradiction" | "in_session"
    PageSize,  \* limit: memories of a combined call, tasks of another page
    MaxLapses  \* bound: leases that lapse under their worker

Job == DOMAIN Subject

ASSUME WorkersAssumption ==
    /\ Job \subseteq Nat      \* numbered by created_at
    /\ PageSize \in Nat \ {0} /\ MaxLapses \in Nat

VARIABLES
    row,        \* job -> [status, token]: token counts the claims of the row
    handStage,  \* hand -> idle | claiming | settling | discarding
    page,       \* hand -> listed jobs it has not reached yet
    mine,       \* hand -> claims [job, token] it has not settled
    counted,    \* hand -> jobs its results call completed
    settled,    \* hand -> jobs it did complete
    lapses

handVars == <<handStage, page, mine, counted, settled>>
workerVars == <<row, handVars, lapses>>

IsCombined(h) == Family[h] = "combined"

\* The task types each worker asks for.
TaskTypes(h) ==
    CASE Family[h] = "combined"      -> {"para", "entities", "relations"}
      [] Family[h] = "extraction"    -> {"entities", "relations"}
      [] Family[h] = "para"          -> {"para"}
      [] Family[h] = "contradiction" -> {"contradictions"}
      [] Family[h] = "in_session"    -> {}

Handles(h, j) ==
    /\ TaskKind[j] \in TaskTypes(h)
    /\ Route[j] \in {"none", "hermes", "native_harness"}

Pending(j) == row[j].status = "pending"
Oldest(S, n) == {j \in S : Cardinality({i \in S : i < j}) < n}

First(S, m) == Min({k \in S : Subject[k] = m})

(***************************************************************************)
(* Grouping by memory stops at a task of an earlier memory once PageSize   *)
(* memories were met; the first PageSize memories are taken.               *)
(***************************************************************************)
GroupingStops(S, i) ==
    LET met == {Subject[k] : k \in {l \in S : l <= i}} IN
    /\ Cardinality(met) >= PageSize
    /\ \E m \in met : First(S, m) > First(S, Subject[i])

Grouped(S) ==
    {i \in S :
        /\ Cardinality({m \in {Subject[k] : k \in S} :
                            First(S, m) < First(S, Subject[i])}) < PageSize
        /\ \A k \in S : k < i => ~ GroupingStops(S, k)}

\* Mutant of Listed: the page is taken first, and filtered afterwards.
ListedAfterwards(h) ==
    {j \in Oldest({i \in Job : Pending(i)}, PageSize) : Handles(h, j)}

\* list_inference_tasks, and the part of its answer that is worked on.
Listed(h) ==
    LET all == {j \in Job : Pending(j) /\ Handles(h, j)} IN
    IF IsCombined(h) THEN Grouped(all) ELSE Oldest(all, PageSize)

ClaimOf(j) == [job |-> j, token |-> row[j].token]
Holds(c) == row[c.job] = [status |-> "claimed", token |-> c.token]
Orphan(c) == Subject[c.job] \in Missing

WorkersInit ==
    /\ row = [j \in Job |-> [status |-> "absent", token |-> 0]]
    /\ handStage = [h \in Hand |-> "idle"]
    /\ page = [h \in Hand |-> {}]
    /\ mine = [h \in Hand |-> {}]
    /\ counted = [h \in Hand |-> {}]
    /\ settled = [h \in Hand |-> {}]
    /\ lapses = 0

-----------------------------------------------------------------------------
RequestJob(j) ==
    /\ row[j].status = "absent" /\ Route[j] # "in_session"
    /\ row' = [row EXCEPT ![j].status = "pending"]
    /\ UNCHANGED <<handVars, lapses>>

(***************************************************************************)
(* start_self_extraction requests and claims.  Then it reads the evidence: *)
(* if that is refused the caller never learns the token of the claim.      *)
(***************************************************************************)
StartSelf(h, j, refused) ==
    /\ Family[h] = "in_session" /\ Route[j] = "in_session"
    /\ handStage[h] = "idle" /\ row[j].status = "absent"
    /\ row' = [row EXCEPT ![j] = [status |-> "claimed", token |-> 1]]
    /\ handStage' = [handStage EXCEPT ![h] = IF refused THEN "idle" ELSE "settling"]
    /\ mine' = [mine EXCEPT ![h] = IF refused THEN {} ELSE {[job |-> j, token |-> 1]}]
    /\ UNCHANGED <<page, counted, settled, lapses>>

BeginPage(h) ==
    /\ handStage[h] = "idle" /\ Listed(h) # {}
    /\ handStage' = [handStage EXCEPT ![h] = "claiming"]
    /\ page' = [page EXCEPT ![h] = Listed(h)]
    /\ UNCHANGED <<row, mine, counted, settled, lapses>>

\* Every worker claims as "hermes", whatever the routes it lists.
Takeable(j) == Pending(j) /\ Route[j] \in {"none", "hermes"}

\* A refused claim is skipped; a combined batch claims on before it infers.
Take(h) ==
    /\ handStage[h] = "claiming" /\ page[h] # {}
    /\ IF IsCombined(h) THEN \A c \in mine[h] : ~ Orphan(c) ELSE mine[h] = {}
    /\ LET j == Min(page[h]) IN
       /\ page' = [page EXCEPT ![h] = @ \ {j}]
       /\ IF Takeable(j)
          THEN /\ row' = [row EXCEPT ![j] = [status |-> "claimed", token |-> @.token + 1]]
               /\ mine' = [mine EXCEPT ![h] = @ \union {[job |-> j, token |-> row[j].token + 1]}]
          ELSE UNCHANGED <<row, mine>>
    /\ UNCHANGED <<handStage, counted, settled, lapses>>

\* The model call, and its one repair: a usable answer, or none.
Infer(h, answered) ==
    /\ handStage[h] = "claiming" /\ mine[h] # {}
    /\ IsCombined(h) => page[h] = {}
    /\ \A c \in mine[h] : ~ Orphan(c)
    /\ handStage' = [handStage EXCEPT ![h] = IF answered THEN "settling" ELSE "discarding"]
    /\ UNCHANGED <<row, page, mine, counted, settled, lapses>>

EndPage(h) ==
    /\ handStage[h] # "idle" /\ page[h] = {} /\ mine[h] = {}
    /\ handStage' = [handStage EXCEPT ![h] = "idle"]
    /\ UNCHANGED <<row, page, mine, counted, settled, lapses>>

ClaimSettled(h, c) ==
    /\ mine' = [mine EXCEPT ![h] = @ \ {c}]
    /\ handStage' = [handStage EXCEPT ![h] = IF IsCombined(h) THEN @ ELSE "claiming"]
    /\ UNCHANGED <<page, lapses>>

AcceptOutput(h, c) ==
    /\ c \in mine[h] /\ handStage[h] = "settling" /\ Holds(c)
    /\ row' = [row EXCEPT ![c.job].status = "completed"]
    /\ counted' = [counted EXCEPT ![h] = @ \union {c.job}]
    /\ settled' = [settled EXCEPT ![h] = @ \union {c.job}]
    /\ ClaimSettled(h, c)

\* Mutant of CountsRejected: the status of the completed row is not looked at.
CountsAnyRejected(h) == handStage[h] = "settling"

\* Output the store refuses is a failed row; who counts it as completed.
CountsRejected(h) == handStage[h] = "settling" /\ Family[h] \in {"para", "contradiction"}

Reject(h, c) ==
    /\ c \in mine[h] /\ (handStage[h] \in {"settling", "discarding"} \/ Orphan(c))
    /\ Holds(c)
    /\ row' = [row EXCEPT ![c.job].status = "failed"]
    /\ counted' = IF CountsRejected(h) THEN [counted EXCEPT ![h] = @ \union {c.job}]
                  ELSE counted
    /\ ClaimSettled(h, c)
    /\ UNCHANGED settled

\* A completion that raises out of the combined worker, and ends it.
Escapes(h, c) ==
    /\ IsCombined(h)
    /\ handStage[h] = "settling" => row[c.job].status = "claimed"

LoseOne(h, c) ==
    /\ c \in mine[h] /\ (handStage[h] \in {"settling", "discarding"} \/ Orphan(c))
    /\ ~ Holds(c) /\ ~ Escapes(h, c)
    /\ ClaimSettled(h, c)
    /\ UNCHANGED <<row, counted, settled>>

LoseBatch(h, c) ==
    /\ c \in mine[h] /\ (handStage[h] \in {"settling", "discarding"} \/ Orphan(c))
    /\ ~ Holds(c) /\ Escapes(h, c)
    /\ handStage' = [handStage EXCEPT ![h] = "idle"]
    /\ page' = [page EXCEPT ![h] = {}]
    /\ mine' = [mine EXCEPT ![h] = {}]
    /\ UNCHANGED <<row, counted, settled, lapses>>

\* A claim some caller still means to settle.
HandAttends(j) == \E h \in Hand : ClaimOf(j) \in mine[h]

Lapse(j) ==
    /\ row[j].status = "claimed"
    /\ HandAttends(j) => lapses < MaxLapses
    /\ row' = [row EXCEPT ![j].status = "pending"]
    /\ lapses' = IF HandAttends(j) THEN lapses + 1 ELSE lapses
    /\ UNCHANGED handVars

HandStep(h) ==
    \/ BeginPage(h)
    \/ Take(h)
    \/ \E answered \in BOOLEAN : Infer(h, answered)
    \/ EndPage(h)
    \/ \E c \in mine[h] : AcceptOutput(h, c) \/ Reject(h, c) \/ LoseOne(h, c) \/ LoseBatch(h, c)

WorkersNext ==
    \/ \E j \in Job : RequestJob(j) \/ Lapse(j)
    \/ \E h \in Hand, j \in Job, refused \in BOOLEAN : StartSelf(h, j, refused)
    \/ \E h \in Hand : HandStep(h)

(***************************************************************************)
(* The daemon cycles for ever and a model call times out; a lease nobody   *)
(* attends to runs out and is requeued.                                    *)
(***************************************************************************)
WorkersFairness ==
    /\ \A h \in Hand : WF_workerVars(HandStep(h))
    /\ \A j \in Job : WF_workerVars(~ HandAttends(j) /\ Lapse(j))

WorkersSpec == WorkersInit /\ [][WorkersNext]_workerVars
FairWorkersSpec == WorkersSpec /\ WorkersFairness

-----------------------------------------------------------------------------
\* Claims are held by busy hands only, and no row is claimed at zero.
WorkersTypeOK ==
    /\ row \in [Job -> [status : {"absent", "pending", "claimed", "completed", "failed"},
                        token : Nat]]
    /\ handStage \in [Hand -> {"idle", "claiming", "settling", "discarding"}]
    /\ \A h \in Hand : /\ page[h] \subseteq Job /\ {c.job : c \in mine[h]} \subseteq Job
                       /\ counted[h] \subseteq Job /\ settled[h] \subseteq Job
                       /\ handStage[h] = "idle" => mine[h] = {} /\ page[h] = {}
    /\ \A j \in Job : row[j].status = "claimed" => row[j].token > 0

(***************************************************************************)
(* What a worker reports as completed is what it completed, also when      *)
(* leases lapse and the store turns output down.  The PARA and the         *)
(* contradiction worker are left out: they do not look at the row          *)
(* complete_inference_task returns, and count a rejected output as         *)
(* completed.                                                              *)
(***************************************************************************)
CountsHonest ==
    \A h \in Hand : Family[h] \notin {"para", "contradiction"} => counted[h] = settled[h]

(***************************************************************************)
(* No task a worker could claim waits for ever behind older tasks: pages   *)
(* are filtered before they are cut ("so PARA tasks are not starved").     *)
(***************************************************************************)
NotStarved ==
    \A j \in Job : Route[j] \in {"none", "hermes"} =>
        (row[j].status \in {"pending", "claimed"} ~> row[j].status \in {"completed", "failed"})
=============================================================================
