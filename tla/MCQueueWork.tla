----------------------------- MODULE MCQueueWork -----------------------------
(***************************************************************************)
(* Small instances of what works on the inference queue besides the queue  *)
(* itself: the summaries of closed sessions, with the life of their tasks, *)
(* and the workers that list, claim and settle tasks of all kinds. The     *)
(* workers have rows of their own here, so a behaviour is about one of the *)
(* two, focus, chosen at the start; the other stays as it began.           *)
(***************************************************************************)
EXTENDS SessionSummaries, InferenceWorkers, TLC

CONSTANTS s1, w1, w2, hermes

\* One session; its summary tasks are executed by workers of one harness.
SummaryTasks == Session \X (1 .. SummaryLimit)
OneHarness   == [w \in Worker |-> hermes]
ForHarness   == [t \in SummaryTasks |-> hermes]

\* Four jobs about three memories, one of them gone; the first is nobody's here.
Subjects == <<"m1", "m1", "m2", "m3">>
Kinds    == <<"entities", "contradictions", "relations", "entities">>
Routes   == <<"custom", "none", "hermes", "in_session">>
Families == "c" :> "combined" @@ "x" :> "extraction" @@ "k" :> "contradiction"
            @@ "s" :> "in_session"

VARIABLE focus

Focus == {"summaries", "workers"}

QueueVars ==
    <<allVars, workerVars, focus>>

QueueNext ==
    \/ /\ focus = "summaries" /\ SummaryNext
       /\ UNCHANGED <<workerVars, focus>>
    \/ /\ focus = "workers" /\ WorkersNext
       /\ UNCHANGED <<allVars, focus>>

QueueInit == focus \in Focus /\ SummaryInit /\ WorkersInit

FairQueueSpec ==
    QueueInit /\ [][QueueNext]_QueueVars /\ SummaryFairness /\ WorkersFairness

\* The state of each part has its type.
QueueTypeOK == SummaryTypeOK /\ WorkersTypeOK
=============================================================================
