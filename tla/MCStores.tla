----------------------------- MODULE MCStores -----------------------------
(***************************************************************************)
(* Small instances of what writes into a store and reads from it: the      *)
(* store's own file, its graph and its searches, and the runtimes,         *)
(* receivers, pollers and collectors that capture into it.  They share no  *)
(* state, so a behaviour is about one of them, focus, chosen at the start; *)
(* the others stay as they began.                                          *)
(***************************************************************************)
EXTENDS StoreFiles, KnowledgeGraph, Retrieval, RuntimeStream, RuntimeSessions,
        TelemetryIngest, TranscriptIngest, CodexBackfill, HookWatermark, TLC

CONSTANTS x1, x2, m1, m2, a1, a2, b1, b2

Ids   == x1 :> "bge" @@ x2 :> "other"
Ask(a, t, v, e) == [agent |-> a, statuses |-> t, vector |-> v, exact |-> e]
Asks2 == {Ask(a1, Eligible, TRUE, {m1}),
          Ask(Anyone, Eligible \union {"candidate"}, FALSE, {})}

InOne == "c" :> "s"

Ln(s, p, b) == [session |-> s, prompt |-> p, blocks |-> b]
Scripts ==
    "t" :> <<Ln("s1", TRUE, <<"text">>), Ln("s1", FALSE, <<"call">>)>>
    @@ "u" :> <<Ln("s2", TRUE, <<"text">>)>>

\* Processes of a kind are alike.  Only one part moves in a behaviour, so all
\* kinds are exchanged at once.
Exchanged(S) == CHOOSE f \in Permutations(S) : \A x \in S : f[x] # x
OtherSide ==
    Exchanged(Runner) @@ Exchanged(Streamer) @@ Exchanged(Receiver)
    @@ Exchanged(Process) @@ Exchanged(Opener) @@ Exchanged({b1, b2})
StoresSymmetry ==
    {[x \in DOMAIN OtherSide |-> IF swapped THEN OtherSide[x] ELSE x] : swapped \in BOOLEAN}

VARIABLE focus

Focus == {"files", "graph", "recall", "stream", "sessions", "ingest", "capture", "codex",
          "watermark"}

StoresInit ==
    /\ focus \in Focus
    /\ FilesInit /\ (focus # "files" => file = FileOf(LatestVersion, OurProfile) /\ copy = {})
    /\ GraphInit /\ RetrievalInit /\ StreamInit /\ RuntimeInit /\ IngestInit /\ CaptureInit
    /\ CodexInit /\ WatermarkInit

StoresVars == <<filesVars, graphVars, recallVars, streamVars, runtimeVars, ingestVars,
                captureVars, codexVars, watermarkVars, focus>>

StoresNext ==
    \/ /\ focus = "files" /\ FilesNext
       /\ UNCHANGED <<graphVars, recallVars, streamVars, runtimeVars, ingestVars, captureVars,
                      codexVars, watermarkVars, focus>>
    \/ /\ focus = "graph" /\ GraphNext
       /\ UNCHANGED <<filesVars, recallVars, streamVars, runtimeVars, ingestVars, captureVars,
                      codexVars, watermarkVars, focus>>
    \/ /\ focus = "recall" /\ RetrievalNext
       /\ UNCHANGED <<filesVars, graphVars, streamVars, runtimeVars, ingestVars, captureVars,
                      codexVars, watermarkVars, focus>>
    \/ /\ focus = "stream" /\ StreamNext
       /\ UNCHANGED <<filesVars, graphVars, recallVars, runtimeVars, ingestVars, captureVars,
                      codexVars, watermarkVars, focus>>
    \/ /\ focus = "sessions" /\ RuntimeNext
       /\ UNCHANGED <<filesVars, graphVars, recallVars, streamVars, ingestVars, captureVars,
                      codexVars, watermarkVars, focus>>
    \/ /\ focus = "ingest" /\ IngestNext
       /\ UNCHANGED <<filesVars, graphVars, recallVars, streamVars, runtimeVars, captureVars,
                      codexVars, watermarkVars, focus>>
    \/ /\ focus = "capture" /\ CaptureNext
       /\ UNCHANGED <<filesVars, graphVars, recallVars, streamVars, runtimeVars, ingestVars,
                      codexVars, watermarkVars, focus>>
    \/ /\ focus = "codex" /\ CodexNext
       /\ UNCHANGED <<filesVars, graphVars, recallVars, streamVars, runtimeVars, ingestVars,
                      captureVars, watermarkVars, focus>>
    \/ /\ focus = "watermark" /\ WatermarkNext
       /\ UNCHANGED <<filesVars, graphVars, recallVars, streamVars, runtimeVars, ingestVars,
                      captureVars, codexVars, focus>>

StoresSpec == StoresInit /\ [][StoresNext]_StoresVars

\* The state of each part has its type.
StoresTypeOK ==
    /\ FilesTypeOK /\ GraphTypeOK /\ RetrievalTypeOK /\ StreamTypeOK /\ RuntimeTypeOK
    /\ IngestTypeOK /\ CaptureTypeOK /\ CodexTypeOK

(***************************************************************************)
(* Collectors can be believed: the backfill asks for one answer of a turn  *)
(* (OneAnswerPerTurn) and the hook report counts what arrived              *)
(* (ReportIsHonest).                                                       *)
(***************************************************************************)
CollectorsHold == OneAnswerPerTurn /\ ReportIsHonest
=============================================================================
