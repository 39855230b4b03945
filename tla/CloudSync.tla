----------------------------- MODULE CloudSync -----------------------------
(***************************************************************************)
(* The bridge of the MCP server to the hosted service: one pairing thread  *)
(* beside the thread that serves the tools, the credentials file they      *)
(* leave behind, and the copy each memory_remember sends.  Enrollment has  *)
(* the pairing request itself; here the user approves it or it fails.      *)
(* Python scoping decides what the callback of the pairing does: it        *)
(* assigns _cloud_pairing_info without declaring it global.  "cortex       *)
(* disconnect", a process that removes the file, is left out.              *)
(***************************************************************************)
EXTENDS Naturals, FiniteSets

CONSTANTS Note,        \* what an agent remembers, with its idempotency key
          MaxServers,  \* bound: starts of the server process
          MaxDrops     \* bound: requests to the service that fail

NoGrant == 0

VARIABLES
    up,        \* the server process runs
    servers,   \* starts so far
    info,      \* _cloud_pairing_info["status"], "none" when None
    client,    \* token of _cloud_client, NoGrant when None
    thread,    \* the pairing thread: none | asking | waiting | granted | saved
    grant,     \* token the thread was given
    grants,    \* tokens the service has issued
    file,      \* token in cortex_auth.json
    sync,      \* notes stored locally and queued in _cloud_sync_queue
    flight,    \* notes of sending threads
    cloud,     \* notes the service has
    drops

process == <<up, info, client, thread, grant, sync, flight>>
cloudVars == <<process, servers, grants, file, cloud, drops>>

CloudInit ==
    /\ up = FALSE /\ servers = 0
    /\ info = "none" /\ client = NoGrant
    /\ thread = "none" /\ grant = NoGrant /\ grants = 0 /\ file = NoGrant
    /\ sync = {} /\ flight = {} /\ cloud = {} /\ drops = 0

\* DeviceAuthStore.load: a file with a token, or nothing.
Saved == file # NoGrant

\* init_cloud_sync with credentials on disk.
UseSaved == /\ client' = file
            /\ info' = "authenticated"
            /\ UNCHANGED <<thread, grant>>

(***************************************************************************)
(* Without them a pairing thread is started, unless one is alive.  Tools   *)
(* run one after the other, so the check and the start are one step.       *)
(***************************************************************************)
StartPairing ==
    IF thread = "none"
    THEN thread' = "asking" /\ UNCHANGED <<info, client, grant>>
    ELSE UNCHANGED <<info, client, thread, grant>>

InitCloudSync == IF Saved THEN UseSaved ELSE StartPairing

\* main: a start with --cloud, or with credentials that exist already.
StartServer ==
    /\ ~ up /\ servers < MaxServers
    /\ up' = TRUE /\ servers' = servers + 1
    /\ InitCloudSync
    /\ UNCHANGED <<sync, flight, grants, file, cloud, drops>>

\* cortex_cloud_pair.
TriggerPairing ==
    /\ up /\ InitCloudSync
    /\ UNCHANGED <<up, servers, sync, flight, grants, file, cloud, drops>>

\* The callback assigns a name of its own.
OnInstructions == UNCHANGED info

PairingAsked ==
    /\ thread = "asking"
    /\ thread' = "waiting"
    /\ OnInstructions
    /\ UNCHANGED <<up, client, grant, sync, flight, servers, grants, file, cloud, drops>>

\* The user approves; the token is handed out once.
PairingGranted ==
    /\ thread = "waiting"
    /\ thread' = "granted" /\ grants' = grants + 1 /\ grant' = grants + 1
    /\ UNCHANGED <<up, info, client, sync, flight, servers, file, cloud, drops>>

\* DeviceAuthStore.save replaces the file in one rename.
NextFile == grant

PairingSaved ==
    /\ thread = "granted"
    /\ thread' = "saved" /\ file' = NextFile
    /\ UNCHANGED <<up, info, client, grant, sync, flight, servers, grants, cloud, drops>>

\* Under the lock: the client, the status, and what was queued until now.
PairingDone ==
    /\ thread = "saved"
    /\ client' = grant /\ info' = "authenticated"
    /\ flight' = flight \union sync /\ sync' = {}
    /\ thread' = "none" /\ grant' = NoGrant
    /\ UNCHANGED <<up, servers, grants, file, cloud, drops>>

\* Refused, expired, timed out, or the service is not reached.
PairingFailed ==
    /\ thread \in {"asking", "waiting"}
    /\ thread' = "none" /\ info' = "error"
    /\ UNCHANGED <<up, client, grant, sync, flight, servers, grants, file, cloud, drops>>

-----------------------------------------------------------------------------
(***************************************************************************)
(* memory_remember: stored locally, then sent, kept for later, or neither. *)
(***************************************************************************)
Remember(n) ==
    /\ up /\ n \notin flight
    /\ flight' = IF client # NoGrant THEN flight \union {n} ELSE flight
    /\ sync' = IF client = NoGrant /\ info = "pending_authorization"
               THEN sync \union {n} ELSE sync
    /\ UNCHANGED <<up, info, client, thread, grant, servers, grants, file, cloud, drops>>

(***************************************************************************)
(* The thread posts once, under the key of the note or a hash of its       *)
(* content, by which the service keeps one row; an exception ends it.      *)
(***************************************************************************)
Send(n) ==
    /\ n \in flight
    /\ flight' = flight \ {n}
    /\ cloud' = cloud \union {n}
    /\ UNCHANGED <<up, info, client, thread, grant, sync, servers, grants, file, drops>>

SendFails(n) ==
    /\ n \in flight /\ drops < MaxDrops
    /\ flight' = flight \ {n} /\ drops' = drops + 1
    /\ UNCHANGED <<up, info, client, thread, grant, sync, servers, grants, file, cloud>>

\* The harness ends the server: its daemon threads go with it.
StopServer ==
    /\ up /\ up' = FALSE
    /\ info' = "none" /\ client' = NoGrant
    /\ thread' = "none" /\ grant' = NoGrant /\ sync' = {} /\ flight' = {}
    /\ UNCHANGED <<servers, grants, file, cloud, drops>>

CloudNext ==
    \/ StartServer \/ TriggerPairing \/ StopServer
    \/ PairingAsked \/ PairingGranted \/ PairingSaved \/ PairingDone \/ PairingFailed
    \/ \E n \in Note : Remember(n) \/ Send(n) \/ SendFails(n)

CloudSpec == CloudInit /\ [][CloudNext]_cloudVars

-----------------------------------------------------------------------------
\* Types; a process that does not run holds nothing.
CloudTypeOK ==
    /\ up \in BOOLEAN /\ servers \in Nat
    /\ info \in {"none", "pending_authorization", "authenticated", "error"}
    /\ thread \in {"none", "asking", "waiting", "granted", "saved"}
    /\ {client, grant, file, grants} \subseteq Nat
    /\ sync \subseteq Note /\ flight \subseteq Note
    /\ cloud \subseteq Note /\ drops \in Nat
    /\ ~ up => client = NoGrant /\ thread = "none" /\ flight = {}

(***************************************************************************)
(* A server that says it is authenticated would be so again after a        *)
(* restart, with the very token it uses: no user has to approve twice,     *)
(* whatever moment the process ends at after the status was shown.         *)
(***************************************************************************)
AuthenticatedSurvivesRestart ==
    info = "authenticated" => client # NoGrant /\ file = client

(***************************************************************************)
(* cortex_cloud_status: "Check connection status and pairing state of this *)
(* agent": while the user is asked to approve, the status says so.         *)
(***************************************************************************)
PairingShown == thread = "waiting" => info = "pending_authorization"
=============================================================================
