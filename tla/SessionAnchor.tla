----------------------------- MODULE SessionAnchor -----------------------------
(***************************************************************************)
(* Anchoring of a session's root (anchor_session_root of store.py): the    *)
(* oracle is asked whether the agent is registered, the head of the        *)
(* session's exchange chain is read, and the head and the length of the    *)
(* chain are posted to a consumer, either one of any kind or CORE, which   *)
(* wants the profile registered first and drops a post whose key it has.   *)
(* The calls go over a network; meanwhile the chain grows, the telemetry   *)
(* under it is removed, and the agent comes and goes at the oracle.        *)
(***************************************************************************)
EXTENDS Integers, Sequences, FiniteSets

CONSTANTS
    Session, Caller,
    MaxLength,  \* bound on the exchanges of a session
    MaxCalls    \* bound on anchorings

ASSUME AnchorAssumption ==
    {MaxLength, MaxCalls} \subseteq Nat

\* Whether XIBALBA_ANCHOR_URL is CORE's memory endpoint, and whether
\* XIBALBA_ORACLE_URL, an agent identity and XIBALBA_ANCHOR_TOKEN are set.
Settings == [core : BOOLEAN, oracle : BOOLEAN, agent : BOOLEAN, token : BOOLEAN]

\* What GET /v1/agent answers: registered here, only known on chain, unknown.
Standing == {"registered", "backfilled", "unknown"}

VARIABLES
    settings,  \* of the installation
    length,    \* Session -> exchanges in its chain; a node is its place in it
    broken,    \* sessions whose chain no longer verifies
    standing,  \* the agent at the oracle
    profile,   \* TRUE once CORE has the profile
    held,      \* what the consumer took: [session, root, count, key]
    caller,    \* Caller -> its call
    result,    \* what calls reported anchored: [session, root]
    calls

anchorVars == <<settings, length, broken, standing, profile, held, caller, result, calls>>

Ready == [at |-> "ready"]
AnchorInit ==
    /\ settings \in Settings
    /\ length = [s \in Session |-> 0] /\ broken = {}
    /\ standing \in Standing /\ profile = FALSE
    /\ held = <<>> /\ result = {} /\ calls = 0
    /\ caller = [c \in Caller |-> Ready]

At(c, place) == caller[c].at = place
Back(c)      == caller' = [caller EXCEPT ![c] = Ready]
Refuse(c)    == Back(c) /\ UNCHANGED result
Env          == <<settings, length, broken, standing>>

Grow(s) ==
    /\ length[s] < MaxLength /\ length' = [length EXCEPT ![s] = @ + 1]
    /\ UNCHANGED <<settings, broken, standing, profile, held, caller, result, calls>>

Break(s) ==
    /\ length[s] > 0 /\ broken' = broken \cup {s}
    /\ UNCHANGED <<settings, length, standing, profile, held, caller, result, calls>>

RegisterAgent(x) ==
    /\ standing # x /\ standing' = x
    /\ UNCHANGED <<settings, length, broken, profile, held, caller, result, calls>>

Anchor(c, s) ==
    /\ At(c, "ready") /\ calls < MaxCalls /\ calls' = calls + 1
    /\ caller' = [caller EXCEPT ![c] =
                     [at |-> IF settings.oracle /\ settings.agent THEN "ask" ELSE "root",
                      session |-> s]]
    /\ UNCHANGED <<Env, profile, held, result>>

\* 200 counts only with oracle_registered in the body; 404 is a refusal.
Denies(x) == x \in {"backfilled", "unknown"}

\* An answer decides; no answer, or any other error, does not block.
AskOracle(c, answers) ==
    /\ At(c, "ask")
    /\ IF answers /\ Denies(standing)
         THEN Refuse(c)
       ELSE /\ caller' = [caller EXCEPT ![c].at = "root"]
            /\ UNCHANGED result
    /\ UNCHANGED <<Env, profile, held, calls>>

\* session_merkle_root: head and length out of one verification of the chain.
ReadRoot(c) ==
    /\ At(c, "root")
    /\ LET s == caller[c].session IN
         IF s \in broken \/ length[s] = 0
           THEN Refuse(c)
         ELSE IF settings.core /\ ~(settings.agent /\ settings.token)
           THEN Refuse(c)
         ELSE /\ caller' = [caller EXCEPT ![c] =
                               [at |-> IF settings.core THEN "profile" ELSE "post",
                                session |-> s, root |-> length[s]]]
              /\ UNCHANGED result
    /\ UNCHANGED <<Env, profile, held, calls>>

\* CORE gets the request or not; the caller gets its answer or not.
RegisterProfile(c, arrives, answers) ==
    /\ At(c, "profile") /\ (answers => arrives)
    /\ profile' = (profile \/ arrives)
    /\ IF answers THEN caller' = [caller EXCEPT ![c].at = "post"] /\ UNCHANGED result
       ELSE Refuse(c)
    /\ UNCHANGED <<Env, held, calls>>

\* Mutant of AnchorKey: one key for all the roots of a session.
KeyOfSession(s, root) == <<s>>
AnchorKey(s, root) == <<s, root>>
Holds(k) == \E i \in DOMAIN held : held[i].key = k

Post(c, arrives, answers) ==
    /\ At(c, "post") /\ (answers => arrives)
    /\ LET s == caller[c].session
           root == caller[c].root
       IN  /\ held' = IF arrives /\ ~(settings.core /\ Holds(AnchorKey(s, root)))
                        THEN Append(held, [session |-> s, root |-> root, count |-> root,
                                           key |-> AnchorKey(s, root)])
                      ELSE held
           /\ result' = IF answers THEN result \cup {[session |-> s, root |-> root]} ELSE result
           /\ Back(c)
    /\ UNCHANGED <<Env, profile, calls>>

AnchorNext ==
    \/ \E s \in Session : Grow(s) \/ Break(s)
    \/ \E x \in Standing : RegisterAgent(x)
    \/ \E c \in Caller : \/ \E s \in Session : Anchor(c, s)
                         \/ ReadRoot(c)
                         \/ \E b \in BOOLEAN : AskOracle(c, b)
                         \/ \E a, b \in BOOLEAN : RegisterProfile(c, a, b) \/ Post(c, a, b)

AnchorSpec == AnchorInit /\ [][AnchorNext]_anchorVars

-----------------------------------------------------------------------------
\* The state has its type.
AnchorTypeOK ==
    /\ length \in [Session -> 0..MaxLength] /\ broken \subseteq Session
    /\ standing \in Standing /\ profile \in BOOLEAN
    /\ \A i \in DOMAIN held : held[i].root \in 1..length[held[i].session]

\* An anchoring reported done is held by the consumer, root and length as the
\* caller had them; CORE holds each root once, with the profile known before,
\* whatever requests and answers are lost and whoever retries
\* (store.py:4777-4815).
AnchoredIsHeld ==
    /\ \A r \in result :
          \E i \in DOMAIN held : held[i].session = r.session /\ held[i].root = r.root
    /\ settings.core =>
          /\ held # <<>> => profile
          /\ \A i, j \in DOMAIN held :
                held[i].session = held[j].session /\ held[i].root = held[j].root => i = j
=============================================================================
