----------------------------- MODULE SeekDoors -----------------------------
(***************************************************************************)
(* The doors of the API process: the routes of src/index.js, the gateway's *)
(* key and state checks (verifyGatewayKey.js), the guard of the GraphQL    *)
(* endpoints (localOnly.js), and where the orchestrator calls these        *)
(* endpoints from: the API process itself or, for v1 over Kafka, the seek  *)
(* consumer, which docker-compose.yml puts into a container of its own.    *)
(* Settings are read when a process starts.  The operator who rotates the  *)
(* gateway's key and the central APISIX, which adds it, are external.      *)
(***************************************************************************)
EXTENDS Naturals

CONSTANTS
  Call,         \* seek calls
  Key,          \* API keys the operator may use
  State,        \* LGD codes of states
  Home,         \* the state this deployment serves
  Blank,        \* an absent header, or an entry or setting left empty
  MaxRestarts   \* bound: restarts of the API process

ASSUME DoorsAssumption ==
  /\ Home \in State
  /\ Blank \notin Key \cup State
  /\ MaxRestarts \in Nat

VARIABLES
  settings,     \* the other settings, which do not change here
  env,          \* the entries of GATEWAY_API_KEYS in .env
  loaded,       \* those the running process was started with
  apisix,       \* the key APISIX adds; Blank: it does not route to us
  restarts,
  stage,        \* where each call is
  door,         \* the route it takes
  carried,      \* its X-API-Key
  wanted,       \* its X-State-LGD-Code
  verified,     \* calls that passed verifyToken
  outcome,      \* how it ended
  reads,        \* on whose behalf tables were read
  early,        \* keys APISIX was given before a restart loaded them (history)
  late          \* calls on their way when a restart forgot their key (history)

keyVars  == <<env, loaded, apisix, restarts, early, late>>
callVars == <<stage, door, carried, wanted, verified, outcome>>
vars == <<settings, keyVars, callVars, reads>>

Door == {"v1", "v2", "gateway"}

Settings == [localOnly : BOOLEAN, encryption : BOOLEAN, kafka : BOOLEAN,
             stateCode : {Blank, Home},
             url : {"loopback", "named"},            \* the *_GRAPHQL_URL
             layout : {"one_host", "containers"}]

\* A caller of the GraphQL endpoints that is none of our processes.
Outsider == "outsider"

Refusal == {"NOT_FOUND", "MISSING_API_KEY", "INVALID_API_KEY", "MISSING_STATE_CODE",
            "STATE_MISMATCH", "bad_token"}

TypeOK ==
  /\ settings \in Settings
  /\ env \subseteq Key \cup {Blank} /\ loaded \subseteq Key \cup {Blank}
  /\ apisix \in Key \cup {Blank}
  /\ restarts \in 0..MaxRestarts
  /\ stage \in [Call -> {"new", "arriving", "verify", "seek", "answer", "done", "cut"}]
  /\ door \in [Call -> Door]
  /\ carried \in [Call -> Key \cup {Blank}]
  /\ wanted \in [Call -> State \cup {Blank}]
  /\ verified \subseteq Call
  /\ outcome \in [Call -> Refusal \cup {"none", "plain", "sealed", "error", "unreachable"}]
  /\ reads \subseteq Call \cup {Outsider}
  /\ early \subseteq Key /\ late \subseteq Call

\* The gateway is not connected yet, or has one key.
Init ==
  /\ settings \in Settings
  /\ env \in {{Blank}} \cup {{k} : k \in Key}
  /\ loaded = env
  /\ apisix \in env
  /\ restarts = 0
  /\ stage = [c \in Call |-> "new"]
  /\ door = [c \in Call |-> "v1"]
  /\ carried = [c \in Call |-> Blank]
  /\ wanted = [c \in Call |-> Blank]
  /\ verified = {}
  /\ outcome = [c \in Call |-> "none"]
  /\ reads = {}
  /\ early = {} /\ late = {}

-----------------------------------------------------------------------------
(* The operator and APISIX, as verifyGatewayKey.js:9-11 tells them to act: *)
(* it does not say when to restart, nor to wait for calls on their way.    *)

\* The new key is added beside the old one.
AddKey(k) ==
  /\ k \notin env
  /\ env' = env \cup {k}
  /\ UNCHANGED <<settings, loaded, apisix, restarts, early, late, callVars, reads>>

\* APISIX is given another key of the list, which the running process may or
\* may not have been started with.
SwitchApisix(k) ==
  /\ k \in env
  /\ apisix' = k
  /\ early' = early \cup ({k} \ loaded)
  /\ UNCHANGED <<settings, env, loaded, restarts, late, callVars, reads>>

\* The old key is removed.
RemoveKey(k) ==
  /\ k \in env \ {apisix}
  /\ env' = env \ {k}
  /\ UNCHANGED <<settings, loaded, apisix, restarts, early, late, callVars, reads>>

\* Mutant: the consumer resolves every call once USE_KAFKA is on.
RunsInByFlag(c) == IF settings.kafka THEN "consumer" ELSE "app"

\* v1 over Kafka is resolved by the seek consumer, all else in the API process.
RunsIn(c) == IF door[c] = "v1" /\ settings.kafka THEN "consumer" ELSE "app"

\* The API process is started again, with .env as it is now; what it was
\* doing is cut off.
Restart ==
  /\ restarts < MaxRestarts
  /\ restarts' = restarts + 1
  /\ loaded' = env
  /\ early' = {}
  /\ late' = late \cup {c \in Call : stage[c] = "arriving" /\ carried[c] \notin env}
  /\ stage' = [c \in Call |->
       IF stage[c] = "verify" \/ (stage[c] \in {"seek", "answer"} /\ RunsIn(c) = "app")
       THEN "cut" ELSE stage[c]]
  /\ UNCHANGED <<settings, env, apisix, door, carried, wanted, verified, outcome, reads>>

-----------------------------------------------------------------------------
(* A call up to verifyToken.                                               *)

\* An AIU calls one of the direct routes.
CallsDirectly(c) ==
  /\ stage[c] = "new"
  /\ stage' = [stage EXCEPT ![c] = "arriving"]
  /\ \E d \in {"v1", "v2"} : door' = [door EXCEPT ![c] = d]
  /\ UNCHANGED <<settings, keyVars, carried, wanted, verified, outcome, reads>>

\* APISIX sends a call on with the key it has, perhaps to the wrong state; or
\* someone calls the gateway's route without it.
CallsGateway(c) ==
  /\ stage[c] = "new"
  /\ stage' = [stage EXCEPT ![c] = "arriving"]
  /\ door' = [door EXCEPT ![c] = "gateway"]
  /\ \E k \in {apisix, Blank} : carried' = [carried EXCEPT ![c] = k]
  /\ \E s \in State \cup {Blank} : wanted' = [wanted EXCEPT ![c] = s]
  /\ UNCHANGED <<settings, keyVars, verified, outcome, reads>>

Configured == loaded \ {Blank}

\* Mutant: GATEWAY_API_KEYS is compared as one value.
KeyIsTheOnlyOne(presented) == Configured = {presented}

KeyIsValid(presented) == presented \in Configured

\* Mutant: only a header that is there is compared.
StateIsOursIfSaid(c) == settings.stateCode = Blank \/ wanted[c] \in {Blank, settings.stateCode}

\* An unset STATE_LGD_CODE turns this check off.
StateIsOurs(c) == settings.stateCode \in {Blank, wanted[c]}

Ends(c, how) ==
  /\ stage' = [stage EXCEPT ![c] = "done"]
  /\ outcome' = [outcome EXCEPT ![c] = how]

\* Mutant: an unmatched route falls through to Express's own page.
TurnedAwayUnhandled(c) ==
  /\ stage[c] = "arriving" /\ door[c] = "gateway"
  /\ Configured = {} /\ Ends(c, "Cannot POST")
  /\ UNCHANGED <<settings, keyVars, door, carried, wanted, verified, reads>>

\* The route is not registered without a key; then verifyGatewayKey and
\* verifyGatewayState, in this order.
TurnedAway(c) ==
  /\ stage[c] = "arriving" /\ door[c] = "gateway"
  /\ \/ Configured = {} /\ Ends(c, "NOT_FOUND")
     \/ /\ Configured # {} /\ ~KeyIsValid(carried[c])
        /\ Ends(c, IF carried[c] = Blank THEN "MISSING_API_KEY" ELSE "INVALID_API_KEY")
     \/ /\ KeyIsValid(carried[c]) /\ ~StateIsOurs(c)
        /\ Ends(c, IF wanted[c] = Blank THEN "MISSING_STATE_CODE" ELSE "STATE_MISMATCH")
  /\ UNCHANGED <<settings, keyVars, door, carried, wanted, verified, reads>>

Enters(c) ==
  /\ stage[c] = "arriving"
  /\ door[c] = "gateway" => KeyIsValid(carried[c]) /\ StateIsOurs(c)
  /\ stage' = [stage EXCEPT ![c] = "verify"]
  /\ UNCHANGED <<settings, keyVars, door, carried, wanted, verified, outcome, reads>>

\* verifyToken, in detail in TokenAuth, lets the call through or answers it.
Verifies(c) ==
  /\ stage[c] = "verify"
  /\ \/ stage' = [stage EXCEPT ![c] = "seek"]
        /\ verified' = verified \cup {c}
        /\ UNCHANGED outcome
     \/ Ends(c, "bad_token") /\ UNCHANGED verified
  /\ UNCHANGED <<settings, keyVars, door, carried, wanted, reads>>

-----------------------------------------------------------------------------
(* What the call reads, and how it is answered.                            *)

\* The peer address the API process sees; "nobody" if 127.0.0.1 is the
\* address of a container in which nothing listens.
PeerOf(process) ==
  IF settings.url = "named" \/ process = Outsider THEN "elsewhere"
  ELSE IF settings.layout = "containers" /\ process = "consumer" THEN "nobody"
  ELSE "loopback"

\* Mutant: the guard lets private addresses through as well.
GuardPassesPrivate(peer) == peer \in {"loopback", "elsewhere"}

\* localOnly
GuardPasses(peer) == peer = "loopback" \/ (peer = "elsewhere" /\ ~settings.localOnly)

\* The orchestrator's calls to /graphql/*: they return rows, or are refused or
\* not connected, which throws in either process.
Fetches(c) ==
  /\ stage[c] = "seek"
  /\ IF GuardPasses(PeerOf(RunsIn(c)))
     THEN /\ reads' = reads \cup {c}
          /\ stage' = [stage EXCEPT ![c] = "answer"]
          /\ UNCHANGED outcome
     ELSE Ends(c, "unreachable") /\ UNCHANGED reads
  /\ UNCHANGED <<settings, keyVars, door, carried, wanted, verified>>

\* Resolution ends without data: a declined request, or another error.
Fails(c) ==
  /\ stage[c] \in {"seek", "answer"}
  /\ Ends(c, "error")
  /\ UNCHANGED <<settings, keyVars, door, carried, wanted, verified, reads>>

\* handleGatewaySyncSeek forces encryption; v1 posts what was resolved.
Sealed(c) == door[c] = "gateway" \/ (door[c] = "v2" /\ settings.encryption)

Answers(c) ==
  /\ stage[c] = "answer"
  /\ Ends(c, IF Sealed(c) THEN "sealed" ELSE "plain")
  /\ UNCHANGED <<settings, keyVars, door, carried, wanted, verified, reads>>

\* Someone who is not part of the application queries a GraphQL endpoint.
OutsiderAsks ==
  /\ GuardPasses(PeerOf(Outsider))
  /\ reads' = reads \cup {Outsider}
  /\ UNCHANGED <<settings, keyVars, callVars>>

Next ==
  \/ \E k \in Key : AddKey(k) \/ SwitchApisix(k) \/ RemoveKey(k)
  \/ Restart
  \/ \E c \in Call :
       \/ CallsDirectly(c) \/ CallsGateway(c) \/ TurnedAway(c) \/ Enters(c)
       \/ Verifies(c) \/ Fetches(c) \/ Fails(c) \/ Answers(c)
  \/ OutsiderAsks

Spec == Init /\ [][Next]_vars

-----------------------------------------------------------------------------
(***************************************************************************)
(* verifyGatewayKey.js:9-11: a key is rotated without downtime by adding   *)
(* the new one, switching APISIX and removing the old one.  These words    *)
(* alone do not do it: the list is that of the process's start (lines      *)
(* 21-26, index.js:73).  What holds is that a call APISIX sends is refused *)
(* for its key, or finds no route, only if APISIX was given the key before *)
(* the process was restarted with it, or if a restart forgot the key while *)
(* the call was on its way, however switches, removals, restarts and calls *)
(* interleave.                                                             *)
(***************************************************************************)
RefusedOnlyEarlyOrLate ==
  [][\A c \in Call :
       /\ carried[c] # Blank
       /\ outcome[c] = "none" /\ outcome'[c] \in {"INVALID_API_KEY", "NOT_FOUND"}
       => carried[c] \in early \/ c \in late]_vars

(***************************************************************************)
(* README.md:617-640: the gateway's door is no way around anything.  What  *)
(* is answered through it was read for a call whose token was verified and *)
(* that was meant for this state, where the state has adopted the check,   *)
(* and is sealed whatever USE_RESPONSE_ENCRYPTION says.                    *)
(***************************************************************************)
GatewayIsNoShortcut ==
  \A c \in Call :
    door[c] = "gateway" /\ outcome[c] \in {"plain", "sealed"} =>
      /\ c \in verified \cap reads
      /\ settings.stateCode # Blank => wanted[c] = Home
      /\ outcome[c] = "sealed"

(***************************************************************************)
(* localOnly.js:11-13: with the guard on, the tables are read only on      *)
(* behalf of seek calls that passed verifyToken, by whichever process      *)
(* resolves them and wherever it runs.                                     *)
(***************************************************************************)
TablesReadForVerifiedCalls ==
  settings.localOnly => reads \subseteq verified

(***************************************************************************)
(* localOnly.js:7-8: "The orchestrator reaches them over 127.0.0.1, i.e.   *)
(* from this same process."  A call fails because its orchestrator cannot  *)
(* reach the endpoints only where that is not so: v1 over Kafka with the   *)
(* seek consumer in a container of its own, as in docker-compose.yml, that *)
(* asks its own 127.0.0.1; or where the configured URL names a host and    *)
(* the guard turns its address away.                                       *)
(***************************************************************************)
UnreachableOnlyMisplaced ==
  \A c \in Call :
    outcome[c] = "unreachable" =>
      \/ /\ settings.url = "loopback" /\ settings.layout = "containers"
         /\ settings.kafka /\ door[c] = "v1"
      \/ settings.url = "named" /\ settings.localOnly

\* localOnly.js:7-8 without these exceptions.
OrchestratorReachesEndpoints ==
  settings.url = "loopback" => \A c \in Call : outcome[c] # "unreachable"
=============================================================================
