-------------------------- MODULE SeekDoorsProofs --------------------------
(***************************************************************************)
(* SeekDoors for any number of calls, keys, states and restarts: whom a    *)
(* rotation of the gateway's key can refuse, that no door is a way around  *)
(* a check, and where the endpoints cannot be reached.                     *)
(***************************************************************************)
EXTENDS SeekDoors, TLAPS

\* A key that APISIX has or had when it sent a call is known to the process,
\* unless APISIX had it early or the call is late.
KeysInv ==
  /\ apisix \in env /\ apisix \in loaded \cup early
  /\ \A c \in Call :
       stage[c] = "arriving" /\ carried[c] # Blank =>
         carried[c] \in loaded \cup early \/ c \in late

\* What is known of a call at each stage.
StageInv ==
  \A c \in Call :
    /\ stage[c] = "new" => outcome[c] = "none" /\ carried[c] = Blank
    /\ /\ stage[c] \in {"verify", "seek", "answer"}
       /\ door[c] = "gateway" /\ settings.stateCode # Blank
       => wanted[c] = Home
    /\ stage[c] \in {"seek", "answer"} => c \in verified
    /\ stage[c] = "answer" => c \in reads

DoorsInv ==
  /\ TypeOK /\ KeysInv /\ StageInv
  /\ GatewayIsNoShortcut /\ TablesReadForVerifiedCalls

-----------------------------------------------------------------------------
LEMMA DoorsInit == Init => DoorsInv
<1> SUFFICES ASSUME Init PROVE DoorsInv
  OBVIOUS
<1> USE DoorsAssumption DEF Init
<1>1. env \subseteq Key \cup {Blank} /\ apisix \in env /\ loaded = env
  OBVIOUS
<1>2. TypeOK
  <2>1. /\ stage \in [Call -> {"new", "arriving", "verify", "seek", "answer", "done", "cut"}]
        /\ door \in [Call -> Door] /\ restarts \in 0..MaxRestarts
        /\ carried \in [Call -> Key \cup {Blank}] /\ wanted \in [Call -> State \cup {Blank}]
        /\ outcome \in [Call -> Refusal \cup {"none", "plain", "sealed", "error", "unreachable"}]
    BY DEF Door
  <2>2. QED
    BY <1>1, <2>1 DEF TypeOK
<1>3. KeysInv /\ StageInv
  BY <1>1 DEF KeysInv, StageInv
<1>4. GatewayIsNoShortcut /\ TablesReadForVerifiedCalls
  BY DEF GatewayIsNoShortcut, TablesReadForVerifiedCalls
<1>5. QED
  BY <1>2, <1>3, <1>4 DEF DoorsInv

\* The operator's steps touch no call but those a restart cuts.
LEMMA KeyStep ==
  ASSUME DoorsInv, (\E k \in Key : AddKey(k) \/ SwitchApisix(k) \/ RemoveKey(k)) \/ Restart
  PROVE  DoorsInv'
<1> USE DoorsAssumption DEF DoorsInv, callVars
<1>1. CASE \E k \in Key : AddKey(k) \/ SwitchApisix(k) \/ RemoveKey(k)
  <2>1. TypeOK' /\ KeysInv'
    BY <1>1 DEF AddKey, SwitchApisix, RemoveKey, TypeOK, KeysInv
  <2>2. UNCHANGED <<settings, callVars, reads>>
    BY <1>1 DEF AddKey, SwitchApisix, RemoveKey
  <2>3. QED
    BY <2>1, <2>2 DEF StageInv, GatewayIsNoShortcut, TablesReadForVerifiedCalls
<1>2. CASE Restart
  <2>1. /\ stage' \in [Call -> {"new", "arriving", "verify", "seek", "answer", "done", "cut"}]
        /\ \A c \in Call : stage'[c] = stage[c] \/ stage'[c] = "cut"
    BY <1>2 DEF Restart, TypeOK
  <2>2. restarts' \in 0..MaxRestarts
    BY <1>2 DEF Restart, TypeOK
  <2>3. TypeOK' /\ KeysInv'
    BY <1>2, <2>1, <2>2 DEF Restart, TypeOK, KeysInv
  <2>4. StageInv'
    BY <1>2, <2>1 DEF Restart, StageInv
  <2>5. QED
    BY <1>2, <2>3, <2>4 DEF Restart, GatewayIsNoShortcut, TablesReadForVerifiedCalls
<1>3. QED
  BY <1>1, <1>2

\* A call arrives, is turned away, or enters.
LEMMA ArrivalStep ==
  ASSUME DoorsInv, NEW c \in Call, CallsDirectly(c) \/ CallsGateway(c) \/ TurnedAway(c) \/ Enters(c)
  PROVE  DoorsInv'
<1> USE DoorsAssumption DEF DoorsInv, keyVars
<1>1. CASE CallsDirectly(c) \/ CallsGateway(c)
  <2>0. TypeOK'
    BY <1>1 DEF CallsDirectly, CallsGateway, TypeOK, Door
  <2>1. KeysInv'
    <3>1. CASE CallsDirectly(c)
      <4>1. carried[c] = Blank
        BY <3>1 DEF CallsDirectly, StageInv
      <4>2. QED
        BY <3>1, <4>1 DEF CallsDirectly, TypeOK, KeysInv
    <3>2. CASE CallsGateway(c)
      BY <3>2 DEF CallsGateway, TypeOK, KeysInv
    <3>3. QED
      BY <1>1, <3>1, <3>2
  <2>2. StageInv'
    BY <1>1 DEF CallsDirectly, CallsGateway, TypeOK, StageInv
  <2>3. GatewayIsNoShortcut' /\ TablesReadForVerifiedCalls'
    BY <1>1 DEF CallsDirectly, CallsGateway, TypeOK, StageInv, GatewayIsNoShortcut,
                TablesReadForVerifiedCalls
  <2>4. QED
    BY <2>0, <2>1, <2>2, <2>3
<1>2. CASE TurnedAway(c)
  <2>1. PICK how \in Refusal \ {"bad_token"} : Ends(c, how)
    BY <1>2 DEF TurnedAway, Refusal
  <2>2. UNCHANGED <<settings, keyVars, door, carried, wanted, verified, reads>>
    BY <1>2 DEF TurnedAway
  <2>3. TypeOK' /\ KeysInv' /\ StageInv'
    BY <2>1, <2>2 DEF Ends, TypeOK, KeysInv, StageInv
  <2>4. GatewayIsNoShortcut' /\ TablesReadForVerifiedCalls'
    BY <2>1, <2>2 DEF Ends, TypeOK, Refusal, GatewayIsNoShortcut, TablesReadForVerifiedCalls
  <2>5. QED
    BY <2>3, <2>4
<1>3. CASE Enters(c)
  <2>1. TypeOK' /\ KeysInv'
    BY <1>3 DEF Enters, TypeOK, KeysInv
  <2>2. door[c] = "gateway" /\ settings.stateCode # Blank => wanted[c] = Home
    BY <1>3 DEF Enters, StateIsOurs, TypeOK, Settings
  <2>3. StageInv'
    BY <1>3, <2>2 DEF Enters, TypeOK, StageInv
  <2>4. GatewayIsNoShortcut' /\ TablesReadForVerifiedCalls'
    BY <1>3 DEF Enters, GatewayIsNoShortcut, TablesReadForVerifiedCalls
  <2>5. QED
    BY <2>1, <2>3, <2>4
<1>4. QED
  BY <1>1, <1>2, <1>3

\* A call goes on behind its door, and ends.
LEMMA SeekStep ==
  ASSUME DoorsInv, NEW c \in Call, Verifies(c) \/ Fetches(c) \/ Fails(c) \/ Answers(c)
  PROVE  DoorsInv'
<1> USE DoorsAssumption DEF DoorsInv, keyVars, Ends
<1>1. TypeOK'
  BY DEF Verifies, Fetches, Fails, Answers, TypeOK, Refusal
<1>2. KeysInv'
  BY DEF Verifies, Fetches, Fails, Answers, TypeOK, KeysInv
<1>3. StageInv'
  BY DEF Verifies, Fetches, Fails, Answers, TypeOK, StageInv
<1>4. GatewayIsNoShortcut'
  BY DEF Verifies, Fetches, Fails, Answers, Sealed, TypeOK, StageInv, GatewayIsNoShortcut
<1>5. TablesReadForVerifiedCalls'
  BY DEF Verifies, Fetches, Fails, Answers, StageInv, TablesReadForVerifiedCalls
<1>6. QED
  BY <1>1, <1>2, <1>3, <1>4, <1>5

\* With the guard on, an outsider reads nothing.
LEMMA OutsiderStep == ASSUME DoorsInv, OutsiderAsks PROVE DoorsInv'
<1> USE DEF DoorsInv, OutsiderAsks, keyVars, callVars
<1>1. settings.localOnly \in BOOLEAN /\ ~settings.localOnly
  BY DEF GuardPasses, PeerOf, TypeOK, Settings
<1>2. TypeOK' /\ KeysInv' /\ StageInv'
  BY DEF TypeOK, KeysInv, StageInv
<1>3. GatewayIsNoShortcut' /\ TablesReadForVerifiedCalls'
  BY <1>1 DEF GatewayIsNoShortcut, TablesReadForVerifiedCalls
<1>4. QED
  BY <1>2, <1>3

\* The inductive invariant: keys on their way are known to the process but for
\* the early ones and those of late calls, and a call's stage says what it has
\* passed.
THEOREM DoorsInvariant == Spec => []DoorsInv
<1>1. DoorsInv /\ UNCHANGED vars => DoorsInv'
  BY DEF DoorsInv, vars, keyVars, callVars, TypeOK, KeysInv, StageInv, GatewayIsNoShortcut,
         TablesReadForVerifiedCalls
<1>2. DoorsInv /\ [Next]_vars => DoorsInv'
  BY <1>1, KeyStep, ArrivalStep, SeekStep, OutsiderStep DEF Next
<1>3. QED
  BY DoorsInit, <1>2, PTL DEF Spec

\* Every variable keeps its type: outcomes are the ones the routes have.
THEOREM DoorsTypeCorrect == Spec => []TypeOK
  BY DoorsInvariant, PTL DEF DoorsInv

\* A step that refuses a call for its key is TurnedAway, and the process does
\* not know the key.
LEMMA RefusalStep ==
  ASSUME DoorsInv, [Next]_vars, NEW c \in Call, carried[c] # Blank,
         outcome[c] = "none", outcome'[c] \in {"INVALID_API_KEY", "NOT_FOUND"}
  PROVE  carried[c] \in early \/ c \in late
<1> USE DEF DoorsInv
<1>1. ~((\E k \in Key : AddKey(k) \/ SwitchApisix(k) \/ RemoveKey(k)) \/ Restart
          \/ OutsiderAsks \/ UNCHANGED vars)
  BY DEF AddKey, SwitchApisix, RemoveKey, Restart, OutsiderAsks, vars, callVars
<1>2. PICK d \in Call :
        \/ CallsDirectly(d) \/ CallsGateway(d) \/ TurnedAway(d) \/ Enters(d)
        \/ Verifies(d) \/ Fetches(d) \/ Fails(d) \/ Answers(d)
  BY <1>1 DEF Next
<1>3. TurnedAway(d)
  <2>1. ~(CallsDirectly(d) \/ CallsGateway(d) \/ Enters(d))
    BY DEF CallsDirectly, CallsGateway, Enters
  <2>2. ~(Verifies(d) \/ Fetches(d) \/ Fails(d) \/ Answers(d))
    BY DEF Verifies, Fetches, Fails, Answers, Ends, TypeOK
  <2>3. QED
    BY <1>2, <2>1, <2>2
<1>4. d = c
  BY <1>3 DEF TurnedAway, Ends, TypeOK
<1>5. stage[c] = "arriving" /\ carried[c] \notin loaded
  <2>1. outcome'[c] \notin {"MISSING_STATE_CODE", "STATE_MISMATCH"}
    OBVIOUS
  <2>2. QED
    BY <1>3, <1>4, <2>1 DEF TurnedAway, Ends, TypeOK, KeyIsValid, Configured
<1>6. QED
  BY <1>5 DEF KeysInv

\* Whom a rotation refuses: calls with a key that APISIX was given too early,
\* and calls that a restart overtook.
THEOREM WhomRotationRefuses == Spec => RefusedOnlyEarlyOrLate
<1>1. DoorsInv /\ [Next]_vars =>
        [\A c \in Call :
           /\ carried[c] # Blank
           /\ outcome[c] = "none" /\ outcome'[c] \in {"INVALID_API_KEY", "NOT_FOUND"}
           => carried[c] \in early \/ c \in late]_vars
  BY RefusalStep
<1>2. QED
  BY <1>1, DoorsInvariant, PTL DEF Spec, RefusedOnlyEarlyOrLate

\* An operator who restarts before switching APISIX, and restarts again only
\* when no call with a removed key is on its way, refuses no call of APISIX's.
Careful == early = {} /\ late = {}

THEOREM CarefulRotationRefusesNobody ==
  Spec /\ []Careful =>
    [][\A c \in Call :
         /\ carried[c] # Blank /\ outcome[c] = "none"
         => outcome'[c] \notin {"INVALID_API_KEY", "NOT_FOUND"}]_vars
<1>1. DoorsInv /\ Careful /\ [Next]_vars =>
        [\A c \in Call :
           /\ carried[c] # Blank /\ outcome[c] = "none"
           => outcome'[c] \notin {"INVALID_API_KEY", "NOT_FOUND"}]_vars
  BY RefusalStep DEF Careful
<1>2. QED
  BY <1>1, DoorsInvariant, PTL DEF Spec

\* What is answered through the gateway passed every check and is sealed.
THEOREM GatewayChecksAll == Spec => []GatewayIsNoShortcut
  BY DoorsInvariant, PTL DEF DoorsInv

\* With the guard on, tables are read only for verified calls.
THEOREM GuardHolds == Spec => []TablesReadForVerifiedCalls
  BY DoorsInvariant, PTL DEF DoorsInv

-----------------------------------------------------------------------------
\* Only Fetches ends a call that way, and settings and door stay as they were.
LEMMA MisplacedStep ==
  ASSUME DoorsInv, UnreachableOnlyMisplaced, [Next]_vars
  PROVE  UnreachableOnlyMisplaced'
<1> USE DEF UnreachableOnlyMisplaced
<1>1. /\ outcome \in [Call -> Refusal \cup {"none", "plain", "sealed", "error", "unreachable"}]
      /\ door \in [Call -> Door] /\ settings \in Settings
      /\ \A c \in Call : stage[c] = "new" => outcome[c] = "none"
  BY DEF DoorsInv, TypeOK, StageInv
<1>2. ASSUME NEW c \in Call, CallsDirectly(c) \/ CallsGateway(c)
      PROVE  UnreachableOnlyMisplaced'
  BY <1>1, <1>2 DEF CallsDirectly, CallsGateway
<1>3. ASSUME NEW c \in Call, TurnedAway(c) \/ Verifies(c) \/ Fails(c) \/ Answers(c)
      PROVE  UnreachableOnlyMisplaced'
  BY <1>1, <1>3 DEF TurnedAway, Verifies, Fails, Answers, Ends
<1>4. ASSUME NEW c \in Call, Fetches(c)
      PROVE  UnreachableOnlyMisplaced'
  <2>1. CASE GuardPasses(PeerOf(RunsIn(c)))
    BY <1>4, <2>1 DEF Fetches
  <2>2. CASE ~GuardPasses(PeerOf(RunsIn(c)))
    <3>1. \/ /\ settings.url = "loopback" /\ settings.layout = "containers"
             /\ settings.kafka /\ door[c] = "v1"
          \/ settings.url = "named" /\ settings.localOnly
      BY <1>1, <2>2 DEF GuardPasses, PeerOf, RunsIn, Settings, Outsider
    <3>2. /\ outcome' = [outcome EXCEPT ![c] = "unreachable"]
          /\ UNCHANGED <<settings, door>>
      BY <1>4, <2>2 DEF Fetches, Ends
    <3>3. QED
      BY <1>1, <3>1, <3>2
  <2>3. QED
    BY <2>1, <2>2
<1>5. ASSUME \/ (\E k \in Key : AddKey(k) \/ SwitchApisix(k) \/ RemoveKey(k)) \/ Restart
             \/ (\E c \in Call : Enters(c)) \/ OutsiderAsks \/ UNCHANGED vars
      PROVE  UNCHANGED <<settings, door, outcome>>
  BY <1>5 DEF AddKey, SwitchApisix, RemoveKey, Restart, Enters, OutsiderAsks, vars, callVars
<1>6. QED
  BY <1>2, <1>3, <1>4, <1>5 DEF Next

\* The calls that cannot reach the endpoints are those of a consumer in its own
\* container, or behind a URL that names a host while the guard is on.
THEOREM MisplacedOnly == Spec => []UnreachableOnlyMisplaced
<1>1. Init => UnreachableOnlyMisplaced
  BY DEF Init, UnreachableOnlyMisplaced
<1>2. QED
  BY <1>1, MisplacedStep, DoorsInvariant, PTL DEF Spec

\* So the orchestrator reaches the endpoints over 127.0.0.1 in every deployment
\* on one host and in every one without Kafka (localOnly.js:7-8).
THEOREM OneHostReaches ==
  Spec => [](settings.layout = "one_host" \/ ~settings.kafka => OrchestratorReachesEndpoints)
<1>1. UnreachableOnlyMisplaced =>
        (settings.layout = "one_host" \/ ~settings.kafka => OrchestratorReachesEndpoints)
  BY DEF UnreachableOnlyMisplaced, OrchestratorReachesEndpoints
<1>2. QED
  BY <1>1, MisplacedOnly, PTL
=============================================================================
