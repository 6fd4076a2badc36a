----------------------------- MODULE TokenAuth -----------------------------
(***************************************************************************)
(* verifyToken, which stands before every seek route: its two modes, the   *)
(* cached introspection verdicts, the mapping from a token's subject to    *)
(* the sender it belongs to (a ClickHouse table behind a Redis key), and   *)
(* our own service token.  The Network Manager is external: it says of a   *)
(* token and a sender_id whether they belong together, or answers with     *)
(* something else, or not at all.                                          *)
(***************************************************************************)
EXTENDS Naturals

CONSTANTS
  Request,      \* requests that may be in the middleware at the same time
  Token, Sender,
  Subject,
  SubOf,        \* the sub claim of each token
  ValidFor,     \* the senders the Network Manager confirms for each token
  MaxRestarts   \* bound: restarts of the API process

NoSender == "no sender"     \* the empty string kept for "no mapping"
Missing  == "missing"       \* redis.get returned null

ASSUME AuthAssumption ==
  /\ Token # {} /\ {NoSender, Missing} \cap Sender = {}
  /\ SubOf \in [Token -> Subject]
  /\ ValidFor \in [Token -> SUBSET Sender]
  /\ MaxRestarts \in Nat

VARIABLES
  mode,         \* USE_LOCAL_TOKEN_VALIDATION
  restarts,
  tokenState,   \* of each token, as the Network Manager has it
  stage,        \* where each request is in verifyToken, or how it left
  token, sender,   \* what the request presents
  seen,         \* the mapping its query found
  serviceToken, \* whether our own token is in Redis
  verdict,      \* Redis: the cached verdict on each token
  tied,         \* tokens whose verdict is kept until their own expiry
  subjectCache, \* Redis: dpe:auth:subject_map
  latest,       \* ClickHouse: the newest row of each subject
  learning,     \* unawaited recordConfirmedSubject calls
  validated,    \* tokens the Network Manager ever confirmed (history)
  confirmed,    \* <<subject, sender>> it ever confirmed (history)
  recorded      \* <<subject, sender>> ever inserted (history)

requestVars == <<stage, token, sender, seen>>
cacheVars   == <<serviceToken, verdict, tied, subjectCache, latest, learning, recorded>>
nmVars      == <<tokenState, validated, confirmed>>
processVars == <<mode, restarts>>
vars == <<processVars, requestVars, cacheVars, nmVars>>

Busy == {"cached", "local", "known", "query", "fill", "login", "introspect",
         "store_valid", "store_invalid", "record", "remember"}
Left == {"next", "refused", "unavailable", "incomplete"}

TypeOK ==
  /\ mode \in {"introspect", "local"}
  /\ restarts \in 0..MaxRestarts
  /\ tokenState \in [Token -> {"live", "revoked", "expired"}]
  /\ stage \in [Request -> Busy \cup Left \cup {"idle"}]
  /\ token \in [Request -> Token]
  /\ sender \in [Request -> Sender \cup {NoSender}]
  /\ seen \in [Request -> Sender \cup {NoSender}]
  /\ serviceToken \in BOOLEAN
  /\ verdict \in [Token -> {"none", "valid", "invalid"}]
  /\ tied \subseteq Token
  /\ subjectCache \in [Subject -> Sender \cup {NoSender, Missing}]
  /\ latest \in [Subject -> Sender \cup {NoSender}]
  /\ learning \subseteq [sub : Subject, sender : Sender, step : {"insert", "set"}]
  /\ validated \subseteq Token
  /\ confirmed \subseteq Subject \X Sender
  /\ recorded \subseteq Subject \X Sender

Init ==
  /\ mode \in {"introspect", "local"}
  /\ restarts = 0
  /\ tokenState = [t \in Token |-> "live"]
  /\ stage = [r \in Request |-> "idle"]
  /\ token \in [Request -> {CHOOSE t \in Token : TRUE}]
  /\ sender = [r \in Request |-> NoSender]
  /\ seen = [r \in Request |-> NoSender]
  /\ serviceToken = FALSE
  /\ verdict = [t \in Token |-> "none"] /\ tied = {}
  /\ subjectCache = [u \in Subject |-> Missing]
  /\ latest = [u \in Subject |-> NoSender]
  /\ learning = {}
  /\ validated = {} /\ confirmed = {} /\ recorded = {}

Goto(r, s) == stage' = [stage EXCEPT ![r] = s]
SubjectOf(r) == SubOf[token[r]]
Pair(r) == <<SubjectOf(r), sender[r]>>

-----------------------------------------------------------------------------
Arrive(r, t, s) ==
  /\ stage[r] = "idle"
  /\ token' = [token EXCEPT ![r] = t]
  /\ sender' = [sender EXCEPT ![r] = s]
  /\ Goto(r, IF mode = "local" THEN "local" ELSE "cached")
  /\ UNCHANGED <<processVars, seen, cacheVars, nmVars>>

\* Without a bearer token or a sender_id: 401 or 400.
ArriveIncomplete(r) ==
  /\ stage[r] = "idle"
  /\ Goto(r, "incomplete")
  /\ UNCHANGED <<processVars, token, sender, seen, cacheVars, nmVars>>

\* The response is sent; another request may come.
Leave(r) ==
  /\ stage[r] \in Left
  /\ Goto(r, "idle")
  /\ sender' = [sender EXCEPT ![r] = NoSender]
  /\ seen' = [seen EXCEPT ![r] = NoSender]
  /\ UNCHANGED <<processVars, token, cacheVars, nmVars>>

\* Whatever is awaited rejects, or the token cannot be decoded: 502.
Throws(r) ==
  /\ stage[r] \in Busy
  /\ Goto(r, "unavailable")
  /\ UNCHANGED <<processVars, token, sender, seen, cacheVars, nmVars>>

-----------------------------------------------------------------------------
(* Local mode.                                                             *)

\* verifyJwtLocally.  It looks at the token alone, so it knows of no
\* revocation; a signing key that cannot be fetched counts as invalid.
LocalCheck(r) ==
  /\ stage[r] = "local"
  /\ \/ Goto(r, "refused")
     \/ tokenState[token[r]] # "expired" /\ Goto(r, "known")
  /\ UNCHANGED <<processVars, token, sender, seen, cacheVars, nmVars>>

\* Mutant: a subject that is mapped to anyone is let through.
CompareAnyKnown(r, known) == Goto(r, IF known # NoSender THEN "next" ELSE "login")

\* The mapping is compared with the sender_id; only a match skips the
\* Network Manager.
Compare(r, known) == Goto(r, IF known = sender[r] THEN "next" ELSE "login")

KnownHit(r) ==
  /\ stage[r] = "known"
  /\ subjectCache[SubjectOf(r)] # Missing
  /\ Compare(r, subjectCache[SubjectOf(r)])
  /\ UNCHANGED <<processVars, token, sender, seen, cacheVars, nmVars>>

KnownMiss(r) ==
  /\ stage[r] = "known"
  /\ subjectCache[SubjectOf(r)] = Missing
  /\ Goto(r, "query")
  /\ UNCHANGED <<processVars, token, sender, seen, cacheVars, nmVars>>

\* getKnownSenderIdForSubject reads the newest row, or finds none.
KnownQuery(r) ==
  /\ stage[r] = "query"
  /\ seen' = [seen EXCEPT ![r] = latest[SubjectOf(r)]]
  /\ Goto(r, "fill")
  /\ UNCHANGED <<processVars, token, sender, cacheVars, nmVars>>

KnownFill(r) ==
  /\ stage[r] = "fill"
  /\ subjectCache' = [subjectCache EXCEPT ![SubjectOf(r)] = seen[r]]
  /\ Compare(r, seen[r])
  /\ UNCHANGED <<processVars, token, sender, seen, serviceToken, verdict, tied, latest, learning,
                 recorded, nmVars>>

-----------------------------------------------------------------------------
(* Introspection, in both modes.                                           *)

\* Mutant: is_valid of a cached result is not looked at.
CachedHitPasses(r) ==
  /\ stage[r] = "cached"
  /\ verdict[token[r]] # "none"
  /\ Goto(r, "next")
  /\ UNCHANGED <<processVars, token, sender, seen, cacheVars, nmVars>>

CachedHit(r) ==
  /\ stage[r] = "cached"
  /\ verdict[token[r]] # "none"
  /\ Goto(r, IF verdict[token[r]] = "valid" THEN "next" ELSE "refused")
  /\ UNCHANGED <<processVars, token, sender, seen, cacheVars, nmVars>>

CachedMiss(r) ==
  /\ stage[r] = "cached"
  /\ verdict[token[r]] = "none"
  /\ Goto(r, "login")
  /\ UNCHANGED <<processVars, token, sender, seen, cacheVars, nmVars>>

\* fetchServiceToken: our own token from Redis, or by a login.
Login(r) ==
  /\ stage[r] = "login"
  /\ serviceToken' = TRUE
  /\ Goto(r, "introspect")
  /\ UNCHANGED <<processVars, token, sender, seen, verdict, tied, subjectCache, latest, learning,
                 recorded, nmVars>>

Genuine(r) == tokenState[token[r]] = "live" /\ sender[r] \in ValidFor[token[r]]

\* The Network Manager confirms the token for this sender.
IntrospectConfirms(r) ==
  /\ stage[r] = "introspect"
  /\ Genuine(r)
  /\ Goto(r, IF mode = "local" THEN "record" ELSE "store_valid")
  /\ validated' = validated \cup {token[r]}
  /\ confirmed' = confirmed \cup {Pair(r)}
  /\ UNCHANGED <<processVars, token, sender, seen, cacheVars, tokenState>>

\* It does not, or its answer is some other JSON, which has no is_valid.
IntrospectRejects(r) ==
  /\ stage[r] = "introspect"
  /\ Goto(r, IF mode = "local" THEN "refused" ELSE "store_invalid")
  /\ UNCHANGED <<processVars, token, sender, seen, cacheVars, nmVars>>

\* Mutant: recordConfirmedSubject is awaited before next().
StoreAwaitsLearning(r) ==
  /\ stage[r] \in {"store_valid", "store_invalid"}
  /\ IF stage[r] = "store_valid" /\ Pair(r) \notin recorded
     THEN /\ learning' = learning \cup
               {[sub |-> SubjectOf(r), sender |-> sender[r], step |-> "insert"]}
          /\ UNCHANGED stage
     ELSE /\ Goto(r, IF stage[r] = "store_valid" THEN "next" ELSE "refused")
          /\ UNCHANGED learning
  /\ UNCHANGED <<processVars, token, sender, seen, serviceToken, verdict, tied, subjectCache,
                 latest, recorded, nmVars>>

\* setCachedResult, with the lifetime computeTtlSeconds finds at this moment:
\* what the token has left, or the cap if it has nothing left.  A confirmed
\* request goes on, and its subject is learned beside it.
Store(r) ==
  /\ stage[r] \in {"store_valid", "store_invalid"}
  /\ verdict' = [verdict EXCEPT ![token[r]] =
                   IF stage[r] = "store_valid" THEN "valid" ELSE "invalid"]
  /\ tied' = IF tokenState[token[r]] # "expired" THEN tied \cup {token[r]}
                                                 ELSE tied \ {token[r]}
  /\ IF stage[r] = "store_valid"
     THEN /\ Goto(r, "next")
          /\ learning' = learning \cup
               {[sub |-> SubjectOf(r), sender |-> sender[r], step |-> "insert"]}
     ELSE Goto(r, "refused") /\ UNCHANGED learning
  /\ UNCHANGED <<processVars, token, sender, seen, serviceToken, subjectCache, latest,
                 recorded, nmVars>>

-----------------------------------------------------------------------------
(* recordConfirmedSubject: first the table, then the key.  Local mode      *)
(* awaits it, introspect mode lets it run.                                 *)

InsertRow(pair) ==
  /\ latest' = [latest EXCEPT ![pair[1]] = pair[2]]
  /\ recorded' = recorded \cup {pair}

SetKey(pair) == subjectCache' = [subjectCache EXCEPT ![pair[1]] = pair[2]]

\* Mutant: the key is set before the row is inserted.
RecordKeyFirst(r) ==
  /\ \/ stage[r] = "record" /\ SetKey(Pair(r)) /\ Goto(r, "remember")
        /\ UNCHANGED <<latest, recorded>>
     \/ stage[r] = "remember" /\ InsertRow(Pair(r)) /\ Goto(r, "next")
        /\ UNCHANGED subjectCache
  /\ UNCHANGED <<processVars, token, sender, seen, serviceToken, verdict, tied, learning, nmVars>>

Record(r) ==
  /\ \/ stage[r] = "record" /\ InsertRow(Pair(r)) /\ Goto(r, "remember")
        /\ UNCHANGED subjectCache
     \/ stage[r] = "remember" /\ SetKey(Pair(r)) /\ Goto(r, "next")
        /\ UNCHANGED <<latest, recorded>>
  /\ UNCHANGED <<processVars, token, sender, seen, serviceToken, verdict, tied, learning, nmVars>>

\* The unawaited call takes its two steps; either may reject, which is logged.
Learn(l) ==
  /\ \/ /\ l.step = "insert" /\ InsertRow(<<l.sub, l.sender>>)
        /\ learning' = (learning \ {l}) \cup {[l EXCEPT !.step = "set"]}
        /\ UNCHANGED subjectCache
     \/ /\ l.step = "set" /\ SetKey(<<l.sub, l.sender>>)
        /\ learning' = learning \ {l}
        /\ UNCHANGED <<latest, recorded>>
     \/ /\ learning' = learning \ {l}
        /\ UNCHANGED <<latest, recorded, subjectCache>>
  /\ UNCHANGED <<processVars, requestVars, serviceToken, verdict, tied, nmVars>>

-----------------------------------------------------------------------------
(* Time, the Network Manager, and restarts.                                *)

\* A token expires, and with it the Redis keys that live as long as it does.
TokenExpires(t) ==
  /\ tokenState[t] # "expired"
  /\ tokenState' = [tokenState EXCEPT ![t] = "expired"]
  /\ verdict' = [verdict EXCEPT ![t] =
       IF t \in tied THEN "none" ELSE @]
  /\ tied' = tied \ {t}
  /\ UNCHANGED <<processVars, requestVars, serviceToken, subjectCache, latest, learning,
                 recorded, validated, confirmed>>

TokenRevoked(t) ==
  /\ tokenState[t] = "live"
  /\ tokenState' = [tokenState EXCEPT ![t] = "revoked"]
  /\ UNCHANGED <<processVars, requestVars, cacheVars, validated, confirmed>>

\* A key reaches the end of its lifetime.
KeyExpires ==
  /\ \/ \E t \in Token : verdict' = [verdict EXCEPT ![t] = "none"] /\ tied' = tied \ {t}
        /\ UNCHANGED <<serviceToken, subjectCache>>
     \/ \E u \in Subject : subjectCache' = [subjectCache EXCEPT ![u] = Missing]
        /\ UNCHANGED <<serviceToken, verdict, tied>>
     \/ serviceToken' = FALSE /\ UNCHANGED <<verdict, tied, subjectCache>>
  /\ UNCHANGED <<processVars, requestVars, latest, learning, recorded, nmVars>>

\* The API process is started again, perhaps in the other mode.
Restart ==
  /\ restarts < MaxRestarts
  /\ restarts' = restarts + 1
  /\ mode' \in {"introspect", "local"}
  /\ stage' = [r \in Request |-> "idle"]
  /\ sender' = [r \in Request |-> NoSender]
  /\ seen' = [r \in Request |-> NoSender]
  /\ learning' = {}
  /\ UNCHANGED <<token, serviceToken, verdict, tied, subjectCache, latest, recorded, nmVars>>

Verify(r) ==
  \/ LocalCheck(r) \/ KnownHit(r) \/ KnownMiss(r) \/ KnownQuery(r) \/ KnownFill(r)
  \/ CachedHit(r) \/ CachedMiss(r) \/ Login(r)
  \/ IntrospectConfirms(r) \/ IntrospectRejects(r) \/ Store(r) \/ Record(r)

Next ==
  \/ \E r \in Request :
       \/ \E t \in Token, s \in Sender : Arrive(r, t, s)
       \/ ArriveIncomplete(r) \/ Leave(r) \/ Throws(r)
       \/ LocalCheck(r) \/ KnownHit(r) \/ KnownMiss(r) \/ KnownQuery(r) \/ KnownFill(r)
       \/ CachedHit(r) \/ CachedMiss(r) \/ Login(r)
       \/ IntrospectConfirms(r) \/ IntrospectRejects(r) \/ Store(r) \/ Record(r)
  \/ \E l \in learning : Learn(l)
  \/ \E t \in Token : TokenExpires(t) \/ TokenRevoked(t)
  \/ KeyExpires \/ Restart

Spec == Init /\ [][Next]_vars

\* What a request awaits answers or rejects; nothing is assumed of the
\* learning that runs beside it.
FairSpec == Spec /\ \A r \in Request : WF_vars(Verify(r))

-----------------------------------------------------------------------------
(***************************************************************************)
(* README.md:472-476: local mode never trusts an unconfirmed pairing: a    *)
(* request it lets through without asking, or after asking, has a subject  *)
(* and sender_id the Network Manager confirmed together at some time,      *)
(* across both modes, restarts, expiring keys and racing fills.            *)
(***************************************************************************)
LocalTrustsOnlyConfirmed ==
  \A r \in Request : mode = "local" /\ stage[r] = "next" => Pair(r) \in confirmed

(***************************************************************************)
(* In introspect mode a request passes only with a token the Network       *)
(* Manager confirmed at some time, for whichever sender: no failure of     *)
(* Redis, of the login or of the Network Manager turns into an acceptance  *)
(* of a token that was never confirmed.  For the sender_id beside it see   *)
(* PassesOnlyForItsSender.                                                 *)
(***************************************************************************)
PassesOnlyValidated ==
  \A r \in Request : mode = "introspect" /\ stage[r] = "next" => token[r] \in validated

(***************************************************************************)
(* introspect.js:4-6, README.md:629-631: a token is verified for the       *)
(* sender_id the request claims: who passes was confirmed together with    *)
(* it.  The code does not keep to it: introspectCache.js:39 keys the       *)
(* verdict by the token alone, so a verdict given for one sender_id also   *)
(* answers a request that names another.                                   *)
(***************************************************************************)
PassesOnlyForItsSender ==
  \A r \in Request : mode = "introspect" /\ stage[r] = "next" => Pair(r) \in confirmed

(***************************************************************************)
(* subjectMapping.js:5-8: ClickHouse is the permanent record and Redis a   *)
(* cache in front of it: a pairing that is in Redis is in the table too,   *)
(* even if the process exits between the two writes.                       *)
(***************************************************************************)
CacheBehindTable ==
  \A u \in Subject :
    subjectCache[u] \in Sender => <<u, subjectCache[u]>> \in recorded

(***************************************************************************)
(* verifyTokenMiddleware.js:90-92: learning the mapping never blocks the   *)
(* request: every request leaves the middleware or is cut by a restart.    *)
(***************************************************************************)
VerificationEnds ==
  \A r \in Request : stage[r] \in Busy ~> stage[r] \in Left \cup {"idle"}
=============================================================================
