---------------------------- MODULE ConfigCache ----------------------------
(***************************************************************************)
(* The read-through caches in front of the admin-managed ClickHouse        *)
(* tables: getServiceConfig, isSenderMappedToService, getAiuPublicKey and  *)
(* isSdjwtService.  The four functions take the same steps on keys of      *)
(* their own, and differ in how they store the answer "no such row".       *)
(* This module follows one key of one of them: the calls that read it, in  *)
(* any number of API and consumer processes, the row in ClickHouse, and    *)
(* the administrator who changes the row and may delete the key.  A table  *)
(* state is a version number; its contents matter only as row or no row.   *)
(***************************************************************************)
EXTENDS Naturals

CONSTANTS
  Reader,       \* calls that may be in the lookup at the same time
  TTL,          \* CONFIG_CACHE_TTL_MS, in ticks of the clock
  MaxLatency,   \* longest time one lookup takes, in ticks
  MaxVersion,   \* bound: changes of the row
  MaxTime,      \* bound: ticks of the clock
  Occupied      \* the table states in which the row exists

ASSUME CacheAssumption ==
  /\ TTL \in Nat \ {0}
  /\ {MaxLatency, MaxVersion, MaxTime} \subseteq Nat
  /\ Occupied \subseteq 0..MaxVersion

VARIABLES
  lookup,       \* which of the four functions
  now,          \* the clock
  table,        \* the current state of the row
  superseded,   \* when each earlier state was replaced (history)
  redis,        \* the key: an entry, or Nothing
  stage,        \* where each call is in the lookup
  got,          \* the state its ClickHouse query saw
  since         \* when it began

adminVars == <<lookup, table, superseded>>
readVars  == <<stage, got, since>>
vars == <<adminVars, now, redis, readVars>>

Version == 0..MaxVersion

-----------------------------------------------------------------------------
(* What each function stores for "no row": the JSON text of null, "0" or   *)
(* the empty string.  Redis itself answers null for an absent key.         *)

serviceConfig    == [sentinel |-> "null"]
senderServiceMap == [sentinel |-> "0"]
publicKey        == [sentinel |-> ""]
sdjwtService     == [sentinel |-> "0"]

Lookup == {serviceConfig, senderServiceMap, publicKey, sdjwtService}

Nothing == [raw |-> "(nil)", version |-> 0, expires |-> 0]

\* Mutant: every function stores "no row" as the empty string.
EncodeAllAlike(v) == IF v \in Occupied THEN "value" ELSE ""

Encode(v) == IF v \in Occupied THEN "value" ELSE lookup.sentinel

\* Whether the caller is told that there is a row.
Decode(raw) == raw # lookup.sentinel

\* Mutant: the test for a hit is JavaScript truthiness.
HitIfTruthy(raw) == raw # "(nil)" /\ raw # ""

\* cached !== null
Hit(raw) == raw # "(nil)"

-----------------------------------------------------------------------------
Busy == {r \in Reader : stage[r] \in {"get", "query", "fill"}}

TypeOK ==
  /\ lookup \in Lookup
  /\ now \in 0..MaxTime
  /\ table \in Version
  /\ superseded \in [Version -> 0..MaxTime]
  /\ redis \in [raw : {"(nil)", "value", lookup.sentinel}, version : Version,
                expires : 0..(MaxTime + TTL)]
  /\ stage \in [Reader -> {"idle", "get", "query", "fill", "row", "no_row", "thrown"}]
  /\ got \in [Reader -> Version]
  /\ since \in [Reader -> 0..MaxTime]

Init ==
  /\ lookup \in Lookup
  /\ now = 0
  /\ table = 0
  /\ superseded = [v \in Version |-> 0]
  /\ redis = Nothing
  /\ stage = [r \in Reader |-> "idle"]
  /\ got = [r \in Reader |-> 0]
  /\ since = [r \in Reader |-> 0]

-----------------------------------------------------------------------------
(* A lookup.  A call without a service_id or sender_id never gets here.    *)

Begin(r) ==
  /\ stage[r] = "idle"
  /\ stage' = [stage EXCEPT ![r] = "get"]
  /\ since' = [since EXCEPT ![r] = now]
  /\ UNCHANGED <<adminVars, now, redis, got>>

\* The function returns, having seen the state v as the text raw.
Return(r, v, raw) ==
  /\ stage' = [stage EXCEPT ![r] = IF Decode(raw) THEN "row" ELSE "no_row"]
  /\ got' = [got EXCEPT ![r] = v]

\* Mutant: a hit starts the lifetime of the entry anew.
GetHitExtends(r) ==
  /\ stage[r] = "get"
  /\ Hit(redis.raw)
  /\ Return(r, redis.version, redis.raw)
  /\ redis' = [redis EXCEPT !.expires = now + TTL]
  /\ UNCHANGED <<adminVars, now, since>>

GetHit(r) ==
  /\ stage[r] = "get"
  /\ Hit(redis.raw)
  /\ Return(r, redis.version, redis.raw)
  /\ UNCHANGED <<adminVars, now, redis, since>>

GetMiss(r) ==
  /\ stage[r] = "get"
  /\ ~Hit(redis.raw)
  /\ stage' = [stage EXCEPT ![r] = "query"]
  /\ UNCHANGED <<adminVars, now, redis, got, since>>

Query(r) ==
  /\ stage[r] = "query"
  /\ got' = [got EXCEPT ![r] = table]
  /\ stage' = [stage EXCEPT ![r] = "fill"]
  /\ UNCHANGED <<adminVars, now, redis, since>>

\* Mutant: CONFIG_CACHE_TTL_MS is given to EX, which counts seconds.
FillForMilliseconds(r) ==
  /\ stage[r] = "fill"
  /\ redis' = [raw |-> Encode(got[r]), version |-> got[r], expires |-> now + 1000 * TTL]
  /\ Return(r, got[r], Encode(got[r]))
  /\ UNCHANGED <<adminVars, now, since>>

\* redis.set with EX: the answer of the query replaces whatever is there.
Fill(r) ==
  /\ stage[r] = "fill"
  /\ redis' = [raw |-> Encode(got[r]), version |-> got[r], expires |-> now + TTL]
  /\ Return(r, got[r], Encode(got[r]))
  /\ UNCHANGED <<adminVars, now, since>>

\* Mutant: an error is caught and answered like an absent row.
ThrowsNoRow(r) ==
  /\ r \in Busy
  /\ stage' = [stage EXCEPT ![r] = "no_row"]
  /\ UNCHANGED <<adminVars, now, redis, got, since>>

\* A Redis command or the query rejects, and the function with it.
Throws(r) ==
  /\ r \in Busy
  /\ stage' = [stage EXCEPT ![r] = "thrown"]
  /\ UNCHANGED <<adminVars, now, redis, got, since>>

\* The call goes its way; another one may come.
Leave(r) ==
  /\ stage[r] \in {"row", "no_row", "thrown"}
  /\ stage' = [stage EXCEPT ![r] = "idle"]
  /\ UNCHANGED <<adminVars, now, redis, got, since>>

-----------------------------------------------------------------------------
(* The administrator, and the clock.                                       *)

ChangeRow ==
  /\ table < MaxVersion
  /\ table' = table + 1
  /\ superseded' = [superseded EXCEPT ![table] = now]
  /\ UNCHANGED <<lookup, now, redis, readVars>>

DeleteKey ==
  /\ redis' = Nothing
  /\ UNCHANGED <<adminVars, now, readVars>>

\* Time passes; an entry whose lifetime ends is gone.
Tick ==
  /\ now < MaxTime
  /\ \A r \in Busy : now < since[r] + MaxLatency
  /\ now' = now + 1
  /\ redis' = IF redis.expires <= now + 1 THEN Nothing ELSE redis
  /\ UNCHANGED <<adminVars, readVars>>

Next ==
  \/ \E r \in Reader :
       Begin(r) \/ GetHit(r) \/ GetMiss(r) \/ Query(r) \/ Fill(r) \/ Throws(r) \/ Leave(r)
  \/ ChangeRow \/ DeleteKey \/ Tick

Spec == Init /\ [][Next]_vars

-----------------------------------------------------------------------------
Returned(r) == stage[r] \in {"row", "no_row"}

(***************************************************************************)
(* serviceConfig.js:17-21: a change of the row takes at most the TTL, and  *)
(* the time of the lookup that filled the key, to apply: a call never      *)
(* returns a state that was replaced longer ago than that, however its     *)
(* query, the changes and other calls' fills interleave.                   *)
(***************************************************************************)
StalenessBounded ==
  [][\A r \in Reader :
       ~Returned(r) /\ Returned(r)' =>
         got'[r] = table \/ now <= superseded[got'[r]] + TTL + MaxLatency]_vars

(***************************************************************************)
(* README.md:506-516: what a call returns is what the state it saw says,   *)
(* row or no row, whether it came from ClickHouse or from Redis: a stored  *)
(* "no" is never read as a "yes", nor the other way round.                 *)
(***************************************************************************)
AnswerMatchesRow ==
  \A r \in Reader : Returned(r) => (stage[r] = "row" <=> got[r] \in Occupied)

(***************************************************************************)
(* README.md:508-516: an answer that is stored, "no such row" included,    *)
(* spares ClickHouse for as long as it lives: while the key exists, the    *)
(* only calls that still query, or carry the answer of a query, are those  *)
(* that began by the time the entry was stored, each having missed before  *)
(* another call's fill.  (redis.expires - TTL is when it was stored.)      *)
(***************************************************************************)
QueriesPredateEntry ==
  \A r \in Reader :
    stage[r] \in {"query", "fill"} /\ redis # Nothing => since[r] + TTL <= redis.expires

Register == INSTANCE StaleRegister
  WITH Client <- Reader, Bound <- TTL + MaxLatency,
       answer <- [r \in Reader |-> IF r \in Busy THEN "reading" ELSE stage[r]]

(***************************************************************************)
(* serviceConfig.js:17-21, README.md:506-516: seen from its callers, the   *)
(* cache is a register read in one step that is never staler than the TTL  *)
(* and one lookup: the key, the queries, the fills that overtake each      *)
(* other and the deletions of the key do not show.                         *)
(***************************************************************************)
IsStaleRegister == Register!Spec
=============================================================================
