------------------------- MODULE ConfigCacheProofs -------------------------
(***************************************************************************)
(* The staleness bound of ConfigCache and its companions, for any number   *)
(* of calls, any TTL and any latency.                                      *)
(***************************************************************************)
EXTENDS ConfigCache, TLAPS

\* An entry says what its table state says, has not expired, and was filled
\* at most MaxLatency after that state was replaced.
EntryInv ==
  redis # Nothing =>
    /\ redis.raw = Encode(redis.version)
    /\ now < redis.expires /\ redis.expires <= now + TTL
    /\ redis.version <= table
    /\ \/ redis.version = table
       \/ redis.expires <= superseded[redis.version] + TTL + MaxLatency

\* A call in the lookup began at most MaxLatency ago.
ClockInv ==
  \A r \in Reader :
    r \in Busy => since[r] <= now /\ now <= since[r] + MaxLatency

\* The state a query saw was not replaced before the call began.
QueryInv ==
  \A r \in Reader :
    stage[r] = "fill" =>
      /\ got[r] <= table
      /\ got[r] = table \/ since[r] <= superseded[got[r]]

CacheInv == TypeOK /\ EntryInv /\ ClockInv /\ QueryInv /\ AnswerMatchesRow

-----------------------------------------------------------------------------
\* What a function stores is told apart from an absent key, and read back as
\* what it meant.
LEMMA Encoding ==
  ASSUME lookup \in Lookup, NEW v
  PROVE  /\ Encode(v) \in {"value", lookup.sentinel}
         /\ Encode(v) # "(nil)"
         /\ Decode(Encode(v)) <=> v \in Occupied
<1>1. lookup.sentinel \in {"null", "0", ""}
  <2>1. \/ lookup = [sentinel |-> "null"]
        \/ lookup = [sentinel |-> "0"]
        \/ lookup = [sentinel |-> ""]
    BY Zenon DEF Lookup, serviceConfig, senderServiceMap, publicKey, sdjwtService
  <2>2. /\ [sentinel |-> "null"].sentinel = "null"
        /\ [sentinel |-> "0"].sentinel = "0"
        /\ [sentinel |-> ""].sentinel = ""
    OBVIOUS
  <2>3. QED
    BY <2>1, <2>2, Zenon
<1>2. QED
  BY <1>1 DEF Encode, Decode

LEMMA InitHolds == Init => CacheInv
<1> SUFFICES ASSUME Init PROVE CacheInv
  OBVIOUS
<1> USE CacheAssumption DEF Init
<1>1. 0 \in Version /\ 0 \in 0..MaxTime /\ Nothing.version = 0 /\ Nothing.expires = 0
  BY DEF Version, Nothing
<1>2. TypeOK
  BY <1>1 DEF TypeOK, Nothing
<1>3. EntryInv /\ ClockInv /\ QueryInv /\ AnswerMatchesRow
  BY DEF EntryInv, ClockInv, QueryInv, AnswerMatchesRow, Returned, Busy
<1>4. QED
  BY <1>2, <1>3 DEF CacheInv

-----------------------------------------------------------------------------
\* A step of a lookup keeps the invariant.
LEMMA LookupStep ==
  ASSUME CacheInv, NEW r \in Reader,
         Begin(r) \/ GetHit(r) \/ GetMiss(r) \/ Query(r) \/ Fill(r) \/ Throws(r) \/ Leave(r)
  PROVE  CacheInv'
<1> USE CacheAssumption DEF CacheInv, Version
<1>0. lookup' = lookup /\ table' = table /\ now' = now /\ superseded' = superseded
  BY DEF Begin, GetHit, GetMiss, Query, Fill, Throws, Leave, adminVars
<1>c0. DOMAIN stage = Reader
  BY DEF TypeOK
<1>c. /\ \A q \in Reader : q \in Busy <=> stage[q] \in {"get", "query", "fill"}
      /\ \A q \in Reader : q \in Busy' <=> stage'[q] \in {"get", "query", "fill"}
  BY DEF Busy
\* A step that starts no call keeps the clock bounds of those in progress.
<1>a. ASSUME since' = since, \A q \in Reader : q \in Busy' => q \in Busy
      PROVE  ClockInv'
  BY <1>a, <1>0 DEF ClockInv
\* A step that makes no query keeps what the earlier ones saw.
<1>b. ASSUME since' = since,
             \A q \in Reader : stage'[q] = "fill" => stage[q] = "fill" /\ got'[q] = got[q]
      PROVE  QueryInv'
  BY <1>b, <1>0 DEF QueryInv
<1>1. CASE Begin(r)
  <2>1. TypeOK'
    BY <1>1 DEF Begin, TypeOK, adminVars
  <2>2. EntryInv'
    BY <1>1 DEF Begin, EntryInv, Encode, adminVars
  <2>3. ClockInv'
    <3>1. now \in Nat /\ MaxLatency \in Nat /\ now' = now
      BY <1>0 DEF TypeOK
    <3>2. since' = [since EXCEPT ![r] = now] /\ since \in [Reader -> 0..MaxTime]
      BY <1>1 DEF Begin, TypeOK
    <3>3. \A q \in Reader : q # r /\ q \in Busy' => q \in Busy
      BY <1>1, <1>c, <1>c0 DEF Begin
    <3>4. QED
      BY <3>1, <3>2, <3>3 DEF ClockInv
  <2>4. QueryInv'
    BY <1>1 DEF Begin, TypeOK, QueryInv, adminVars
  <2>5. AnswerMatchesRow'
    BY <1>1 DEF Begin, TypeOK, AnswerMatchesRow, Returned, adminVars
  <2>6. QED
    BY <2>1, <2>2, <2>3, <2>4, <2>5
<1>2. CASE GetHit(r)
  <2>1. redis # Nothing /\ (Decode(redis.raw) <=> redis.version \in Occupied)
    BY <1>2, Encoding DEF GetHit, Hit, Nothing, EntryInv, TypeOK
  <2>2. TypeOK'
    BY <1>2 DEF GetHit, Return, TypeOK, adminVars
  <2>3. EntryInv'
    BY <1>2 DEF GetHit, EntryInv, Encode, adminVars
  <2>4. ClockInv' /\ QueryInv'
    BY <1>2, <1>a, <1>b, <1>c DEF GetHit, Return, TypeOK
  <2>5. AnswerMatchesRow'
    BY <1>2, <2>1 DEF GetHit, Return, TypeOK, AnswerMatchesRow, Returned
  <2>6. QED
    BY <2>2, <2>3, <2>4, <2>5
<1>3. CASE GetMiss(r)
  <2>1. TypeOK'
    BY <1>3 DEF GetMiss, TypeOK, adminVars
  <2>2. EntryInv'
    BY <1>3 DEF GetMiss, EntryInv, Encode, adminVars
  <2>3. ClockInv'
    <3>1. since' = since
      BY <1>3 DEF GetMiss
    <3>2. \A q \in Reader : q \in Busy' => q \in Busy
      BY <1>3, <1>c, <1>c0 DEF GetMiss
    <3>3. QED
      BY <1>a, <3>1, <3>2
  <2>4. QueryInv'
    BY <1>3, <1>b DEF GetMiss, TypeOK
  <2>5. AnswerMatchesRow'
    BY <1>3 DEF GetMiss, TypeOK, AnswerMatchesRow, Returned, adminVars
  <2>6. QED
    BY <2>1, <2>2, <2>3, <2>4, <2>5
<1>4. CASE Query(r)
  <2>1. TypeOK'
    BY <1>4 DEF Query, TypeOK, adminVars
  <2>2. EntryInv'
    BY <1>4 DEF Query, EntryInv, Encode, adminVars
  <2>3. ClockInv'
    <3>1. since' = since
      BY <1>4 DEF Query
    <3>2. \A q \in Reader : q \in Busy' => q \in Busy
      BY <1>4, <1>c, <1>c0 DEF Query
    <3>3. QED
      BY <1>a, <3>1, <3>2
  <2>4. QueryInv'
    BY <1>4 DEF Query, TypeOK, QueryInv, adminVars
  <2>5. AnswerMatchesRow'
    BY <1>4 DEF Query, TypeOK, AnswerMatchesRow, Returned, adminVars
  <2>6. QED
    BY <2>1, <2>2, <2>3, <2>4, <2>5
<1>5. CASE Fill(r)
  <2>1. /\ Encode(got[r]) \in {"value", lookup.sentinel}
        /\ Decode(Encode(got[r])) <=> got[r] \in Occupied
    BY Encoding DEF TypeOK
  <2>2. got[r] \in Version /\ r \in Busy /\ now \in Nat /\ since[r] \in Nat
    BY <1>5 DEF Fill, TypeOK, Busy
  <2>3. TypeOK'
    <3>1. redis' \in [raw : {"(nil)", "value", lookup.sentinel}, version : Version,
                      expires : 0..(MaxTime + TTL)]
      BY <1>5, <2>1, <2>2 DEF Fill, TypeOK
    <3>2. QED
      BY <1>0, <1>5, <2>2, <3>1 DEF Fill, Return, TypeOK, adminVars
  <2>4. EntryInv'
    BY <1>5, <2>2 DEF Fill, TypeOK, EntryInv, ClockInv, QueryInv, Encode, adminVars
  <2>5. ClockInv' /\ QueryInv'
    BY <1>5, <1>a, <1>b, <1>c DEF Fill, Return, TypeOK
  <2>6. AnswerMatchesRow'
    BY <1>5, <2>1 DEF Fill, Return, TypeOK, AnswerMatchesRow, Returned
  <2>7. QED
    BY <2>3, <2>4, <2>5, <2>6
<1>6. CASE Throws(r)
  <2>1. TypeOK'
    BY <1>6 DEF Throws, TypeOK, adminVars
  <2>2. EntryInv'
    BY <1>6 DEF Throws, EntryInv, Encode, adminVars
  <2>3. ClockInv'
    <3>1. since' = since
      BY <1>6 DEF Throws
    <3>2. \A q \in Reader : q \in Busy' => q \in Busy
      BY <1>6, <1>c, <1>c0 DEF Throws
    <3>3. QED
      BY <1>a, <3>1, <3>2
  <2>4. QueryInv'
    BY <1>6, <1>b DEF Throws, TypeOK
  <2>5. AnswerMatchesRow'
    BY <1>6 DEF Throws, TypeOK, AnswerMatchesRow, Returned, adminVars
  <2>6. QED
    BY <2>1, <2>2, <2>3, <2>4, <2>5
<1>7. CASE Leave(r)
  <2>1. TypeOK'
    BY <1>7 DEF Leave, TypeOK, adminVars
  <2>2. EntryInv'
    BY <1>7 DEF Leave, EntryInv, Encode, adminVars
  <2>3. ClockInv'
    <3>1. since' = since
      BY <1>7 DEF Leave
    <3>2. \A q \in Reader : q \in Busy' => q \in Busy
      BY <1>7, <1>c, <1>c0 DEF Leave
    <3>3. QED
      BY <1>a, <3>1, <3>2
  <2>4. QueryInv'
    BY <1>7, <1>b DEF Leave, TypeOK
  <2>5. AnswerMatchesRow'
    BY <1>7 DEF Leave, TypeOK, AnswerMatchesRow, Returned, adminVars
  <2>6. QED
    BY <2>1, <2>2, <2>3, <2>4, <2>5
<1>8. QED
  BY <1>1, <1>2, <1>3, <1>4, <1>5, <1>6, <1>7

\* A change of the row turns current states into states replaced now.
LEMMA ChangeRowStep == ASSUME CacheInv, ChangeRow PROVE CacheInv'
<1> USE CacheAssumption DEF CacheInv, ChangeRow, Version, readVars
<1>1. TypeOK'
  BY DEF TypeOK
<1>2. EntryInv'
  BY DEF TypeOK, EntryInv, Encode, Nothing
<1>3. ClockInv' /\ AnswerMatchesRow'
  BY DEF TypeOK, ClockInv, Busy, AnswerMatchesRow, Returned
<1>4. QueryInv'
  BY DEF TypeOK, QueryInv, ClockInv, Busy
<1>5. QED
  BY <1>1, <1>2, <1>3, <1>4

LEMMA DeleteKeyStep == ASSUME CacheInv, DeleteKey PROVE CacheInv'
<1> USE CacheAssumption DEF CacheInv, DeleteKey, adminVars, readVars
<1>1. TypeOK'
  BY DEF TypeOK, Nothing, Version
<1>2. EntryInv'
  BY DEF EntryInv, Nothing
<1>3. ClockInv' /\ QueryInv'
  BY DEF ClockInv, QueryInv, Busy
<1>4. AnswerMatchesRow'
  BY DEF AnswerMatchesRow, Returned
<1>5. QED
  BY <1>1, <1>2, <1>3, <1>4

LEMMA TickStep == ASSUME CacheInv, Tick PROVE CacheInv'
<1> USE CacheAssumption DEF CacheInv, Tick, adminVars, readVars
<1>1. TypeOK'
  BY DEF TypeOK, Nothing, Version
<1>2. EntryInv'
  BY DEF TypeOK, EntryInv, Encode, Nothing, Version
<1>3. ClockInv'
  BY DEF TypeOK, ClockInv, Busy
<1>4. QueryInv' /\ AnswerMatchesRow'
  BY DEF TypeOK, QueryInv, AnswerMatchesRow, Returned
<1>5. QED
  BY <1>1, <1>2, <1>3, <1>4

LEMMA StutterStep == ASSUME CacheInv, UNCHANGED vars PROVE CacheInv'
<1> USE DEF CacheInv, vars, adminVars, readVars
<1>1. TypeOK' /\ EntryInv'
  BY DEF TypeOK, EntryInv, Encode
<1>2. ClockInv' /\ QueryInv' /\ AnswerMatchesRow'
  BY DEF ClockInv, QueryInv, Busy, AnswerMatchesRow, Returned
<1>3. QED
  BY <1>1, <1>2

\* The inductive invariant: entries, clocks and queries in flight agree with
\* the history of the row.
THEOREM CacheInvariant == Spec => []CacheInv
<1>1. CacheInv /\ [Next]_vars => CacheInv'
  BY LookupStep, ChangeRowStep, DeleteKeyStep, TickStep, StutterStep DEF Next
<1>2. QED
  BY InitHolds, <1>1, PTL DEF Spec

-----------------------------------------------------------------------------
\* Every variable keeps its type: the clock, the table and the entry their bounds.
THEOREM CacheTypeCorrect == Spec => []TypeOK
  BY CacheInvariant, PTL DEF CacheInv

\* A stored "no such row" is never read as a row, nor a row as its absence.
THEOREM AnswersMatch == Spec => []AnswerMatchesRow
  BY CacheInvariant, PTL DEF CacheInv

\* What one step returns was current less than TTL + MaxLatency ago.
LEMMA ReturnIsFresh ==
  ASSUME CacheInv, [Next]_vars, NEW r \in Reader, ~Returned(r), Returned(r)'
  PROVE  got'[r] = table \/ now <= superseded[got'[r]] + TTL + MaxLatency
<1> USE CacheAssumption DEF CacheInv, Returned
<1>1. GetHit(r) \/ Fill(r)
  <2>1. ASSUME NEW q \in Reader, q # r,
               Begin(q) \/ GetHit(q) \/ GetMiss(q) \/ Query(q) \/ Fill(q) \/ Throws(q) \/ Leave(q)
        PROVE  stage'[r] = stage[r]
    BY <2>1 DEF Begin, GetHit, GetMiss, Query, Fill, Throws, Leave, Return, TypeOK
  <2>2. ~(Begin(r) \/ GetMiss(r) \/ Query(r) \/ Throws(r) \/ Leave(r))
    BY DEF Begin, GetMiss, Query, Throws, Leave, TypeOK
  <2>3. ~(ChangeRow \/ DeleteKey \/ Tick \/ UNCHANGED vars)
    BY DEF ChangeRow, DeleteKey, Tick, vars, readVars
  <2>4. QED
    BY <2>1, <2>2, <2>3 DEF Next
<1>2. CASE GetHit(r)
  <2>1. redis # Nothing /\ got'[r] = redis.version
    BY <1>2 DEF GetHit, Return, Hit, Nothing, TypeOK
  <2>2. QED
    BY <2>1 DEF EntryInv, TypeOK, Version
<1>3. CASE Fill(r)
  <2>1. stage[r] = "fill" /\ r \in Busy /\ got'[r] = got[r]
    BY <1>3 DEF Fill, Return, Busy, TypeOK
  <2>2. got[r] = table \/ (since[r] <= superseded[got[r]] /\ now <= since[r] + MaxLatency)
    BY <2>1 DEF QueryInv, ClockInv
  <2>3. now \in Nat /\ since[r] \in Nat /\ superseded[got[r]] \in Nat
    BY DEF TypeOK
  <2>4. QED
    BY <2>1, <2>2, <2>3
<1>4. QED
  BY <1>1, <1>2, <1>3

\* No call returns a state that was replaced longer than TTL + MaxLatency ago.
THEOREM StalenessIsBounded == Spec => StalenessBounded
<1>1. CacheInv /\ [Next]_vars =>
        [\A r \in Reader :
           ~Returned(r) /\ Returned(r)' =>
             got'[r] = table \/ now <= superseded[got'[r]] + TTL + MaxLatency]_vars
  BY ReturnIsFresh
<1>2. QED
  BY <1>1, CacheInvariant, PTL DEF Spec, StalenessBounded

\* A call that hits or begins queries nothing, a miss finds no entry, and a
\* fill stores one that is no older than any call in the lookup.
LEMMA EntryOutlivesQueries ==
  ASSUME CacheInv, QueriesPredateEntry, [Next]_vars
  PROVE  QueriesPredateEntry'
<1> USE CacheAssumption DEF QueriesPredateEntry, CacheInv
<1>1. ASSUME NEW q \in Reader, Fill(q)
      PROVE  QueriesPredateEntry'
  <2>1. redis'.expires = now + TTL
    BY <1>1 DEF Fill
  <2>2. SUFFICES ASSUME NEW r \in Reader, stage'[r] \in {"query", "fill"}
                 PROVE  since'[r] + TTL <= redis'.expires
    OBVIOUS
  <2>3. stage[r] \in {"query", "fill"} /\ since'[r] = since[r]
    BY <1>1, <2>2 DEF Fill, Return, TypeOK
  <2>4. since[r] <= now /\ since[r] \in Nat /\ now \in Nat
    BY <2>3 DEF ClockInv, Busy, TypeOK
  <2>5. QED
    BY <2>1, <2>3, <2>4
<1>2. ASSUME NEW q \in Reader, GetMiss(q)
      PROVE  QueriesPredateEntry'
  <2>1. redis = Nothing
    BY <1>2, Encoding DEF GetMiss, Hit, EntryInv, TypeOK
  <2>2. QED
    BY <1>2, <2>1 DEF GetMiss
<1>3. ASSUME NEW q \in Reader, Begin(q) \/ GetHit(q) \/ Query(q) \/ Throws(q) \/ Leave(q)
      PROVE  QueriesPredateEntry'
  BY <1>3 DEF Begin, GetHit, Query, Throws, Leave, Return, TypeOK
<1>4. CASE ChangeRow
  BY <1>4 DEF ChangeRow, readVars
<1>5. CASE DeleteKey \/ Tick
  BY <1>5 DEF DeleteKey, Tick, readVars
<1>6. CASE UNCHANGED vars
  BY <1>6 DEF vars, readVars
<1>7. QED
  BY <1>1, <1>2, <1>3, <1>4, <1>5, <1>6 DEF Next

\* A stored answer, "no such row" included, spares ClickHouse while it lives:
\* only calls that had missed before it was stored still query.
THEOREM EntrySparesClickHouse == Spec => []QueriesPredateEntry
<1>1. Init => QueriesPredateEntry
  BY DEF Init, QueriesPredateEntry
<1>2. CacheInv /\ QueriesPredateEntry /\ [Next]_vars => QueriesPredateEntry'
  BY EntryOutlivesQueries
<1>3. QED
  BY <1>1, <1>2, CacheInvariant, PTL DEF Spec

-----------------------------------------------------------------------------
(***************************************************************************)
(* ConfigCache implements StaleRegister.                                   *)
(***************************************************************************)
\* What the register shows of the calls.
AnswerMap == [r \in Reader |-> IF r \in Busy THEN "reading" ELSE stage[r]]

\* A step of one call that leaves clock and row alone moves its answer only.
LEMMA AnswerMoves ==
  ASSUME CacheInv, NEW r \in Reader, NEW s, stage' = [stage EXCEPT ![r] = s]
  PROVE  AnswerMap' = [AnswerMap EXCEPT ![r] =
                         IF s \in {"get", "query", "fill"} THEN "reading" ELSE s]
<1>1. \A q \in Reader : stage'[q] = IF q = r THEN s ELSE stage[q]
  BY DEF CacheInv, TypeOK
<1>2. QED
  BY <1>1 DEF AnswerMap, Busy

\* A lookup that returns in a state of the register that is recent enough.
LEMMA ReturnSimulates ==
  ASSUME CacheInv, NEW r \in Reader, r \in Busy, NEW v \in Version,
         v <= table, v = table \/ now <= superseded[v] + TTL + MaxLatency,
         stage' = [stage EXCEPT ![r] = IF v \in Occupied THEN "row" ELSE "no_row"],
         UNCHANGED <<now, adminVars>>
  PROVE  Register!Next
<1>1. v \in Register!Recent
  <2>1. superseded[v] \in Nat /\ now \in Nat /\ table \in Nat /\ v \in Nat
    <3>1. now \in 0..MaxTime /\ superseded[v] \in 0..MaxTime
      BY DEF CacheInv, TypeOK
    <3>2. table \in 0..MaxVersion /\ v \in 0..MaxVersion
      BY DEF CacheInv, TypeOK, Version
    <3>3. QED
      BY <3>1, <3>2
  <2>2. TTL \in Nat /\ MaxLatency \in Nat
    BY CacheAssumption
  <2>3. v = table \/ (v < table /\ now <= superseded[v] + (TTL + MaxLatency))
    BY <2>1, <2>2
  <2>4. QED
    BY <2>3 DEF Register!Recent
<1>2. AnswerMap[r] = "reading"
  BY DEF AnswerMap
<1>3. AnswerMap' = [AnswerMap EXCEPT ![r] = IF v \in Occupied THEN "row" ELSE "no_row"]
  BY AnswerMoves
<1>4. Register!Return(r)
  BY <1>1, <1>2, <1>3 DEF Register!Return, Register!Goes, AnswerMap, adminVars
<1>5. QED
  BY <1>4 DEF Register!Next

\* A hit answers with the entry's state, the end of a miss with the query's.
LEMMA LookupSimulates ==
  ASSUME CacheInv, NEW r \in Reader,
         Begin(r) \/ GetHit(r) \/ GetMiss(r) \/ Query(r) \/ Fill(r) \/ Throws(r) \/ Leave(r)
  PROVE  [Register!Next]_(Register!registerVars)
<1> USE DEF adminVars
<1>1. CASE GetHit(r)
  <2>1. redis # Nothing /\ (Decode(redis.raw) <=> redis.version \in Occupied)
    BY <1>1, Encoding DEF GetHit, Hit, Nothing, CacheInv, EntryInv, TypeOK
  <2>2. /\ redis.version \in Version /\ redis.version <= table
        /\ redis.version = table \/ now <= superseded[redis.version] + TTL + MaxLatency
    BY <2>1, CacheAssumption DEF CacheInv, EntryInv, TypeOK, Version
  <2>3. r \in Busy
    BY <1>1 DEF GetHit, Busy
  <2>4. QED
    BY <1>1, <2>1, <2>2, <2>3, ReturnSimulates DEF GetHit, Return
<1>2. CASE Fill(r)
  <2>1. r \in Busy /\ (Decode(Encode(got[r])) <=> got[r] \in Occupied)
    BY <1>2, Encoding DEF Fill, Busy, CacheInv, TypeOK
  <2>2. /\ got[r] \in Version /\ got[r] <= table
        /\ got[r] = table \/ (since[r] <= superseded[got[r]] /\ now <= since[r] + MaxLatency)
    BY <1>2, <2>1 DEF Fill, CacheInv, TypeOK, QueryInv, ClockInv
  <2>3. now \in Nat /\ since[r] \in Nat /\ superseded[got[r]] \in Nat
    BY <2>2 DEF CacheInv, TypeOK
  <2>4. got[r] = table \/ now <= superseded[got[r]] + TTL + MaxLatency
    BY <2>2, <2>3, CacheAssumption
  <2>5. QED
    BY <1>2, <2>1, <2>2, <2>4, ReturnSimulates DEF Fill, Return
<1>3. CASE GetMiss(r) \/ Query(r)
  <2>1. r \in Busy /\ \E s \in {"query", "fill"} : stage' = [stage EXCEPT ![r] = s]
    BY <1>3 DEF GetMiss, Query, Busy
  <2>2. AnswerMap[r] = "reading" /\ AnswerMap' = [AnswerMap EXCEPT ![r] = "reading"]
    BY <2>1, AnswerMoves DEF AnswerMap
  <2>3. AnswerMap' = AnswerMap
    BY <2>2 DEF AnswerMap
  <2>4. QED
    BY <1>3, <2>3 DEF GetMiss, Query, Register!registerVars, AnswerMap
<1>4. CASE Begin(r)
  <2>1. AnswerMap[r] = "idle" /\ AnswerMap' = [AnswerMap EXCEPT ![r] = "reading"]
    BY <1>4, AnswerMoves DEF Begin, AnswerMap, Busy
  <2>2. QED
    BY <1>4, <2>1 DEF Begin, Register!Next, Register!Ask, Register!Goes, AnswerMap
<1>5. CASE Throws(r)
  <2>1. AnswerMap[r] = "reading" /\ AnswerMap' = [AnswerMap EXCEPT ![r] = "thrown"]
    BY <1>5, AnswerMoves DEF Throws, AnswerMap
  <2>2. QED
    BY <1>5, <2>1 DEF Throws, Register!Next, Register!Fail, Register!Goes, AnswerMap
<1>6. CASE Leave(r)
  <2>1. /\ AnswerMap[r] \in {"row", "no_row", "thrown"}
        /\ AnswerMap' = [AnswerMap EXCEPT ![r] = "idle"]
    BY <1>6, AnswerMoves DEF Leave, AnswerMap, Busy
  <2>2. QED
    BY <1>6, <2>1 DEF Leave, Register!Next, Register!Leave, Register!Goes, AnswerMap
<1>7. QED
  BY <1>1, <1>2, <1>3, <1>4, <1>5, <1>6

\* Every step of the cache is one of the register, or does not show.
LEMMA StepSimulates ==
  ASSUME CacheInv, [Next]_vars
  PROVE  [Register!Next]_(Register!registerVars)
<1>1. UNCHANGED readVars => AnswerMap' = AnswerMap
  BY DEF readVars, AnswerMap, Busy
<1>2. CASE ChangeRow
  <2>1. table + 1 \in Version
    BY <1>2, CacheAssumption DEF ChangeRow, CacheInv, TypeOK, Version
  <2>2. QED
    BY <1>1, <1>2, <2>1 DEF ChangeRow, Register!Next, Register!Change, AnswerMap
<1>3. CASE Tick
  BY <1>1, <1>3 DEF Tick, adminVars, Register!Next, Register!Tick, AnswerMap
<1>4. CASE DeleteKey \/ UNCHANGED vars
  BY <1>1, <1>4 DEF DeleteKey, vars, adminVars, Register!registerVars, AnswerMap
<1>5. QED
  BY <1>2, <1>3, <1>4, LookupSimulates DEF Next

(***************************************************************************)
(* serviceConfig.js:17-21: callers cannot tell the cache from a register   *)
(* that is read in one step and never staler than the TTL and one lookup,  *)
(* for any number of calls, any TTL, any latency and any history.          *)
(***************************************************************************)
THEOREM CacheIsStaleRegister == Spec => IsStaleRegister
<1>1. Init => Register!Init
  <2>1. Init => AnswerMap = [r \in Reader |-> "idle"]
    BY DEF Init, AnswerMap, Busy
  <2>2. QED
    BY <2>1 DEF Init, Register!Init, AnswerMap
<1>2. CacheInv /\ [Next]_vars => [Register!Next]_(Register!registerVars)
  BY StepSimulates
<1>3. QED
  BY <1>1, <1>2, CacheInvariant, PTL DEF Spec, IsStaleRegister, Register!Spec

-----------------------------------------------------------------------------
\* No call is about to store a state of the row that is not the current one.
QueriesCurrent == \A r \in Reader : stage[r] = "fill" => got[r] = table

\* Neither does the key hold one.
Fresh == QueriesCurrent /\ (redis # Nothing => redis.version = table)

(***************************************************************************)
(* serviceConfig.js:21-23: deleting the key makes a change apply at once,  *)
(* unless a call that queried before the change has yet to store what it   *)
(* saw; from then on every call gets the current state, until the row is   *)
(* changed again.                                                          *)
(***************************************************************************)
DeletionApplies ==
  [][/\ DeleteKey /\ QueriesCurrent => Fresh'
     /\ Fresh /\ table' = table =>
          Fresh' /\ \A r \in Reader : ~Returned(r) /\ Returned(r)' => got'[r] = table]_vars

\* While the row stays as it is, nothing old comes back.
LEMMA FreshStep ==
  ASSUME CacheInv, Fresh, [Next]_vars, table' = table
  PROVE  Fresh' /\ \A r \in Reader : ~Returned(r) /\ Returned(r)' => got'[r] = table
<1> USE DEF Fresh, QueriesCurrent, Returned
<1>1. ASSUME NEW r \in Reader,
             Begin(r) \/ GetHit(r) \/ GetMiss(r) \/ Query(r) \/ Fill(r) \/ Throws(r) \/ Leave(r)
      PROVE  Fresh' /\ \A q \in Reader : ~Returned(q) /\ Returned(q)' => got'[q] = table
  <2> USE DEF CacheInv, TypeOK
  <2>1. CASE GetHit(r)
    <3>1. redis # Nothing
      BY <2>1 DEF GetHit, Hit, Nothing
    <3>2. QED
      BY <2>1, <3>1 DEF GetHit, Return
  <2>2. CASE Fill(r)
    <3>1. redis' = [raw |-> Encode(got[r]), version |-> got[r], expires |-> now + TTL]
          /\ got[r] = table
      BY <2>2 DEF Fill
    <3>2. redis'.version = table
      BY <3>1
    <3>3. QED
      BY <2>2, <3>1, <3>2 DEF Fill, Return
  <2>3. CASE Query(r)
    BY <2>3 DEF Query, adminVars
  <2>4. CASE Begin(r) \/ GetMiss(r) \/ Throws(r) \/ Leave(r)
    BY <2>4 DEF Begin, GetMiss, Throws, Leave, adminVars
  <2>5. QED
    BY <1>1, <2>1, <2>2, <2>3, <2>4
<1>2. CASE ChangeRow
  BY <1>2 DEF ChangeRow, CacheInv, TypeOK, Version
<1>3. CASE DeleteKey \/ Tick \/ UNCHANGED vars
  BY <1>3 DEF DeleteKey, Tick, vars, adminVars, readVars
<1>4. QED
  BY <1>1, <1>2, <1>3 DEF Next

\* After a deletion that no older query overtakes, every call gets the row as
\* it is, for any number of calls and however they interleave.
THEOREM DeletedKeyStaysFresh == Spec => DeletionApplies
<1>1. CacheInv /\ [Next]_vars =>
        [/\ DeleteKey /\ QueriesCurrent => Fresh'
         /\ Fresh /\ table' = table =>
              Fresh' /\ \A r \in Reader : ~Returned(r) /\ Returned(r)' => got'[r] = table]_vars
  <2>1. DeleteKey /\ QueriesCurrent => Fresh'
    BY DEF DeleteKey, QueriesCurrent, Fresh, adminVars, readVars
  <2>2. QED
    BY <2>1, FreshStep
<1>2. QED
  BY <1>1, CacheInvariant, PTL DEF Spec, DeletionApplies
=============================================================================
