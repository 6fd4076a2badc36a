-------------------------- MODULE TokenAuthProofs --------------------------
(***************************************************************************)
(* TokenAuth for any number of requests, tokens, subjects and restarts:    *)
(* local mode passes only confirmed pairings of subject and sender_id,     *)
(* introspect mode only confirmed tokens.                                  *)
(***************************************************************************)
EXTENDS TokenAuth, TLAPS

\* What is stored was confirmed: rows, the key in front of them, the
\* mappings being learned, and the cached verdicts.
StoreInv ==
  /\ recorded \subseteq confirmed
  /\ \A u \in Subject : latest[u] # NoSender => <<u, latest[u]>> \in recorded
  /\ CacheBehindTable
  /\ \A l \in learning :
       /\ <<l.sub, l.sender>> \in confirmed
       /\ l.step = "set" => <<l.sub, l.sender>> \in recorded
  /\ \A t \in Token : verdict[t] = "valid" => t \in validated

\* A stage belongs to a mode, and is reached with what it relies on.
StageOK(r) ==
  /\ stage[r] \in Busy \cup {"next"} => sender[r] \in Sender
  /\ stage[r] \in {"cached", "store_valid", "store_invalid"} => mode = "introspect"
  /\ stage[r] \in {"local", "known", "query", "fill", "record", "remember"} => mode = "local"
  /\ stage[r] = "fill" /\ seen[r] # NoSender => <<SubjectOf(r), seen[r]>> \in recorded
  /\ stage[r] = "store_valid" => token[r] \in validated /\ Pair(r) \in confirmed
  /\ stage[r] = "record" => Pair(r) \in confirmed
  /\ stage[r] = "remember" => Pair(r) \in recorded
  /\ stage[r] = "next" => IF mode = "local" THEN Pair(r) \in confirmed
                                            ELSE token[r] \in validated

AuthInv == TypeOK /\ StoreInv /\ \A r \in Request : StageOK(r)

-----------------------------------------------------------------------------
LEMMA AuthInit == Init => AuthInv
<1> SUFFICES ASSUME Init PROVE AuthInv
  OBVIOUS
<1> USE AuthAssumption DEF Init
<1>1. token \in [Request -> Token]
  <2>1. (CHOOSE t \in Token : TRUE) \in Token
    BY Zenon
  <2>2. QED
    BY <2>1
<1>2. TypeOK
  <2>1. /\ stage \in [Request -> Busy \cup Left \cup {"idle"}]
        /\ sender \in [Request -> Sender \cup {NoSender}]
        /\ seen \in [Request -> Sender \cup {NoSender}]
        /\ restarts \in 0..MaxRestarts
    OBVIOUS
  <2>2. /\ verdict \in [Token -> {"none", "valid", "invalid"}]
        /\ tokenState \in [Token -> {"live", "revoked", "expired"}]
        /\ subjectCache \in [Subject -> Sender \cup {NoSender, Missing}]
        /\ latest \in [Subject -> Sender \cup {NoSender}]
    OBVIOUS
  <2>3. QED
    BY <1>1, <2>1, <2>2, Zenon DEF TypeOK
<1>3. StoreInv
  <2>1. Missing \notin Sender
    OBVIOUS
  <2>2. QED
    BY <2>1 DEF StoreInv, CacheBehindTable
<1>4. \A r \in Request : StageOK(r)
  BY DEF StageOK, Busy
<1>5. QED
  BY <1>2, <1>3, <1>4 DEF AuthInv

\* A request whose own variables stay keeps its part of the invariant while
\* others are confirmed and recorded.
LEMMA OthersStay ==
  ASSUME NEW q \in Request, StageOK(q), mode' = mode,
         stage'[q] = stage[q], token'[q] = token[q], sender'[q] = sender[q], seen'[q] = seen[q],
         validated \subseteq validated', confirmed \subseteq confirmed', recorded \subseteq recorded'
  PROVE  StageOK(q)'
BY DEF StageOK, Pair, SubjectOf

\* Steps that change only where a request is.
LEMMA StageStep ==
  ASSUME AuthInv, NEW r \in Request,
         \/ \E t \in Token, s \in Sender : Arrive(r, t, s)
         \/ ArriveIncomplete(r) \/ Leave(r) \/ Throws(r) \/ LocalCheck(r) \/ KnownHit(r)
         \/ KnownMiss(r) \/ KnownQuery(r) \/ CachedHit(r) \/ CachedMiss(r) \/ IntrospectRejects(r)
  PROVE  AuthInv'
<1> USE AuthAssumption DEF AuthInv
<1> DEFINE S == Busy \cup Left \cup {"idle"}
<1>1. UNCHANGED <<processVars, cacheVars, nmVars>>
  BY DEF Arrive, ArriveIncomplete, Leave, Throws, LocalCheck, KnownHit, KnownMiss, KnownQuery,
         CachedHit, CachedMiss, IntrospectRejects
<1>2. StoreInv'
  BY <1>1 DEF StoreInv, CacheBehindTable, cacheVars, nmVars
<1>3. PICK st \in S, tk \in Token, sn, se \in Sender \cup {NoSender} :
        /\ stage' = [stage EXCEPT ![r] = st] /\ token' = [token EXCEPT ![r] = tk]
        /\ sender' = [sender EXCEPT ![r] = sn] /\ seen' = [seen EXCEPT ![r] = se]
  <2>1. ASSUME NEW st \in S, stage' = [stage EXCEPT ![r] = st], UNCHANGED <<token, sender, seen>>
        PROVE  \E tk \in Token, sn, se \in Sender \cup {NoSender} :
                 /\ token' = [token EXCEPT ![r] = tk] /\ sender' = [sender EXCEPT ![r] = sn]
                 /\ seen' = [seen EXCEPT ![r] = se]
    BY <2>1 DEF TypeOK
  <2>2. CASE \E t \in Token, s \in Sender : Arrive(r, t, s)
    <3>1. PICK t \in Token, s \in Sender : Arrive(r, t, s)
      BY <2>2
    <3>2. seen' = [seen EXCEPT ![r] = seen[r]] /\ seen[r] \in Sender \cup {NoSender}
      BY <3>1 DEF Arrive, TypeOK
    <3>3. QED
      BY <3>1, <3>2 DEF Arrive, Goto, Busy
  <2>3. CASE Leave(r)
    <3>1. token' = [token EXCEPT ![r] = token[r]] /\ token[r] \in Token
      BY <2>3 DEF Leave, TypeOK
    <3>2. QED
      BY <2>3, <3>1 DEF Leave, Goto
  <2>4. CASE KnownQuery(r)
    <3>1. /\ token' = [token EXCEPT ![r] = token[r]] /\ token[r] \in Token
          /\ sender' = [sender EXCEPT ![r] = sender[r]] /\ sender[r] \in Sender \cup {NoSender}
          /\ latest[SubjectOf(r)] \in Sender \cup {NoSender}
      BY <2>4 DEF KnownQuery, TypeOK, SubjectOf
    <3>2. QED
      BY <2>4, <3>1 DEF KnownQuery, Goto, Busy
  <2>5. CASE \/ ArriveIncomplete(r) \/ Throws(r) \/ LocalCheck(r) \/ KnownHit(r)
             \/ KnownMiss(r) \/ CachedHit(r) \/ CachedMiss(r) \/ IntrospectRejects(r)
    <3>1. UNCHANGED <<token, sender, seen>>
      BY <2>5 DEF ArriveIncomplete, Throws, LocalCheck, KnownHit, KnownMiss, CachedHit,
                  CachedMiss, IntrospectRejects
    <3>2. PICK st \in S : stage' = [stage EXCEPT ![r] = st]
      BY <2>5 DEF ArriveIncomplete, Throws, LocalCheck, KnownHit, KnownMiss, CachedHit,
                  CachedMiss, IntrospectRejects, Compare, Goto, Busy, Left
    <3>3. QED
      BY <3>1, <3>2, <2>1
  <2>6. QED
    BY <2>2, <2>3, <2>4, <2>5, Zenon
<1>4. TypeOK'
  BY <1>1, <1>3 DEF TypeOK, processVars, cacheVars, nmVars
<1>5. StageOK(r)'
  <2> USE DEF TypeOK, StageOK, Pair, SubjectOf, Busy, Left, Goto, processVars, cacheVars, nmVars
  <2>1. CASE \E t \in Token, s \in Sender : Arrive(r, t, s)
    BY <2>1 DEF Arrive
  <2>2. CASE ArriveIncomplete(r) \/ Leave(r) \/ Throws(r)
    BY <2>2 DEF ArriveIncomplete, Leave, Throws
  <2>3. CASE LocalCheck(r) \/ KnownMiss(r)
    BY <2>3 DEF LocalCheck, KnownMiss
  <2>4. CASE KnownHit(r)
    <3>1. sender[r] \in Sender /\ mode = "local" /\ SubjectOf(r) \in Subject
      BY <2>4 DEF KnownHit
    <3>2. subjectCache[SubjectOf(r)] = sender[r] => Pair(r) \in confirmed
      BY <3>1 DEF StoreInv, CacheBehindTable
    <3>3. QED
      BY <2>4, <3>1, <3>2 DEF KnownHit, Compare
  <2>5. CASE KnownQuery(r)
    BY <2>5 DEF KnownQuery, StoreInv
  <2>6. CASE CachedHit(r)
    BY <2>6 DEF CachedHit, StoreInv
  <2>7. CASE CachedMiss(r) \/ IntrospectRejects(r)
    BY <2>7 DEF CachedMiss, IntrospectRejects
  <2>8. QED
    BY <2>1, <2>2, <2>3, <2>4, <2>5, <2>6, <2>7
<1>6. ASSUME NEW q \in Request, q # r PROVE StageOK(q)'
  BY <1>1, <1>3, <1>6, OthersStay DEF TypeOK, processVars, cacheVars, nmVars
<1>7. QED
  BY <1>2, <1>4, <1>5, <1>6

-----------------------------------------------------------------------------
(* Steps of one request that also write a cache or ask the Network Manager. *)

LEMMA FillStep == ASSUME AuthInv, NEW r \in Request, KnownFill(r) PROVE AuthInv'
<1> USE AuthAssumption DEF AuthInv, KnownFill, Compare, Goto, processVars, nmVars
<1>1. /\ SubjectOf(r) \in Subject /\ sender[r] \in Sender
      /\ seen[r] \in Sender \cup {NoSender}
      /\ seen[r] # NoSender => <<SubjectOf(r), seen[r]>> \in recorded
  BY DEF TypeOK, StageOK, SubjectOf, Busy
<1>2. TypeOK'
  BY <1>1 DEF TypeOK, Busy, Left
<1>3. StoreInv'
  <2>1. NoSender \notin Sender /\ DOMAIN subjectCache = Subject
    BY DEF TypeOK
  <2>2. CacheBehindTable'
    BY <1>1, <2>1 DEF StoreInv, CacheBehindTable
  <2>3. QED
    BY <2>2 DEF StoreInv
<1>4. StageOK(r)'
  BY <1>1 DEF TypeOK, StoreInv, StageOK, Pair, SubjectOf, Busy
<1>5. ASSUME NEW q \in Request, q # r PROVE StageOK(q)'
  BY <1>5, OthersStay DEF TypeOK
<1>6. QED
  BY <1>2, <1>3, <1>4, <1>5

LEMMA LoginStep == ASSUME AuthInv, NEW r \in Request, Login(r) PROVE AuthInv'
<1> USE AuthAssumption DEF AuthInv, Login, Goto, processVars, nmVars
<1>1. TypeOK'
  BY DEF TypeOK, Busy
<1>2. StoreInv'
  BY DEF StoreInv, CacheBehindTable
<1>3. StageOK(r)'
  BY DEF TypeOK, StageOK, Busy
<1>4. ASSUME NEW q \in Request, q # r PROVE StageOK(q)'
  BY <1>4, OthersStay DEF TypeOK
<1>5. QED
  BY <1>1, <1>2, <1>3, <1>4

LEMMA ConfirmStep == ASSUME AuthInv, NEW r \in Request, IntrospectConfirms(r) PROVE AuthInv'
<1> USE AuthAssumption DEF AuthInv, IntrospectConfirms, Goto, processVars, cacheVars
<1>1. Pair(r) \in Subject \X Sender /\ token[r] \in Token
  BY DEF TypeOK, StageOK, Pair, SubjectOf, Busy
<1>2. TypeOK'
  BY <1>1 DEF TypeOK, Busy
<1>3. StoreInv'
  BY DEF StoreInv, CacheBehindTable
<1>4. StageOK(r)'
  BY DEF TypeOK, StageOK, Pair, SubjectOf, Busy
<1>5. ASSUME NEW q \in Request, q # r PROVE StageOK(q)'
  BY <1>5, OthersStay DEF TypeOK
<1>6. QED
  BY <1>2, <1>3, <1>4, <1>5

LEMMA StoreStep == ASSUME AuthInv, NEW r \in Request, Store(r) PROVE AuthInv'
<1> USE AuthAssumption DEF AuthInv, Store, Goto, processVars, nmVars
<1> DEFINE l == [sub |-> SubjectOf(r), sender |-> sender[r], step |-> "insert"]
<1>1. /\ l \in [sub : Subject, sender : Sender, step : {"insert", "set"}]
      /\ <<l.sub, l.sender>> = Pair(r) /\ l.step = "insert"
      /\ stage[r] = "store_valid" => token[r] \in validated /\ Pair(r) \in confirmed
  BY DEF TypeOK, StageOK, Pair, SubjectOf, Busy
<1>2. \/ learning' = learning \cup {l} /\ stage[r] = "store_valid"
      \/ learning' = learning
  OBVIOUS
<1> HIDE DEF l
<1>3. TypeOK'
  <2>1. learning' \subseteq [sub : Subject, sender : Sender, step : {"insert", "set"}]
    BY <1>1, <1>2 DEF TypeOK
  <2>2. verdict' \in [Token -> {"none", "valid", "invalid"}] /\ tied' \subseteq Token
    BY DEF TypeOK
  <2>3. stage' \in [Request -> Busy \cup Left \cup {"idle"}]
    BY DEF TypeOK, Left
  <2>4. QED
    BY <2>1, <2>2, <2>3 DEF TypeOK
<1>4. StoreInv'
  <2>1. \A m \in learning' :
          /\ <<m.sub, m.sender>> \in confirmed
          /\ m.step = "set" => <<m.sub, m.sender>> \in recorded
    BY <1>1, <1>2 DEF StoreInv
  <2>2. \A t \in Token : verdict'[t] = "valid" => t \in validated
    BY <1>1 DEF StoreInv, TypeOK
  <2>3. QED
    BY <2>1, <2>2 DEF StoreInv, CacheBehindTable
<1>5. StageOK(r)'
  BY <1>1 DEF TypeOK, StageOK, Pair, SubjectOf, Busy
<1>6. ASSUME NEW q \in Request, q # r PROVE StageOK(q)'
  BY <1>6, OthersStay DEF TypeOK
<1>7. QED
  BY <1>3, <1>4, <1>5, <1>6

\* A confirmed pair is inserted, and a recorded one put into Redis.
LEMMA InsertKeeps ==
  ASSUME AuthInv, NEW pair \in confirmed, InsertRow(pair)
  PROVE  /\ latest' \in [Subject -> Sender \cup {NoSender}]
         /\ recorded' \subseteq Subject \X Sender
         /\ pair \in recorded' /\ recorded \subseteq recorded' /\ recorded' \subseteq confirmed
         /\ \A u \in Subject : latest'[u] # NoSender => <<u, latest'[u]>> \in recorded'
<1> USE DEF AuthInv, InsertRow
<1>1. PICK u \in Subject, s \in Sender : pair = <<u, s>>
  BY DEF TypeOK
<1>2. QED
  BY <1>1 DEF TypeOK, StoreInv

LEMMA SetKeeps ==
  ASSUME AuthInv, NEW pair \in recorded, SetKey(pair)
  PROVE  /\ subjectCache' \in [Subject -> Sender \cup {NoSender, Missing}]
         /\ \A u \in Subject : subjectCache'[u] \in Sender => <<u, subjectCache'[u]>> \in recorded
<1> USE DEF AuthInv, SetKey
<1>1. PICK u \in Subject, s \in Sender : pair = <<u, s>>
  BY DEF TypeOK
<1>2. QED
  BY <1>1 DEF TypeOK, StoreInv, CacheBehindTable

LEMMA RecordStep == ASSUME AuthInv, NEW r \in Request, Record(r) PROVE AuthInv'
<1> USE AuthAssumption DEF AuthInv, processVars, nmVars
<1>1. CASE stage[r] = "record"
  <2>1. InsertRow(Pair(r)) /\ Goto(r, "remember") /\ Pair(r) \in confirmed
    BY <1>1 DEF Record, StageOK
  <2>2. /\ UNCHANGED <<processVars, token, sender, seen, serviceToken, verdict, tied, learning,
                       nmVars, subjectCache>>
        /\ Pair(r)' = Pair(r)
    BY <1>1 DEF Record, Pair, SubjectOf
  <2>3. TypeOK'
    BY <1>1, <2>1, <2>2, InsertKeeps DEF TypeOK, Goto, Busy
  <2>4. StoreInv'
    BY <2>1, <2>2, InsertKeeps DEF StoreInv, CacheBehindTable
  <2>5. StageOK(r)'
    BY <1>1, <2>1, <2>2, InsertKeeps DEF TypeOK, StageOK, Goto, Busy
  <2>6. ASSUME NEW q \in Request, q # r PROVE StageOK(q)'
    BY <2>1, <2>2, <2>6, InsertKeeps, OthersStay DEF TypeOK, Goto
  <2>7. QED
    BY <2>3, <2>4, <2>5, <2>6
<1>2. CASE stage[r] = "remember"
  <2>1. SetKey(Pair(r)) /\ Goto(r, "next") /\ Pair(r) \in recorded
    BY <1>2 DEF Record, StageOK
  <2>2. /\ UNCHANGED <<processVars, token, sender, seen, serviceToken, verdict, tied, learning,
                       nmVars, latest, recorded>>
        /\ Pair(r)' = Pair(r)
    BY <1>2 DEF Record, Pair, SubjectOf
  <2>3. TypeOK'
    BY <2>1, <2>2, SetKeeps DEF TypeOK, Goto, Left
  <2>4. StoreInv'
    BY <2>1, <2>2, SetKeeps DEF StoreInv, CacheBehindTable
  <2>5. StageOK(r)'
    BY <1>2, <2>1, <2>2 DEF TypeOK, StageOK, StoreInv, Goto, Busy
  <2>6. ASSUME NEW q \in Request, q # r PROVE StageOK(q)'
    BY <2>1, <2>2, <2>6, OthersStay DEF TypeOK, Goto
  <2>7. QED
    BY <2>3, <2>4, <2>5, <2>6
<1>3. QED
  BY <1>1, <1>2 DEF Record

\* Learning beside the requests takes the same two steps.
LEMMA LearnStep == ASSUME AuthInv, NEW l \in learning, Learn(l) PROVE AuthInv'
<1> USE AuthAssumption DEF AuthInv, processVars, requestVars, nmVars
<1> DEFINE pair == <<l.sub, l.sender>>
           m == [l EXCEPT !.step = "set"]
<1>1. /\ pair \in confirmed
      /\ l.step = "set" => pair \in recorded
      /\ m \in [sub : Subject, sender : Sender, step : {"insert", "set"}]
      /\ m.sub = l.sub /\ m.sender = l.sender
  BY DEF StoreInv, TypeOK
<1>2. UNCHANGED <<processVars, requestVars, serviceToken, verdict, tied, nmVars>>
  BY DEF Learn
<1>3. CASE l.step = "insert" /\ InsertRow(pair) /\ learning' = (learning \ {l}) \cup {m}
           /\ UNCHANGED subjectCache
  <2> HIDE DEF m
  <2>1. TypeOK'
    BY <1>1, <1>2, <1>3, InsertKeeps DEF TypeOK
  <2>2. \A n \in learning' : <<n.sub, n.sender>> \in confirmed
                            /\ (n.step = "set" => <<n.sub, n.sender>> \in recorded')
    BY <1>1, <1>3, InsertKeeps DEF StoreInv
  <2>3. StoreInv'
    BY <1>1, <1>2, <1>3, <2>2, InsertKeeps DEF StoreInv, CacheBehindTable
  <2>4. ASSUME NEW q \in Request PROVE StageOK(q)'
    BY <1>1, <1>2, <1>3, InsertKeeps, OthersStay
  <2>5. QED
    BY <2>1, <2>3, <2>4
<1>4. CASE l.step = "set" /\ SetKey(pair) /\ learning' = learning \ {l}
           /\ UNCHANGED <<latest, recorded>>
  <2>1. TypeOK'
    BY <1>1, <1>2, <1>4, SetKeeps DEF TypeOK
  <2>2. StoreInv'
    BY <1>1, <1>2, <1>4, SetKeeps DEF StoreInv, CacheBehindTable
  <2>3. ASSUME NEW q \in Request PROVE StageOK(q)'
    BY <1>2, <1>4, OthersStay
  <2>4. QED
    BY <2>1, <2>2, <2>3
<1>5. CASE learning' = learning \ {l} /\ UNCHANGED <<latest, recorded, subjectCache>>
  <2>1. TypeOK' /\ StoreInv'
    BY <1>2, <1>5 DEF TypeOK, StoreInv, CacheBehindTable
  <2>2. ASSUME NEW q \in Request PROVE StageOK(q)'
    BY <1>2, <1>5, OthersStay
  <2>3. QED
    BY <2>1, <2>2
<1>6. QED
  BY <1>3, <1>4, <1>5 DEF Learn

-----------------------------------------------------------------------------
\* Keys expire, tokens end, the process restarts: nothing is lost that the
\* invariant needs.
LEMMA OtherStep ==
  ASSUME AuthInv,
         (\E t \in Token : TokenExpires(t) \/ TokenRevoked(t)) \/ KeyExpires \/ Restart
           \/ UNCHANGED vars
  PROVE  AuthInv'
<1> USE AuthAssumption DEF AuthInv, processVars, requestVars, cacheVars, nmVars
<1>1. ASSUME NEW t \in Token, TokenExpires(t) PROVE AuthInv'
  <2>1. TypeOK' /\ StoreInv'
    BY <1>1 DEF TokenExpires, TypeOK, StoreInv, CacheBehindTable
  <2>2. ASSUME NEW q \in Request PROVE StageOK(q)'
    BY <1>1, OthersStay DEF TokenExpires
  <2>3. QED
    BY <2>1, <2>2
<1>2. ASSUME NEW t \in Token, TokenRevoked(t) PROVE AuthInv'
  <2>1. TypeOK' /\ StoreInv'
    BY <1>2 DEF TokenRevoked, TypeOK, StoreInv, CacheBehindTable
  <2>2. ASSUME NEW q \in Request PROVE StageOK(q)'
    BY <1>2, OthersStay DEF TokenRevoked
  <2>3. QED
    BY <2>1, <2>2
<1>3. CASE KeyExpires
  <2>1. TypeOK'
    BY <1>3 DEF KeyExpires, TypeOK
  <2>2. StoreInv'
    <3>1. Missing \notin Sender
      OBVIOUS
    <3>2. \A t \in Token : verdict'[t] = "valid" => verdict[t] = "valid"
      BY <1>3 DEF KeyExpires, TypeOK
    <3>3. \A u \in Subject : subjectCache'[u] \in Sender => subjectCache'[u] = subjectCache[u]
      BY <1>3, <3>1 DEF KeyExpires, TypeOK
    <3>4. QED
      BY <1>3, <3>2, <3>3 DEF KeyExpires, StoreInv, CacheBehindTable
  <2>3. ASSUME NEW q \in Request PROVE StageOK(q)'
    BY <1>3, OthersStay DEF KeyExpires
  <2>4. QED
    BY <2>1, <2>2, <2>3
<1>4. CASE Restart
  <2>1. TypeOK'
    <3>1. restarts' \in 0..MaxRestarts
      BY <1>4 DEF Restart, TypeOK
    <3>2. QED
      BY <1>4, <3>1 DEF Restart, TypeOK
  <2>2. StoreInv'
    BY <1>4 DEF Restart, StoreInv, CacheBehindTable
  <2>3. \A q \in Request : StageOK(q)'
    BY <1>4 DEF Restart, StageOK, Busy
  <2>4. QED
    BY <2>1, <2>2, <2>3
<1>5. CASE UNCHANGED vars
  BY <1>5 DEF vars, TypeOK, StoreInv, CacheBehindTable, StageOK, Pair, SubjectOf
<1>6. QED
  BY <1>1, <1>2, <1>3, <1>4, <1>5

\* What is stored was confirmed, and a request's stage says what it relies on.
THEOREM AuthInvariant == Spec => []AuthInv
<1>1. AuthInv /\ [Next]_vars => AuthInv'
  BY StageStep, FillStep, LoginStep, ConfirmStep, StoreStep, RecordStep, LearnStep, OtherStep
     DEF Next
<1>2. QED
  BY AuthInit, <1>1, PTL DEF Spec

\* Every variable of the middleware and of its caches keeps its type.
THEOREM AuthTypeCorrect == Spec => []TypeOK
  BY AuthInvariant, PTL DEF AuthInv

\* Local mode passes only pairings the Network Manager confirmed, across
\* restarts, modes, expiring keys and racing fills.
THEOREM LocalTrust == Spec => []LocalTrustsOnlyConfirmed
<1>1. AuthInv => LocalTrustsOnlyConfirmed
  BY DEF AuthInv, StageOK, LocalTrustsOnlyConfirmed
<1>2. QED
  BY <1>1, AuthInvariant, PTL

\* Introspect mode passes only tokens the Network Manager confirmed for some
\* sender_id, which need not be the one this request names.
THEOREM IntrospectTrust == Spec => []PassesOnlyValidated
<1>1. AuthInv => PassesOnlyValidated
  BY DEF AuthInv, StageOK, PassesOnlyValidated
<1>2. QED
  BY <1>1, AuthInvariant, PTL

\* A pairing in Redis is in the table, wherever the process exits.
THEOREM RedisBehindClickHouse == Spec => []CacheBehindTable
<1>1. AuthInv => CacheBehindTable
  BY DEF AuthInv, StoreInv
<1>2. QED
  BY <1>1, AuthInvariant, PTL
=============================================================================
