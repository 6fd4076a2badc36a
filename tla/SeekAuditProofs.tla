-------------------------- MODULE SeekAuditProofs --------------------------
(***************************************************************************)
(* SeekAudit for any number of calls sharing the producer and the topic,   *)
(* any length of the topic, any number of exits and of failing calls to    *)
(* the broker.                                                             *)
(***************************************************************************)
EXTENDS SeekAudit, FiniteSetTheorems, TLAPS

\* What is known of a call's event at each stage of call and publish.
PublishOK(c) ==
  /\ stage[c] \in {"new", "resolve", "config"} =>
       publish[c] = "none" /\ attempt[c] = 0 /\ ~OnTopic(c)
  /\ stage[c] \in {"new", "resolve", "config", "answer"} => reply[c] = "none"
  /\ telemetryOn /\ (stage[c] = "answer" \/ reply[c] \in {"plain", "sealed"}) => publish[c] # "none"
  /\ publish[c] = "pause" => attempt[c] < MAX_ATTEMPTS
  /\ publish[c] = "gave_up" => attempt[c] = MAX_ATTEMPTS
  /\ publish[c] = "lost" => serverExits > 0
  /\ publish[c] \in {"sent", "published"} => OnTopic(c)

\* The offsets up to n that hold c's event.
Offsets(c, n) == {i \in 1..n : events[i] = c}
Copies(c, n) == Cardinality(Offsets(c, n))

\* The event of c has its first row and is not resolved yet.
Projecting(c) == writer \in {"sharing", "telemetry"} /\ Current = c

CursorInv ==
  /\ writer = "down" => position = 0
  /\ writer \in {"response", "sharing", "telemetry"} => position < Len(events)

\* The tables of one call are in order, strictly where a row is still to come.
OrderOK(c) ==
  /\ sharingRows[c] <= responseRows[c]
  /\ telemetryRows[c] <= responseRows[c]
  /\ found[c] \in NamesFarmers => telemetryRows[c] <= sharingRows[c]
  /\ Projecting(c) => telemetryRows[c] < responseRows[c]
  /\ Projecting(c) /\ writer = "sharing" => sharingRows[c] < responseRows[c]
  /\ Projecting(c) /\ writer = "telemetry" /\ found[c] \in NamesFarmers =>
       telemetryRows[c] < sharingRows[c]

\* There is one row for each copy and earlier incarnation of the consumer, and
\* one for each copy up to its position.
Written(c) == Copies(c, position) + (IF Projecting(c) THEN 1 ELSE 0)
CountOK(c) == responseRows[c] <= Copies(c, Len(events)) * writerExits + Written(c)

RowsOK(c) == OrderOK(c) /\ CountOK(c)

AuditInv ==
  /\ TypeOK /\ CursorInv
  /\ \A c \in Call : PublishOK(c) /\ RowsOK(c)

-----------------------------------------------------------------------------
(* Counting the copies of an event.                                        *)

LEMMA CopiesType ==
  ASSUME NEW c, NEW n \in Nat
  PROVE  IsFiniteSet(Offsets(c, n)) /\ Copies(c, n) \in Nat
<1>1. IsFiniteSet(1..n)
  BY FS_Interval
<1>2. QED
  BY <1>1, FS_Subset, FS_CardinalityType DEF Offsets, Copies

LEMMA CopiesNext ==
  ASSUME NEW c, NEW n \in Nat
  PROVE  Copies(c, n + 1) = Copies(c, n) + (IF events[n + 1] = c THEN 1 ELSE 0)
<1>1. CASE events[n + 1] = c
  <2>1. Offsets(c, n + 1) = Offsets(c, n) \cup {n + 1} /\ n + 1 \notin Offsets(c, n)
    BY <1>1 DEF Offsets
  <2>2. QED
    BY <1>1, <2>1, CopiesType, FS_AddElement DEF Copies
<1>2. CASE events[n + 1] # c
  <2>1. Offsets(c, n + 1) = Offsets(c, n)
    BY <1>2 DEF Offsets
  <2>2. QED
    BY <1>2, <2>1, CopiesType DEF Copies
<1>3. QED
  BY <1>1, <1>2

LEMMA CopiesGrow ==
  ASSUME NEW c, NEW m \in Nat, NEW n \in Nat, m <= n
  PROVE  Copies(c, m) <= Copies(c, n)
<1>1. Offsets(c, m) \subseteq Offsets(c, n)
  BY DEF Offsets
<1>2. QED
  BY <1>1, CopiesType, FS_Subset DEF Copies

\* An event that is not on the topic has no copies.
LEMMA NoCopies ==
  ASSUME NEW c, NEW n \in 0..Len(events), events \in Seq(Call), ~OnTopic(c)
  PROVE  Copies(c, n) = 0
<1>1. Offsets(c, n) = {}
  BY DEF Offsets, OnTopic
<1>2. QED
  BY <1>1, FS_EmptySet DEF Copies

\* A longer topic leaves the counts of its beginning alone.
LEMMA CopiesAppend ==
  ASSUME events \in Seq(Call), NEW d \in Call, events' = Append(events, d), NEW c,
         NEW n \in 0..Len(events)
  PROVE  /\ Copies(c, n)' = Copies(c, n)
         /\ Copies(c, Len(events)) <= Copies(c, Len(events))' /\ Copies(c, Len(events))' \in Nat
<1>1. Len(events') = Len(events) + 1 /\ \A i \in 1..Len(events) : events'[i] = events[i]
  OBVIOUS
<1>2. Offsets(c, n)' = Offsets(c, n) /\ Offsets(c, Len(events)) \subseteq Offsets(c, Len(events))'
  BY <1>1 DEF Offsets
<1>3. IsFiniteSet(Offsets(c, Len(events))')
  <2>1. IsFiniteSet(1..Len(events'))
    BY <1>1, FS_Interval
  <2>2. QED
    BY <2>1, FS_Subset DEF Offsets
<1>4. QED
  BY <1>2, <1>3, FS_Subset, FS_CardinalityType DEF Copies

-----------------------------------------------------------------------------
LEMMA AuditInit == Init => AuditInv
<1> SUFFICES ASSUME Init PROVE AuditInv
  OBVIOUS
<1> USE AuditAssumption DEF Init
<1>1. Len(events) = 0 /\ events \in Seq(Call)
  OBVIOUS
<1>2. TypeOK
  <2>1. /\ publish \in [Call -> {"none", "connect", "send", "sent", "pause",
                                "published", "gave_up", "lost"}]
        /\ stage \in [Call -> {"new", "resolve", "config", "answer", "done", "lost"}]
        /\ found \in [Call -> Found \cup {"nothing"}] /\ route \in [Call -> Route]
        /\ reply \in [Call -> {"none", "plain", "sealed", "error"}]
        /\ attempt \in [Call -> 0..MAX_ATTEMPTS]
    BY DEF Route, MAX_ATTEMPTS
  <2>2. /\ responseRows \in [Call -> Nat] /\ sharingRows \in [Call -> Nat]
        /\ telemetryRows \in [Call -> Nat] /\ position \in 0..Len(events)
        /\ committed \in 0..Len(events) /\ Len(events) <= MaxEvents
        /\ serverExits \in 0..MaxServerExits /\ writerExits \in 0..MaxWriterExits
        /\ tried \subseteq 1..Len(events)
    BY <1>1
  <2>3. QED
    BY <1>1, <2>1, <2>2 DEF TypeOK
<1>3. CursorInv
  BY DEF CursorInv
<1>4. ASSUME NEW c \in Call PROVE PublishOK(c) /\ RowsOK(c)
  <2>1. PublishOK(c)
    BY <1>1 DEF PublishOK, OnTopic
  <2>2. Copies(c, Len(events)) * writerExits = 0 /\ Copies(c, position) \in Nat
    BY <1>1, CopiesType
  <2>3. RowsOK(c)
    BY <2>2 DEF RowsOK, OrderOK, CountOK, Written, Projecting
  <2>4. QED
    BY <2>1, <2>3
<1>5. QED
  BY <1>2, <1>3, <1>4 DEF AuditInv

\* A call whose event is not on the topic has no rows.
LEMMA NoRows ==
  ASSUME AuditInv, NEW c \in Call, ~OnTopic(c)
  PROVE  /\ responseRows[c] = 0 /\ sharingRows[c] = 0 /\ telemetryRows[c] = 0
         /\ ~Projecting(c)
<1> USE DEF AuditInv
<1>1. ~Projecting(c)
  BY DEF CursorInv, Projecting, Current, OnTopic, TypeOK
<1>2. Copies(c, Len(events)) = 0 /\ Copies(c, position) = 0 /\ writerExits \in Nat
  BY NoCopies DEF TypeOK
<1>3. Copies(c, Len(events)) * writerExits = 0
  BY <1>2
<1>4. responseRows[c] <= 0
  BY <1>1, <1>2, <1>3 DEF RowsOK, OrderOK, CountOK, Written
<1>5. QED
  BY <1>1, <1>4 DEF RowsOK, OrderOK, CountOK, Written, TypeOK

\* Steps elsewhere leave a call's tables alone, and what its event says.
LEMMA RowsStay ==
  ASSUME AuditInv, NEW c \in Call, found'[c] = found[c] \/ ~OnTopic(c),
         UNCHANGED <<events, writerVars, rowVars>>
  PROVE  RowsOK(c)'
<1> USE DEF AuditInv, writerVars, rowVars
<1>1. CASE found'[c] = found[c]
  BY <1>1 DEF RowsOK, OrderOK, CountOK, Written, Projecting, Current, Copies, Offsets
<1>2. CASE ~OnTopic(c)
  BY <1>2, NoRows DEF RowsOK, OrderOK, CountOK, Written, Projecting, Current, Copies, Offsets
<1>3. QED
  BY <1>1, <1>2

\* A step of one call's handler or publish leaves the others' events alone.
LEMMA OthersStay ==
  ASSUME NEW c \in Call, PublishOK(c), UNCHANGED <<telemetryOn, events>>,
         serverExits' = serverExits,
         stage'[c] = stage[c], reply'[c] = reply[c], publish'[c] = publish[c],
         attempt'[c] = attempt[c]
  PROVE  PublishOK(c)'
BY DEF PublishOK, OnTopic

-----------------------------------------------------------------------------
LEMMA HandlerKeeps ==
  ASSUME AuditInv, NEW c \in Call, Begin(c) \/ Resolves(c) \/ BuildsEvent(c) \/ Answers(c)
  PROVE  AuditInv'
<1> USE AuditAssumption DEF AuditInv, publishVars, writerVars, rowVars, Goto, Throws
<1>1. /\ UNCHANGED <<telemetryOn, serverExits, events, writerVars, rowVars>>
      /\ \A d \in Call : d # c =>
           /\ stage'[d] = stage[d] /\ reply'[d] = reply[d] /\ publish'[d] = publish[d]
           /\ attempt'[d] = attempt[d] /\ found'[d] = found[d]
  BY DEF Begin, Resolves, BuildsEvent, Answers, StartAttempt, TypeOK
<1>2. TypeOK'
  <2>1. CASE Begin(c)
    BY <2>1 DEF Begin, TypeOK
  <2>2. CASE Resolves(c)
    <3>1. PICK what \in Found \cup {"nothing"}, s \in {"config", "answer", "done"}, r \in {"none", "error"} :
            /\ found' = [found EXCEPT ![c] = what] /\ stage' = [stage EXCEPT ![c] = s]
            /\ reply' = [reply EXCEPT ![c] = r]
      <4>1. found[c] \in Found \cup {"nothing"} /\ found = [found EXCEPT ![c] = found[c]]
        BY DEF TypeOK
      <4>2. reply[c] = "none" /\ reply = [reply EXCEPT ![c] = reply[c]]
        BY <2>2 DEF Resolves, PublishOK, TypeOK
      <4>3. QED
        BY <2>2, <4>1, <4>2 DEF Resolves
    <3>2. QED
      BY <2>2, <3>1 DEF Resolves, TypeOK
  <2>3. CASE BuildsEvent(c)
    <3>1. attempt[c] = 0
      BY <2>3 DEF BuildsEvent, PublishOK
    <3>2. attempt' \in [Call -> 0..MAX_ATTEMPTS]
      <4>1. attempt' = [attempt EXCEPT ![c] = 1] \/ attempt' = attempt
        BY <2>3, <3>1 DEF BuildsEvent, StartAttempt
      <4>2. attempt \in [Call -> 0..2]
        BY Zenon DEF TypeOK, MAX_ATTEMPTS
      <4>3. QED
        BY <4>1, <4>2 DEF MAX_ATTEMPTS
    <3>3. QED
      BY <2>3, <3>2 DEF BuildsEvent, StartAttempt, TypeOK
  <2>4. CASE Answers(c)
    BY <2>4 DEF Answers, SealedAs, TypeOK
  <2>5. QED
    BY <2>1, <2>2, <2>3, <2>4
<1>3. CursorInv'
  BY <1>1 DEF CursorInv
<1>4. PublishOK(c)'
  <2> USE DEF TypeOK, PublishOK
  <2>0. OnTopic(c)' = OnTopic(c)
    BY <1>1 DEF OnTopic
  <2>1. CASE Begin(c)
    BY <2>0, <2>1 DEF Begin
  <2>2. CASE Resolves(c)
    BY <2>0, <2>2 DEF Resolves
  <2>3. CASE BuildsEvent(c)
    BY <2>0, <2>3 DEF BuildsEvent, StartAttempt
  <2>4. CASE Answers(c)
    BY <2>0, <2>4 DEF Answers, SealedAs
  <2>5. QED
    BY <2>1, <2>2, <2>3, <2>4
<1>5. RowsOK(c)'
  <2>1. found'[c] = found[c] \/ ~OnTopic(c)
    BY DEF Begin, Resolves, BuildsEvent, Answers, PublishOK
  <2>2. QED
    BY <1>1, <2>1, RowsStay
<1>6. ASSUME NEW d \in Call, d # c PROVE PublishOK(d)' /\ RowsOK(d)'
  BY <1>1, <1>6, OthersStay, RowsStay
<1>7. QED
  BY <1>2, <1>3, <1>4, <1>5, <1>6

LEMMA PublisherKeeps ==
  ASSUME AuditInv, NEW c \in Call,
         ProducerAwaited(c) \/ SendConfirmed(c) \/ SendFails(c) \/ Retries(c)
  PROVE  AuditInv'
<1> USE AuditAssumption DEF AuditInv, serverVars, writerVars, rowVars
<1>1. /\ UNCHANGED <<telemetryOn, serverVars, events, writerVars, rowVars>>
      /\ \A d \in Call : d # c => publish'[d] = publish[d] /\ attempt'[d] = attempt[d]
  BY DEF ProducerAwaited, SendConfirmed, SendFails, Retries, StartAttempt, AttemptFails, TypeOK
<1>2. TypeOK'
  <2>1. CASE Retries(c)
    <3>1. attempt[c] < MAX_ATTEMPTS
      BY <2>1 DEF Retries, PublishOK
    <3>2. attempt' \in [Call -> 0..MAX_ATTEMPTS]
      <4>1. attempt \in [Call -> 0..2]
        BY Zenon DEF TypeOK, MAX_ATTEMPTS
      <4>2. attempt[c] + 1 \in 0..2
        BY <3>1, <4>1 DEF MAX_ATTEMPTS
      <4>3. attempt' = [attempt EXCEPT ![c] = attempt[c] + 1]
        BY <2>1 DEF Retries, StartAttempt
      <4>4. QED
        BY <4>1, <4>2, <4>3 DEF MAX_ATTEMPTS
    <3>3. QED
      BY <2>1, <3>2 DEF Retries, StartAttempt, TypeOK
  <2>2. CASE ProducerAwaited(c) \/ SendConfirmed(c) \/ SendFails(c)
    BY <2>2 DEF ProducerAwaited, SendConfirmed, SendFails, AttemptFails, TypeOK
  <2>3. QED
    BY <2>1, <2>2
<1>3. CursorInv'
  BY <1>1 DEF CursorInv
<1>4. PublishOK(c)'
  <2> USE DEF TypeOK, PublishOK, AttemptFails
  <2>0. OnTopic(c)' = OnTopic(c) /\ stage' = stage /\ reply' = reply /\ attempt[c] \in 0..MAX_ATTEMPTS
    BY <1>1 DEF OnTopic
  <2>1. CASE ProducerAwaited(c)
    BY <2>0, <2>1 DEF ProducerAwaited, MAX_ATTEMPTS
  <2>2. CASE SendConfirmed(c)
    <3>1. /\ publish[c] = "sent" /\ publish'[c] = "published" /\ attempt' = attempt
          /\ UNCHANGED <<telemetryOn, serverExits>>
      BY <2>2 DEF SendConfirmed
    <3>2. QED
      BY <2>0, <3>1
  <2>5. CASE SendFails(c)
    <3>1. /\ publish[c] \in {"send", "sent"} /\ attempt' = attempt
          /\ publish'[c] = IF attempt[c] < MAX_ATTEMPTS THEN "pause" ELSE "gave_up"
          /\ UNCHANGED <<telemetryOn, serverExits>>
      BY <2>5 DEF SendFails
    <3>2. attempt[c] < MAX_ATTEMPTS \/ attempt[c] = MAX_ATTEMPTS
      BY <2>0 DEF MAX_ATTEMPTS
    <3>3. QED
      BY <2>0, <3>1, <3>2
  <2>3. CASE Retries(c)
    BY <2>0, <2>3 DEF Retries, StartAttempt
  <2>4. QED
    BY <2>1, <2>2, <2>3, <2>5
<1>5. ASSUME NEW d \in Call PROVE RowsOK(d)'
  BY <1>1, RowsStay
<1>6. ASSUME NEW d \in Call, d # c PROVE PublishOK(d)'
  BY <1>1, <1>6, OthersStay
<1>7. QED
  BY <1>2, <1>3, <1>4, <1>5, <1>6

\* An event reaches the topic: copies are added behind the consumer's position.
LEMMA AppendKeeps ==
  ASSUME AuditInv, NEW c \in Call, EventPersists(c) \/ EventResent(c)
  PROVE  AuditInv'
<1> USE AuditAssumption DEF AuditInv, serverVars, writerVars, rowVars
<1>1. /\ UNCHANGED <<telemetryOn, serverVars, attempt, producer, writerVars, rowVars>>
      /\ events' = Append(events, c) /\ Len(events) < MaxEvents
      /\ publish[c] \in {"send", "sent"} /\ publish' = [publish EXCEPT ![c] = "sent"]
  BY DEF EventPersists, EventResent, TypeOK
<1>2. /\ events \in Seq(Call) /\ events' \in Seq(Call) /\ Len(events') = Len(events) + 1
      /\ Len(events) \in Nat /\ events'[Len(events) + 1] = c
      /\ \A i \in 1..Len(events) : events'[i] = events[i]
  BY <1>1 DEF TypeOK
<1>3. TypeOK'
  <2>1. /\ position' \in 0..Len(events') /\ committed' \in 0..Len(events')
        /\ tried' \subseteq 1..Len(events') /\ Len(events') <= MaxEvents
    <3>1. MaxEvents \in Nat /\ position \in 0..Len(events) /\ committed \in 0..Len(events)
          /\ tried \subseteq 1..Len(events)
      BY DEF TypeOK
    <3>2. QED
      BY <1>1, <1>2, <3>1
  <2>2. publish' \in [Call -> {"none", "connect", "send", "sent", "pause",
                              "published", "gave_up", "lost"}]
    BY <1>1 DEF TypeOK
  <2>3. QED
    BY <1>1, <1>2, <2>1, <2>2 DEF TypeOK
<1>4. CursorInv'
  BY <1>1, <1>2 DEF CursorInv, TypeOK
<1>5. OnTopic(c)' /\ \A d \in Call : (OnTopic(d) => OnTopic(d)') /\ (d # c /\ OnTopic(d)' => OnTopic(d))
  BY <1>2 DEF OnTopic
<1>6. ASSUME NEW d \in Call PROVE PublishOK(d)'
  BY <1>1, <1>5 DEF TypeOK, PublishOK
<1>7. ASSUME NEW d \in Call PROVE RowsOK(d)'
  <2>1. position \in 0..Len(events) /\ writerExits \in Nat
    BY AuditAssumption DEF TypeOK
  <2>2. Copies(d, position)' = Copies(d, position)
    BY <1>1, <1>2, <2>1, CopiesAppend
  <2>3. /\ Copies(d, Len(events)) <= Copies(d, Len(events))'
        /\ Copies(d, Len(events)) \in Nat /\ Copies(d, Len(events))' \in Nat
        /\ Copies(d, position) \in Nat
    <3>1. Copies(d, Len(events)) \in Nat /\ Copies(d, position) \in Nat
      BY <1>2, <2>1, CopiesType
    <3>2. Copies(d, Len(events)) <= Copies(d, Len(events))' /\ Copies(d, Len(events))' \in Nat
      BY <1>1, <1>2, CopiesAppend
    <3>3. QED
      BY <3>1, <3>2
  <2>4. Projecting(d)' = Projecting(d)
    BY <1>1, <1>2, <2>1 DEF Projecting, Current, CursorInv
  <2>5. Copies(d, Len(events)) * writerExits <= Copies(d, Len(events))' * writerExits
    BY <2>1, <2>3
  <2>6. responseRows[d] \in Nat
    BY DEF TypeOK
  <2>7. OrderOK(d)'
    <3>1. OrderOK(d) /\ UNCHANGED <<sharingRows, responseRows, telemetryRows, found, writer>>
      BY <1>1 DEF RowsOK
    <3>2. QED
      BY <2>4, <3>1 DEF OrderOK
  <2>8. CountOK(d)'
    <3>1. /\ responseRows' = responseRows /\ writerExits' = writerExits
          /\ responseRows[d] <= Copies(d, Len(events)) * writerExits + Written(d)
      BY <1>1 DEF RowsOK, CountOK
    <3>2. Written(d)' = Written(d) /\ Written(d) \in Nat
      BY <2>2, <2>3, <2>4 DEF Written
    <3>3. responseRows[d] <= Copies(d, Len(events))' * writerExits + Written(d)
      <4>1. /\ Copies(d, Len(events)) * writerExits \in Nat
            /\ Copies(d, Len(events))' * writerExits \in Nat
        BY <2>1, <2>3
      <4>2. QED
        BY <2>5, <2>6, <3>1, <3>2, <4>1
    <3>4. QED
      BY <3>1, <3>2, <3>3 DEF CountOK
  <2>9. QED
    BY <2>7, <2>8 DEF RowsOK
<1>8. QED
  BY <1>3, <1>4, <1>6, <1>7

LEMMA ServerKeeps ==
  ASSUME AuditInv, ServerExits \/ ProducerSettles
  PROVE  AuditInv'
<1> USE AuditAssumption
        DEF AuditInv, serverVars, publishVars, writerVars, rowVars
<1>1. UNCHANGED <<telemetryOn, found, reply, attempt, events, writerVars, rowVars>>
  BY DEF ServerExits, ProducerSettles
<1>2. TypeOK'
  <2>1. CASE ServerExits
    <3>1. /\ stage' \in [Call -> {"new", "resolve", "config", "answer", "done", "lost"}]
          /\ publish' \in [Call -> {"none", "connect", "send", "sent", "pause",
                                   "published", "gave_up", "lost"}]
          /\ serverExits' \in 0..MaxServerExits
      BY <2>1 DEF ServerExits, TypeOK
    <3>2. QED
      BY <2>1, <3>1 DEF ServerExits, TypeOK
  <2>2. CASE ProducerSettles
    BY <2>2 DEF ProducerSettles, TypeOK
  <2>3. QED
    BY <2>1, <2>2
<1>3. CursorInv'
  BY <1>1 DEF CursorInv
<1>4. ASSUME NEW c \in Call PROVE PublishOK(c)'
  <2>1. CASE ServerExits
    <3>1. /\ stage'[c] = stage[c] \/ stage'[c] = "lost"
          /\ publish'[c] = publish[c] \/ publish'[c] = "lost"
          /\ stage'[c] \in {"new", "resolve", "config"} => publish'[c] = publish[c]
          /\ serverExits' > 0
      BY <2>1 DEF ServerExits, TypeOK, PublishOK
    <3>2. OnTopic(c)' = OnTopic(c)
      BY <1>1 DEF OnTopic
    <3>3. QED
      BY <1>1, <3>1, <3>2 DEF PublishOK
  <2>2. CASE ProducerSettles
    BY <2>2, OthersStay DEF ProducerSettles
  <2>3. QED
    BY <2>1, <2>2
<1>5. ASSUME NEW c \in Call PROVE RowsOK(c)'
  BY <1>1, RowsStay
<1>6. QED
  BY <1>2, <1>3, <1>4, <1>5

-----------------------------------------------------------------------------
(* The telemetry consumer.                                                 *)

\* The consumer touches no call and no event.
LEMMA CallsStay ==
  ASSUME AuditInv, UNCHANGED <<telemetryOn, serverVars, publishVars>>
  PROVE  \A c \in Call : PublishOK(c)'
BY OthersStay DEF AuditInv, serverVars, publishVars

LEMMA RowTypes ==
  ASSUME AuditInv
  PROVE  /\ position \in 0..Len(events) /\ committed \in 0..Len(events) /\ Len(events) \in Nat
         /\ writerExits \in Nat
         /\ \A c \in Call : /\ responseRows[c] \in Nat /\ sharingRows[c] \in Nat
                            /\ telemetryRows[c] \in Nat
                            /\ Copies(c, Len(events)) \in Nat /\ Copies(c, position) \in Nat
                            /\ Copies(c, Len(events)) * writerExits \in Nat
<1>1. /\ position \in 0..Len(events) /\ committed \in 0..Len(events) /\ Len(events) \in Nat
      /\ writerExits \in Nat
  BY AuditAssumption DEF AuditInv, TypeOK
<1>2. ASSUME NEW c \in Call PROVE Copies(c, Len(events)) \in Nat /\ Copies(c, position) \in Nat
  BY <1>1, CopiesType
<1>3. ASSUME NEW n \in Nat PROVE n * writerExits \in Nat
  BY <1>1
<1>4. QED
  BY <1>1, <1>2, <1>3 DEF AuditInv, TypeOK

\* What the running incarnation wrote is at most one row per copy.
LEMMA WrittenBounded ==
  ASSUME AuditInv, NEW c \in Call
  PROVE  Written(c) <= Copies(c, Len(events)) /\ Written(c) \in Nat
<1>1. CASE Projecting(c)
  <2>1. position + 1 <= Len(events) /\ position \in Nat /\ events[position + 1] = c
    BY <1>1, RowTypes DEF Projecting, Current, AuditInv, CursorInv
  <2>2. Copies(c, position + 1) = Copies(c, position) + 1
    BY <2>1, CopiesNext
  <2>3. Copies(c, position + 1) <= Copies(c, Len(events)) /\ Copies(c, position) \in Nat
    BY <2>1, RowTypes, CopiesGrow
  <2>4. QED
    BY <1>1, <2>2, <2>3 DEF Written
<1>2. CASE ~Projecting(c)
  <2>1. Copies(c, position) <= Copies(c, Len(events)) /\ Copies(c, position) \in Nat
    BY RowTypes, CopiesGrow
  <2>2. QED
    BY <1>2, <2>1 DEF Written
<1>3. QED
  BY <1>1, <1>2

\* It starts, takes an event, commits: no event is being projected.
LEMMA CursorKeeps ==
  ASSUME AuditInv, WriterStarts \/ TakesEvent \/ CommitEvents
  PROVE  AuditInv'
<1> USE AuditAssumption DEF AuditInv, rowVars
<1>1. UNCHANGED <<telemetryOn, serverVars, publishVars, rowVars, writerExits>>
  BY DEF WriterStarts, TakesEvent, CommitEvents
<1>2. events' = events /\ position \in 0..Len(events) /\ committed \in 0..Len(events)
  BY <1>1 DEF publishVars, TypeOK
<1>3. TypeOK' /\ CursorInv'
  BY <1>2 DEF WriterStarts, TakesEvent, CommitEvents, serverVars, publishVars, TypeOK, CursorInv
<1>4. ASSUME NEW c \in Call PROVE RowsOK(c)'
  <2>1. ~Projecting(c) /\ ~Projecting(c)' /\ found' = found
    BY <1>1 DEF WriterStarts, TakesEvent, CommitEvents, Projecting, serverVars
  <2>2. position' \in Nat /\ Copies(c, position) <= Copies(c, position')
    BY <1>2, CopiesGrow, CopiesType DEF WriterStarts, TakesEvent, CommitEvents, CursorInv
  <2>3. Copies(c, position)' = Copies(c, position') /\ Copies(c, Len(events))' = Copies(c, Len(events))
    BY <1>2 DEF Copies, Offsets
  <2>4. Copies(c, position') \in Nat
    BY <2>2, CopiesType
  <2>5. CountOK(c)'
    <3>1. Written(c) <= Written(c)' /\ Written(c) \in Nat /\ Written(c)' \in Nat
      BY <2>1, <2>2, <2>3, <2>4, RowTypes DEF Written
    <3>2. CountOK(c)' <=> responseRows[c] <= Copies(c, Len(events)) * writerExits + Written(c)'
      BY <1>1, <2>3 DEF CountOK
    <3>3. /\ responseRows[c] <= Copies(c, Len(events)) * writerExits + Written(c)
          /\ responseRows[c] \in Nat /\ Copies(c, Len(events)) * writerExits \in Nat
      BY RowTypes DEF RowsOK, CountOK
    <3>4. QED
      BY <3>1, <3>2, <3>3
  <2>6. OrderOK(c)'
    BY <1>1, <2>1 DEF RowsOK, OrderOK
  <2>7. QED
    BY <2>5, <2>6 DEF RowsOK
<1>5. QED
  BY <1>1, <1>3, <1>4, CallsStay

\* An exit gives up the position: what was counted up to there counts for the
\* incarnation that ends.
LEMMA WriterExitKeeps == ASSUME AuditInv, WriterExits PROVE AuditInv'
<1> USE AuditAssumption DEF AuditInv, WriterExits, rowVars
<1>1. events' = events /\ position' = 0 /\ writerExits' = writerExits + 1
  BY DEF publishVars
<1>2. TypeOK' /\ CursorInv'
  <2>1. writerExits' \in 0..MaxWriterExits /\ position' \in 0..Len(events')
    BY DEF publishVars, TypeOK
  <2>2. QED
    BY <2>1 DEF serverVars, publishVars, TypeOK, CursorInv
<1>3. ASSUME NEW c \in Call PROVE RowsOK(c)'
  <2>1. ~Projecting(c)' /\ found' = found
    BY DEF Projecting, serverVars
  <2>2. Written(c) <= Copies(c, Len(events)) /\ Written(c) \in Nat
    BY WrittenBounded
  <2>3. /\ Copies(c, Len(events))' = Copies(c, Len(events))
        /\ Copies(c, position)' = Copies(c, 0) /\ Copies(c, 0) \in Nat
    BY <1>1, CopiesType DEF Copies, Offsets
  <2>4. Copies(c, Len(events)) * (writerExits + 1)
          = Copies(c, Len(events)) * writerExits + Copies(c, Len(events))
    BY RowTypes
  <2>5. CountOK(c)'
    <3>1. Written(c)' = Copies(c, 0)
      BY <2>1, <2>3 DEF Written
    <3>2. CountOK(c)' <=>
            responseRows[c] <= Copies(c, Len(events)) * (writerExits + 1) + Copies(c, 0)
      BY <1>1, <2>3, <3>1 DEF CountOK
    <3>3. /\ responseRows[c] <= Copies(c, Len(events)) * writerExits + Written(c)
          /\ responseRows[c] \in Nat /\ Copies(c, Len(events)) * writerExits \in Nat
          /\ Copies(c, Len(events)) \in Nat
      BY RowTypes DEF RowsOK, CountOK
    <3>4. QED
      BY <2>2, <2>3, <2>4, <3>2, <3>3
  <2>6. OrderOK(c)'
    BY <2>1 DEF RowsOK, OrderOK
  <2>7. QED
    BY <2>5, <2>6 DEF RowsOK
<1>4. QED
  BY <1>2, <1>3, CallsStay

\* The event being projected is a call's; resolving it moves the count on.
LEMMA Resolving ==
  ASSUME AuditInv, writer \in {"response", "sharing", "telemetry"},
         UNCHANGED <<telemetryOn, serverVars, publishVars>>
  PROVE  /\ Current \in Call /\ events[position + 1] = Current
         /\ position + 1 \in 1..Len(events) /\ position \in Nat
         /\ EventDone =>
              /\ position' \in 0..Len(events) /\ tried' \subseteq 1..Len(events)
              /\ \A c \in Call : /\ Written(c)' = Copies(c, position) + (IF Current = c THEN 1 ELSE 0)
                                 /\ ~Projecting(c)'
<1> USE DEF AuditInv
<1>1. /\ Current \in Call /\ events[position + 1] = Current
      /\ position + 1 \in 1..Len(events) /\ position \in Nat
  BY DEF CursorInv, Current, TypeOK
<1>2. ASSUME EventDone
      PROVE  position' \in 0..Len(events) /\ tried' \subseteq 1..Len(events)
  <2>1. position' = position + 1 /\ tried' = tried \cup {position + 1}
    BY <1>2 DEF EventDone
  <2>2. tried \subseteq 1..Len(events) /\ Len(events) \in Nat
    BY DEF TypeOK
  <2>3. QED
    BY <1>1, <2>1, <2>2
<1>3. ASSUME EventDone, NEW c \in Call
      PROVE  /\ Written(c)' = Copies(c, position) + (IF Current = c THEN 1 ELSE 0)
             /\ ~Projecting(c)'
  <2>1. ~Projecting(c)' /\ events' = events /\ position' = position + 1
    BY <1>3 DEF EventDone, Projecting, publishVars
  <2>2. Copies(c, position)' = Copies(c, position + 1) /\ Copies(c, position + 1) \in Nat
    <3>1. Copies(c, position + 1) \in Nat
      BY <1>1, CopiesType
    <3>2. QED
      BY <2>1, <3>1 DEF Copies, Offsets
  <2>3. Copies(c, position + 1) = Copies(c, position) + (IF Current = c THEN 1 ELSE 0)
    BY <1>1, CopiesNext
  <2>4. QED
    BY <2>1, <2>2, <2>3 DEF Written
<1>4. QED
  BY <1>1, <1>2, <1>3

\* The count follows an insert into the first table.
LEMMA CountFollows ==
  ASSUME AuditInv, NEW c \in Call, UNCHANGED <<serverVars, publishVars, writerExits>>,
         NEW n \in {0, 1}, responseRows'[c] \in {responseRows[c], responseRows[c] + n},
         Written(c)' = Written(c) + n
  PROVE  CountOK(c)'
<1> DEFINE P == Copies(c, Len(events)) * writerExits
<1>1. /\ responseRows[c] <= P + Written(c) /\ responseRows[c] \in Nat /\ P \in Nat
  BY RowTypes DEF AuditInv, RowsOK, CountOK
<1>2. Written(c) \in Nat
  <2>1. Copies(c, position) \in Nat
    BY RowTypes
  <2>2. QED
    BY <2>1 DEF Written
<1>3. Copies(c, Len(events))' = Copies(c, Len(events)) /\ writerExits' = writerExits
  BY DEF publishVars, Copies, Offsets
<1>4. CountOK(c)' <=> responseRows'[c] <= P + Written(c)'
  BY <1>3 DEF CountOK
<1> HIDE DEF P
<1>5. QED
  BY <1>1, <1>2, <1>4

\* An insert adds a row for its call, or none.
LEMMA RowAdded ==
  ASSUME NEW rows \in [Call -> Nat], NEW cur \in Call, NEW new \in {rows, [rows EXCEPT ![cur] = @ + 1]}
  PROVE  /\ new \in [Call -> Nat]
         /\ \A c \in Call : new[c] \in {rows[c], rows[c] + (IF cur = c THEN 1 ELSE 0)}
OBVIOUS

LEMMA ResponseKeeps == ASSUME AuditInv, WritesResponse PROVE AuditInv'
<1> USE DEF AuditInv, WritesResponse, Insert, Goes
<1>1. UNCHANGED <<telemetryOn, serverVars, publishVars, writerExits, sharingRows, telemetryRows>>
      /\ writer = "response" /\ (position' = position \/ EventDone)
  OBVIOUS
<1>2. /\ position' \in 0..Len(events) /\ tried' \subseteq 1..Len(events)
      /\ Current \in Call
    BY <1>1, Resolving, RowTypes DEF TypeOK
<1>3. TypeOK' /\ CursorInv'
  <2>1. responseRows' \in [Call -> Nat] /\ writer' \in {"idle", "sharing", "telemetry"}
    <3>1. responseRows' \in {responseRows, [responseRows EXCEPT ![Current] = @ + 1]}
          /\ writer' \in {"idle", "sharing", "telemetry"}
      BY DEF EventDone
    <3>2. responseRows \in [Call -> Nat]
      BY DEF TypeOK
    <3>3. QED
      BY <1>2, <3>1, <3>2, RowAdded
  <2>2. TypeOK'
    BY <1>1, <1>2, <2>1 DEF TypeOK, serverVars, publishVars
  <2>3. CursorInv'
    BY <1>1, <2>1 DEF CursorInv, EventDone, publishVars
  <2>4. QED
    BY <2>2, <2>3
<1>4. ASSUME NEW c \in Call PROVE RowsOK(c)'
  <2>1. /\ ~Projecting(c) /\ found' = found
        /\ responseRows'[c] \in {responseRows[c], responseRows[c] + (IF Current = c THEN 1 ELSE 0)}
        /\ Written(c) = Copies(c, position)
    <3>1. ~Projecting(c) /\ found' = found
      BY <1>1 DEF Projecting, serverVars
    <3>2. Copies(c, position) \in Nat
      BY RowTypes
    <3>3. responseRows'[c] \in {responseRows[c], responseRows[c] + (IF Current = c THEN 1 ELSE 0)}
      BY <1>2 DEF TypeOK
    <3>4. QED
      BY <3>1, <3>2, <3>3 DEF Written
  <2>2. Written(c)' = Copies(c, position) + (IF Current = c THEN 1 ELSE 0)
    <3>1. CASE EventDone
      BY <1>1, <3>1, Resolving
    <3>2. CASE ~EventDone
      <4>1. position' = position /\ events' = events /\ writer' \in {"sharing", "telemetry"}
        BY <1>1, <3>2 DEF publishVars
      <4>2. Projecting(c)' <=> Current = c
        BY <4>1 DEF Projecting, Current
      <4>3. Copies(c, position)' = Copies(c, position) /\ Copies(c, position) \in Nat
        BY <4>1, RowTypes DEF Copies, Offsets
      <4>4. QED
        BY <4>2, <4>3 DEF Written
    <3>3. QED
      BY <3>1, <3>2
  <2>3. CountOK(c)'
    BY <1>1, <2>1, <2>2, CountFollows
  <2>4. OrderOK(c)'
    <3>1. OrderOK(c) /\ responseRows[c] \in Nat /\ sharingRows[c] \in Nat /\ telemetryRows[c] \in Nat
      BY RowTypes DEF RowsOK
    <3>2. CASE EventDone
      <4>1. ~Projecting(c)'
        BY <1>1, <3>2, Resolving
      <4>2. QED
        BY <1>1, <2>1, <3>1, <4>1 DEF OrderOK
    <3>3. CASE ~EventDone
      <4>1. /\ responseRows' = [responseRows EXCEPT ![Current] = @ + 1] /\ position' = position
            /\ writer' = IF found[Current] \in NamesFarmers THEN "sharing" ELSE "telemetry"
            /\ events' = events
        BY <3>3 DEF publishVars
      <4>2. Projecting(c)' => Current = c
        BY <4>1 DEF Projecting, Current
      <4>3. responseRows'[c] = responseRows[c] + (IF Current = c THEN 1 ELSE 0)
        BY <1>2, <4>1 DEF TypeOK
      <4>4. QED
        BY <1>1, <2>1, <3>1, <4>1, <4>2, <4>3 DEF OrderOK
    <3>4. QED
      BY <3>2, <3>3
  <2>5. QED
    BY <2>3, <2>4 DEF RowsOK
<1>5. QED
  BY <1>1, <1>3, <1>4, CallsStay

LEMMA SharingKeeps == ASSUME AuditInv, WritesSharing PROVE AuditInv'
<1> USE DEF AuditInv, WritesSharing, Insert, Goes
<1>1. UNCHANGED <<telemetryOn, serverVars, publishVars, writerExits, responseRows, telemetryRows>>
      /\ writer = "sharing" /\ (position' = position \/ EventDone)
  OBVIOUS
<1>2. /\ position' \in 0..Len(events) /\ tried' \subseteq 1..Len(events)
      /\ Current \in Call
    BY <1>1, Resolving, RowTypes DEF TypeOK
<1>3. /\ sharingRows' \in [Call -> Nat]
      /\ \A c \in Call : sharingRows'[c] \in {sharingRows[c],
                                            sharingRows[c] + (IF Current = c THEN 1 ELSE 0)}
  <2>1. sharingRows' \in {sharingRows, [sharingRows EXCEPT ![Current] = @ + 1]}
    OBVIOUS
  <2>2. sharingRows \in [Call -> Nat]
    BY DEF TypeOK
  <2>3. QED
    BY <1>2, <2>1, <2>2, RowAdded
<1>4. TypeOK' /\ CursorInv'
  <2>1. writer' \in {"idle", "telemetry"}
    BY DEF EventDone
  <2>2. TypeOK'
    BY <1>1, <1>2, <1>3, <2>1 DEF TypeOK, serverVars, publishVars
  <2>3. CursorInv'
    BY <1>1, <2>1 DEF CursorInv, EventDone, publishVars
  <2>4. QED
    BY <2>2, <2>3
<1>5. ASSUME NEW c \in Call PROVE RowsOK(c)'
  <2>1. Projecting(c) <=> Current = c
    BY <1>1 DEF Projecting
  <2>2. Written(c)' = Written(c) + 0
    <3>1. Copies(c, position) \in Nat
      BY RowTypes
    <3>2. CASE EventDone
      <4>1. Written(c)' = Copies(c, position) + (IF Current = c THEN 1 ELSE 0)
        BY <1>1, <3>2, Resolving
      <4>2. QED
        BY <2>1, <3>1, <4>1 DEF Written
    <3>3. CASE ~EventDone
      <4>1. position' = position /\ events' = events /\ writer' = "telemetry"
        BY <1>1, <3>3 DEF publishVars
      <4>2. (Projecting(c)' <=> Current = c) /\ Copies(c, position)' = Copies(c, position)
        BY <4>1 DEF Projecting, Current, Copies, Offsets
      <4>3. QED
        BY <2>1, <3>1, <4>2 DEF Written
    <3>4. QED
      BY <3>2, <3>3
  <2>3. CountOK(c)'
    BY <1>1, <2>2, CountFollows
  <2>4. OrderOK(c)'
    <3>1. OrderOK(c) /\ responseRows[c] \in Nat /\ sharingRows[c] \in Nat /\ telemetryRows[c] \in Nat
      BY RowTypes DEF RowsOK
    <3>2. found' = found
      BY <1>1 DEF serverVars
    <3>3. CASE EventDone
      <4>1. ~Projecting(c)'
        BY <1>1, <3>3, Resolving
      <4>2. QED
        BY <1>1, <1>3, <2>1, <3>1, <3>2, <4>1 DEF OrderOK
    <3>4. CASE ~EventDone
      <4>1. /\ sharingRows' = [sharingRows EXCEPT ![Current] = @ + 1] /\ position' = position
            /\ writer' = "telemetry" /\ events' = events
        BY <3>4 DEF publishVars
      <4>2. Projecting(c)' <=> Current = c
        BY <4>1 DEF Projecting, Current
      <4>3. sharingRows'[c] = sharingRows[c] + (IF Current = c THEN 1 ELSE 0)
        BY <1>2, <4>1 DEF TypeOK
      <4>4. QED
        BY <1>1, <2>1, <3>1, <3>2, <4>1, <4>2, <4>3 DEF OrderOK
    <3>5. QED
      BY <3>3, <3>4
  <2>5. QED
    BY <2>3, <2>4 DEF RowsOK
<1>6. QED
  BY <1>1, <1>4, <1>5, CallsStay

LEMMA TelemetryKeeps == ASSUME AuditInv, WritesTelemetry PROVE AuditInv'
<1> USE DEF AuditInv, WritesTelemetry, Insert
<1>1. UNCHANGED <<telemetryOn, serverVars, publishVars, writerExits, responseRows, sharingRows>>
      /\ writer = "telemetry" /\ EventDone
  OBVIOUS
<1>2. /\ position' \in 0..Len(events) /\ tried' \subseteq 1..Len(events)
      /\ Current \in Call
    BY <1>1, Resolving
<1>3. /\ telemetryRows' \in [Call -> Nat]
      /\ \A c \in Call : telemetryRows'[c] \in {telemetryRows[c],
                                              telemetryRows[c] + (IF Current = c THEN 1 ELSE 0)}
  <2>1. telemetryRows' \in {telemetryRows, [telemetryRows EXCEPT ![Current] = @ + 1]}
    OBVIOUS
  <2>2. telemetryRows \in [Call -> Nat]
    BY DEF TypeOK
  <2>3. QED
    BY <1>2, <2>1, <2>2, RowAdded
<1>4. TypeOK' /\ CursorInv'
  <2>1. writer' = "idle"
    BY <1>1 DEF EventDone
  <2>2. QED
    BY <1>1, <1>2, <1>3, <2>1 DEF TypeOK, CursorInv, serverVars, publishVars
<1>5. ASSUME NEW c \in Call PROVE RowsOK(c)'
  <2>1. Projecting(c) <=> Current = c
    BY <1>1 DEF Projecting
  <2>2. ~Projecting(c)' /\ Written(c)' = Written(c) + 0
    <3>1. Copies(c, position) \in Nat
      BY RowTypes
    <3>2. ~Projecting(c)' /\ Written(c)' = Copies(c, position) + (IF Current = c THEN 1 ELSE 0)
      BY <1>1, Resolving
    <3>3. QED
      BY <2>1, <3>1, <3>2 DEF Written
  <2>3. CountOK(c)'
    BY <1>1, <2>2, CountFollows
  <2>4. OrderOK(c)'
    <3>1. OrderOK(c) /\ responseRows[c] \in Nat /\ sharingRows[c] \in Nat /\ telemetryRows[c] \in Nat
      BY RowTypes DEF RowsOK
    <3>2. found' = found
      BY <1>1 DEF serverVars
    <3>3. QED
      BY <1>1, <1>3, <2>1, <2>2, <3>1, <3>2 DEF OrderOK
  <2>5. QED
    BY <2>3, <2>4 DEF RowsOK
<1>6. QED
  BY <1>1, <1>4, <1>5, CallsStay

\* The inductive invariant: what is known of an event at each stage of its
\* call, and how many rows each table has for it.
THEOREM AuditInvariant == Spec => []AuditInv
<1>1. ASSUME AuditInv, UNCHANGED vars PROVE AuditInv'
  <2> USE <1>1 DEF vars, AuditInv
  <2>1. TypeOK' /\ CursorInv'
    BY DEF TypeOK, CursorInv, serverVars, publishVars, writerVars, rowVars
  <2>2. ASSUME NEW c \in Call PROVE RowsOK(c)'
    BY RowsStay DEF serverVars, publishVars
  <2>3. QED
    BY <2>1, <2>2, CallsStay
<1>2. AuditInv /\ [Next]_vars => AuditInv'
  BY <1>1, HandlerKeeps, PublisherKeeps, AppendKeeps, ServerKeeps, CursorKeeps, ResponseKeeps,
     SharingKeeps, TelemetryKeeps, WriterExitKeeps DEF Next
<1>3. QED
  BY AuditInit, <1>2, PTL DEF Spec

\* Every variable of the audit trail keeps its type.
THEOREM AuditTypeCorrect == Spec => []TypeOK
  BY AuditInvariant, PTL DEF AuditInv

\* No answer leaves unaudited but for a publish under way, given up or cut.
THEOREM NothingLostSilently == Spec => []NoSilentAuditLoss
<1>1. AuditInv => NoSilentAuditLoss
  <2> SUFFICES ASSUME AuditInv, NEW c \in Answered, telemetryOn, ~OnTopic(c)
               PROVE  \/ publish[c] \in {"connect", "send", "pause"}
                      \/ publish[c] = "gave_up" /\ attempt[c] = MAX_ATTEMPTS
                      \/ publish[c] = "lost" /\ serverExits > 0
    BY DEF NoSilentAuditLoss
  <2>1. c \in Call /\ reply[c] \in {"plain", "sealed"} /\ PublishOK(c)
    BY DEF Answered, AuditInv
  <2>2. publish[c] \in {"connect", "send", "sent", "pause", "published", "gave_up", "lost"}
    BY <2>1 DEF AuditInv, TypeOK, PublishOK
  <2>3. QED
    BY <2>1, <2>2 DEF PublishOK
<1>2. QED
  BY <1>1, AuditInvariant, PTL

\* The three tables are written in order, for every call and interleaving.
THEOREM TablesInOrder == Spec => []ProjectionsInOrder
<1>1. AuditInv => ProjectionsInOrder
  BY DEF AuditInv, RowsOK, OrderOK, ProjectionsInOrder
<1>2. QED
  BY <1>1, AuditInvariant, PTL

\* A call has at most one response row per copy of its event and incarnation
\* of the telemetry consumer.
THEOREM RowsAreBounded == Spec => []RowsBounded
<1>1. ASSUME AuditInv, NEW c \in Call
      PROVE  responseRows[c] <= Copies(c, Len(events)) * (1 + writerExits)
  <2>1. Written(c) <= Copies(c, Len(events)) /\ Written(c) \in Nat
    BY <1>1, WrittenBounded
  <2>2. Copies(c, Len(events)) * (1 + writerExits)
          = Copies(c, Len(events)) * writerExits + Copies(c, Len(events))
    BY <1>1, RowTypes
  <2>3. /\ responseRows[c] <= Copies(c, Len(events)) * writerExits + Written(c)
        /\ responseRows[c] \in Nat /\ Copies(c, Len(events)) * writerExits \in Nat
        /\ Copies(c, Len(events)) \in Nat
    BY <1>1, RowTypes DEF AuditInv, RowsOK, CountOK
  <2>4. QED
    BY <2>1, <2>2, <2>3
<1>2. AuditInv => RowsBounded
  BY <1>1 DEF RowsBounded, Copies, Offsets
<1>3. QED
  BY <1>2, AuditInvariant, PTL

-----------------------------------------------------------------------------
(***************************************************************************)
(* SeekAudit implements AtLeastOnce.  The simulation needs how far the     *)
(* telemetry consumer and its group are, and what they have behind them.   *)
(***************************************************************************)
TakenInv ==
  /\ 1..committed \subseteq tried
  /\ writer # "down" => committed <= position /\ 1..position \subseteq tried

\* The steps, as to the topic and its consumer.
LEMMA WriterCases ==
  ASSUME [Next]_vars
  PROVE  \/ UNCHANGED writerVars /\ \E c \in Call : events' = Append(events, c)
         \/ UNCHANGED <<writerVars, events>>
         \/ UNCHANGED events /\ (WriterStep \/ CommitEvents \/ WriterExits)
<1>1. CASE UNCHANGED vars
  BY <1>1 DEF vars, publishVars
<1>2. ASSUME NEW c \in Call,
             \/ Begin(c) \/ Resolves(c) \/ BuildsEvent(c) \/ Answers(c)
             \/ ProducerAwaited(c) \/ SendConfirmed(c) \/ SendFails(c) \/ Retries(c)
      PROVE  UNCHANGED <<writerVars, events>>
  BY <1>2 DEF Begin, Resolves, BuildsEvent, Answers, ProducerAwaited, SendConfirmed, SendFails,
              Retries, StartAttempt, publishVars
<1>3. ASSUME NEW c \in Call, EventPersists(c) \/ EventResent(c)
      PROVE  UNCHANGED writerVars /\ events' = Append(events, c)
  BY <1>3 DEF EventPersists, EventResent
<1>4. CASE ServerExits \/ ProducerSettles
  BY <1>4 DEF ServerExits, ProducerSettles, publishVars
<1>5. CASE WriterStep \/ CommitEvents \/ WriterExits
  BY <1>5 DEF WriterStep, WriterStarts, TakesEvent, WritesResponse, WritesSharing,
              WritesTelemetry, CommitEvents, WriterExits, publishVars
<1>6. QED
  BY <1>1, <1>2, <1>3, <1>4, <1>5 DEF Next, WriterStep

\* A write goes on to the next table, or resolves the event in hand.
LEMMA WriteEnds ==
  ASSUME WritesResponse \/ WritesSharing \/ WritesTelemetry
  PROVE  /\ writer \in {"response", "sharing", "telemetry"} /\ committed' = committed
         /\ \/ writer' # "down" /\ UNCHANGED <<position, tried>>
            \/ EventDone
<1>1. CASE WritesResponse
  BY <1>1 DEF WritesResponse, Insert, Goes
<1>2. CASE WritesSharing
  BY <1>2 DEF WritesSharing, Insert, Goes
<1>3. CASE WritesTelemetry
  BY <1>3 DEF WritesTelemetry, Insert
<1>4. QED
  BY <1>1, <1>2, <1>3

\* No step commits, or counts as resolved, an event that was not tried.
LEMMA TakenStep ==
  ASSUME TypeOK, TakenInv, [Next]_vars
  PROVE  TakenInv'
<1> USE DEF TakenInv
<1>1. position \in Nat /\ committed \in Nat
  BY DEF TypeOK
<1>2. CASE UNCHANGED writerVars
  BY <1>2 DEF writerVars
<1>3. CASE WriterStarts \/ TakesEvent \/ WriterExits
  BY <1>1, <1>3 DEF WriterStarts, TakesEvent, WriterExits
<1>4. CASE WritesResponse \/ WritesSharing \/ WritesTelemetry
  BY <1>1, <1>4, WriteEnds DEF EventDone
<1>5. CASE CommitEvents
  BY <1>1, <1>5 DEF CommitEvents
<1>6. QED
  BY <1>2, <1>3, <1>4, <1>5, WriterCases DEF WriterStep

\* telemetry/consumer.js:69-88: in every state all events up to the group's
\* offset, and up to the running instance's position, were tried.
THEOREM CommittedWereTried == Spec => []TakenInv
<1>1. Init => TakenInv
  BY DEF Init, TakenInv
<1>2. AuditInv => TypeOK
  BY DEF AuditInv
<1>3. QED
  BY <1>1, <1>2, TakenStep, AuditInvariant, PTL DEF Spec

\* A step of the telemetry consumer is one of the group, or does not show.
LEMMA WriterSimulates ==
  ASSUME AuditInv, TakenInv, UNCHANGED events, WriterStep \/ CommitEvents \/ WriterExits
  PROVE  Group!Next \/ UNCHANGED Group!groupVars
<1> USE DEF Group!groupVars, TakenInv
<1>1. position \in Nat /\ committed \in Nat /\ position <= Len(events) /\ Len(events) \in Nat
  BY DEF AuditInv, TypeOK
<1>2. CASE WriterStarts \/ TakesEvent \/ WriterExits
  BY <1>2 DEF WriterStarts, TakesEvent, WriterExits
<1>3. CASE WritesResponse \/ WritesSharing \/ WritesTelemetry
  <2>1. /\ writer # "down" /\ position < Len(events) /\ committed' = committed
        /\ UNCHANGED tried \/ tried' = tried \cup {position + 1}
    BY <1>3, WriteEnds DEF EventDone, AuditInv, CursorInv
  <2>2. Group!HandledUpTo((position + 1) - 1) /\ position + 1 \in 1..Len(events)
    BY <1>1, <2>1 DEF Group!HandledUpTo
  <2>3. CASE UNCHANGED tried
    BY <2>1, <2>3
  <2>4. CASE tried' = tried \cup {position + 1}
    BY <1>1, <2>1, <2>2, <2>4 DEF Group!Next, Group!Handle
  <2>5. QED
    BY <2>1, <2>3, <2>4
<1>4. CASE CommitEvents
  <2>1. /\ committed < position /\ committed' = position /\ tried' = tried
        /\ Group!HandledUpTo(position) /\ position \in 1..Len(events)
    BY <1>1, <1>4 DEF CommitEvents, Group!HandledUpTo
  <2>2. QED
    BY <1>1, <2>1 DEF Group!Next, Group!Ack
<1>5. QED
  BY <1>2, <1>3, <1>4 DEF WriterStep

(***************************************************************************)
(* telemetry/consumer.js:46-51, :69-88: for any number of events, copies   *)
(* and exits, the events are taken in order from the first one on, none is *)
(* passed over, and the group's offset passes only tried ones.             *)
(***************************************************************************)
THEOREM AuditTakesAtLeastOnce == Spec => TakesEventsAtLeastOnce
<1>1. Init => Group!Init
  BY DEF Init, Group!Init
<1>2. AuditInv /\ TakenInv /\ [Next]_vars => [Group!Next]_(Group!groupVars)
  <2> SUFFICES ASSUME AuditInv, TakenInv, [Next]_vars
               PROVE  Group!Next \/ UNCHANGED Group!groupVars
    BY DEF Group!groupVars
  <2>1. ASSUME UNCHANGED writerVars, NEW c \in Call, events' = Append(events, c)
        PROVE  Group!Next
    BY <2>1 DEF AuditInv, TypeOK, writerVars, Group!Next, Group!Send
  <2>2. CASE UNCHANGED <<writerVars, events>>
    BY <2>2 DEF writerVars, Group!groupVars
  <2>3. QED
    BY <2>1, <2>2, WriterCases, WriterSimulates
<1>3. QED
  BY <1>1, <1>2, AuditInvariant, CommittedWereTried, PTL DEF Spec, TakesEventsAtLeastOnce, Group!Spec

-----------------------------------------------------------------------------
(***************************************************************************)
(* A publish and the producer that all of them share                       *)
(* (eventProducer.js:5-17).                                                *)
(***************************************************************************)
\* A publish awaits a promise that exists, and sends with one that was kept.
PublisherInv ==
  \A c \in Call :
    /\ publish[c] = "connect" => producer # "none"
    /\ publish[c] \in {"send", "sent"} => producer = "ready"

\* A step of one call's publish, or one that starts it.
LEMMA PublisherOfCall ==
  ASSUME TypeOK, PublisherInv, NEW c \in Call,
         \/ BuildsEvent(c) \/ ProducerAwaited(c) \/ EventPersists(c) \/ EventResent(c)
         \/ SendConfirmed(c) \/ SendFails(c) \/ Retries(c)
  PROVE  PublisherInv'
<1> USE DEF PublisherInv, publishVars
<1>1. publish \in [Call -> {"none", "connect", "send", "sent", "pause",
                           "published", "gave_up", "lost"}]
  BY DEF TypeOK
<1>2. CASE BuildsEvent(c) \/ Retries(c)
  <2>1. CASE StartAttempt(c)
    BY <1>1, <1>2, <2>1 DEF BuildsEvent, Retries, StartAttempt
  <2>2. CASE UNCHANGED publishVars
    BY <1>2, <2>2 DEF BuildsEvent, Retries
  <2>3. QED
    BY <1>2, <2>1, <2>2 DEF BuildsEvent, Retries
<1>3. CASE ProducerAwaited(c)
  BY <1>1, <1>3 DEF ProducerAwaited, AttemptFails
<1>4. CASE EventPersists(c) \/ EventResent(c) \/ SendConfirmed(c)
  BY <1>1, <1>4 DEF EventPersists, EventResent, SendConfirmed
<1>5. CASE SendFails(c)
  BY <1>1, <1>5 DEF SendFails, AttemptFails
<1>6. QED
  BY <1>2, <1>3, <1>4, <1>5

\* No step disturbs PublisherInv.
LEMMA PublisherStep ==
  ASSUME TypeOK, PublisherInv, [Next]_vars
  PROVE  PublisherInv'
<1> USE DEF PublisherInv
<1>1. CASE ServerExits \/ ProducerSettles
  BY <1>1 DEF ServerExits, ProducerSettles, publishVars, TypeOK
<1>2. ASSUME \/ \E c \in Call : Begin(c) \/ Resolves(c) \/ Answers(c)
             \/ WriterStep \/ CommitEvents \/ WriterExits \/ UNCHANGED vars
      PROVE  UNCHANGED <<publish, producer>>
  BY <1>2 DEF Begin, Resolves, Answers, WriterStep, WriterStarts, TakesEvent, WritesResponse,
     WritesSharing, WritesTelemetry, CommitEvents, WriterExits, vars, publishVars
<1>3. QED
  BY <1>1, <1>2, PublisherOfCall DEF Next, WriterStep

(***************************************************************************)
(* eventProducer.js:6-17: a connection attempt that failed is kept like    *)
(* one that did not.  So while the promise is a rejected one, that is      *)
(* until the process exits, no event reaches the topic, and the bounded    *)
(* retry (:22, :29-51) is of use to a send that failed only.               *)
(***************************************************************************)
THEOREM RejectedProducerStopsAudit == Spec => [][producer = "rejected" => events' = events]_vars
<1>1. Init => PublisherInv
  BY DEF Init, PublisherInv
<1>2. PublisherInv /\ [Next]_vars => [producer = "rejected" => events' = events]_vars
  <2> SUFFICES ASSUME PublisherInv, Next, producer = "rejected"
               PROVE  events' = events
    BY DEF vars
  <2>1. ASSUME NEW c \in Call
        PROVE  ~EventPersists(c) /\ ~EventResent(c)
    BY <2>1 DEF PublisherInv, EventPersists, EventResent
  <2>2. ASSUME NEW c \in Call,
               \/ Begin(c) \/ Resolves(c) \/ BuildsEvent(c) \/ Answers(c)
               \/ ProducerAwaited(c) \/ SendConfirmed(c) \/ SendFails(c) \/ Retries(c)
        PROVE  events' = events
    BY <2>2 DEF Begin, Resolves, BuildsEvent, Answers, ProducerAwaited, SendConfirmed,
       SendFails, Retries, StartAttempt, publishVars
  <2>3. CASE ServerExits \/ ProducerSettles \/ WriterStep \/ CommitEvents \/ WriterExits
    BY <2>3 DEF ServerExits, ProducerSettles, WriterStep, WriterStarts, TakesEvent,
       WritesResponse, WritesSharing, WritesTelemetry, CommitEvents, WriterExits, publishVars
  <2>4. QED
    BY <2>1, <2>2, <2>3 DEF Next, WriterStep
<1>3. AuditInv => TypeOK
  BY DEF AuditInv
<1>4. QED
  BY <1>1, <1>2, <1>3, PublisherStep, AuditInvariant, PTL DEF Spec

-----------------------------------------------------------------------------
(***************************************************************************)
(* Which calls have transparency rows.                                     *)
(***************************************************************************)
\* What an error says of the publish: there was none, or the answer could
\* still fail when the event was already on its way.
ErrorOK(c) ==
  reply[c] = "error" /\ publish[c] # "none" =>
    \/ route[c] = "callback"
    \/ route[c] = "sealing" /\ found[c] \notin {"declined", "credential"}

SharedOK(c) ==
  /\ stage[c] = "new" => found[c] = "nothing"
  /\ found[c] = "credential" => route[c] # "callback"
  /\ publish[c] = "none" => ~OnTopic(c)
  /\ sharingRows[c] > 0 => found[c] \in NamesFarmers /\ OnTopic(c)
  /\ ErrorOK(c)

SharedInv ==
  /\ \A c \in Call : SharedOK(c)
  /\ writer = "sharing" => found[Current] \in NamesFarmers

\* The event in hand is on the topic, and it is that of a call.
LEMMA CurrentIsOnTopic ==
  ASSUME TypeOK, CursorInv, writer \in {"response", "sharing", "telemetry"}
  PROVE  Current \in Call /\ OnTopic(Current)
<1>1. position \in Nat /\ position + 1 \in 1..Len(events) /\ events \in Seq(Call)
  BY DEF TypeOK, CursorInv
<1>2. QED
  BY <1>1 DEF Current, OnTopic

\* A step of the process that answers.
LEMMA HandlerShares ==
  ASSUME AuditInv, SharedInv, NEW d \in Call, Begin(d) \/ Resolves(d) \/ BuildsEvent(d) \/ Answers(d)
  PROVE  SharedInv'
<1>1. /\ TypeOK /\ CursorInv /\ PublishOK(d) /\ \A c \in Call : SharedOK(c)
      /\ writer = "sharing" => found[Current] \in NamesFarmers
  BY DEF AuditInv, SharedInv
<1>2. UNCHANGED <<events, writer, position, sharingRows>>
  BY DEF Begin, Resolves, BuildsEvent, Answers, StartAttempt, publishVars, writerVars, rowVars
<1>3. \A c \in Call : OnTopic(c)' <=> OnTopic(c)
  BY <1>2 DEF OnTopic
<1>4. \A c \in Call : c # d => /\ stage'[c] = stage[c] /\ found'[c] = found[c]
                               /\ route'[c] = route[c] /\ reply'[c] = reply[c]
                               /\ publish'[c] = publish[c]
  BY <1>1 DEF TypeOK, Begin, Resolves, BuildsEvent, Answers, Throws, Goto, StartAttempt, publishVars
<1>5. \A c \in Call : c # d => SharedOK(c)'
  BY <1>1, <1>2, <1>3, <1>4 DEF SharedOK, ErrorOK
<1>6. writer = "sharing" => found'[Current] \in NamesFarmers
  <2>1. writer = "sharing" => Current \in Call /\ OnTopic(Current)
    BY <1>1, CurrentIsOnTopic
  <2>2. OnTopic(d) => found' = found
    BY <1>1 DEF PublishOK, Begin, Resolves, BuildsEvent, Answers
  <2>3. QED
    BY <1>1, <1>4, <2>1, <2>2
<1>7. SharedOK(d)'
  <2> USE <1>1, <1>2, <1>3 DEF SharedOK, ErrorOK, PublishOK, TypeOK
  <2>1. CASE Begin(d)
    BY <2>1 DEF Begin, Goto, publishVars
  <2>2. CASE Resolves(d)
    BY <2>2 DEF Resolves, Goto, Throws, publishVars, Found
  <2>3. CASE BuildsEvent(d)
    BY <2>3 DEF BuildsEvent, Goto, Throws, StartAttempt, publishVars
  <2>4. CASE Answers(d)
    BY <2>4 DEF Answers, Goto, Throws, SealedAs, publishVars
  <2>5. QED
    BY <2>1, <2>2, <2>3, <2>4
<1>8. Current' = Current
  BY <1>2 DEF Current
<1>9. QED
  BY <1>2, <1>5, <1>6, <1>7, <1>8 DEF SharedInv

\* A step of a publish, of the broker or of the processes as a whole.
LEMMA PublisherShares ==
  ASSUME AuditInv, SharedInv,
         \/ \E d \in Call : \/ ProducerAwaited(d) \/ EventPersists(d) \/ EventResent(d)
                            \/ SendConfirmed(d) \/ SendFails(d) \/ Retries(d)
         \/ ServerExits \/ ProducerSettles \/ UNCHANGED vars
  PROVE  SharedInv'
<1>1. TypeOK /\ CursorInv /\ \A c \in Call : SharedOK(c)
  BY DEF AuditInv, SharedInv
<1>2. /\ UNCHANGED <<found, route, reply, sharingRows, writer, position>>
      /\ \A c \in Call : /\ stage'[c] = "new" => stage[c] = "new"
                         /\ publish'[c] = "none" => publish[c] = "none"
                         /\ publish'[c] = "none" <=> publish[c] = "none"
  <2>1. ASSUME NEW d \in Call,
               \/ ProducerAwaited(d) \/ EventPersists(d) \/ EventResent(d)
               \/ SendConfirmed(d) \/ SendFails(d) \/ Retries(d)
        PROVE  /\ UNCHANGED <<found, route, reply, sharingRows, writer, position, stage>>
               /\ \E w \in {"connect", "send", "sent", "pause", "published", "gave_up"} :
                    publish[d] # "none" /\ publish' = [publish EXCEPT ![d] = w]
    <3>1. CASE ProducerAwaited(d) \/ SendFails(d)
      BY <3>1 DEF ProducerAwaited, SendFails, AttemptFails, serverVars, writerVars, rowVars
    <3>2. CASE EventPersists(d) \/ SendConfirmed(d) \/ Retries(d)
      BY <3>2 DEF EventPersists, SendConfirmed, Retries, StartAttempt, serverVars, writerVars,
                  rowVars
    <3>3. CASE EventResent(d)
      <4>1. publish' = publish /\ publish[d] = "sent"
        BY <3>3 DEF EventResent
      <4>2. publish' = [publish EXCEPT ![d] = "sent"]
        BY <1>1, <4>1 DEF TypeOK
      <4>3. QED
        BY <3>3, <4>1, <4>2 DEF EventResent, serverVars, writerVars, rowVars
    <3>4. QED
      BY <2>1, <3>1, <3>2, <3>3
  <2>2. publish \in [Call -> {"none", "connect", "send", "sent", "pause",
                             "published", "gave_up", "lost"}]
    BY <1>1 DEF TypeOK
  <2>3. CASE ServerExits
    BY <1>1, <2>2, <2>3 DEF ServerExits, TypeOK, writerVars, rowVars
  <2>4. CASE ProducerSettles \/ UNCHANGED vars
    BY <2>4 DEF ProducerSettles, vars, serverVars, publishVars, writerVars,
                rowVars
  <2>5. QED
    BY <2>1, <2>2, <2>3, <2>4
<1>3. \/ events' = events
      \/ \E d \in Call : publish[d] \in {"send", "sent"} /\ events' = Append(events, d)
  BY DEF ProducerAwaited, EventPersists, EventResent, SendConfirmed, SendFails, Retries,
     StartAttempt, ServerExits, ProducerSettles, vars, publishVars
<1>4. events \in Seq(Call) /\ Len(events) \in Nat
  BY <1>1 DEF TypeOK
<1>5. \A c \in Call : OnTopic(c) => OnTopic(c)'
  BY <1>3, <1>4 DEF OnTopic
<1>6. \A c \in Call : publish[c] = "none" /\ OnTopic(c)' => OnTopic(c)
  BY <1>3, <1>4 DEF OnTopic
<1>7. \A c \in Call : SharedOK(c)'
  BY <1>1, <1>2, <1>5, <1>6 DEF SharedOK, ErrorOK
<1>8. writer = "sharing" => Current' = Current
  <2>1. writer = "sharing" => position + 1 \in 1..Len(events)
    BY <1>1, <1>4 DEF CursorInv, TypeOK
  <2>2. QED
    BY <1>2, <1>3, <1>4, <2>1 DEF Current
<1>9. QED
  BY <1>2, <1>7, <1>8 DEF SharedInv

\* A step of the telemetry consumer.
LEMMA WriterShares ==
  ASSUME AuditInv, SharedInv, WriterStep \/ CommitEvents \/ WriterExits
  PROVE  SharedInv'
<1>1. TypeOK /\ CursorInv /\ \A c \in Call : SharedOK(c)
  BY DEF AuditInv, SharedInv
<1>2. UNCHANGED <<found, route, reply, stage, publish, events>>
  BY DEF WriterStep, WriterStarts, TakesEvent, WritesResponse, WritesSharing, WritesTelemetry,
     CommitEvents, WriterExits, serverVars, publishVars
<1>3. \A c \in Call : OnTopic(c)' <=> OnTopic(c)
  BY <1>2 DEF OnTopic
<1>4. CASE WritesSharing
  <2>1. /\ writer = "sharing" /\ writer' # "sharing"
        /\ sharingRows' \in {sharingRows, [sharingRows EXCEPT ![Current] = @ + 1]}
    BY <1>4 DEF WritesSharing, Insert, Goes, EventDone
  <2>2. Current \in Call /\ OnTopic(Current) /\ found[Current] \in NamesFarmers
    BY <1>1, <2>1, CurrentIsOnTopic DEF SharedInv
  <2>3. sharingRows \in [Call -> Nat]
    BY <1>1 DEF TypeOK
  <2>4. \A c \in Call : c = Current \/ sharingRows'[c] = sharingRows[c]
    BY <2>1, <2>3
  <2>5. \A c \in Call : SharedOK(c)'
    BY <1>1, <1>2, <1>3, <2>2, <2>4 DEF SharedOK, ErrorOK
  <2>6. QED
    BY <2>1, <2>5 DEF SharedInv
<1>5. CASE WritesResponse
  <2>1. UNCHANGED sharingRows
    BY <1>5 DEF WritesResponse
  <2>2. writer' = "sharing" => found[Current] \in NamesFarmers /\ position' = position
    BY <1>5 DEF WritesResponse, Insert, Goes, EventDone
  <2>3. QED
    BY <1>1, <1>2, <1>3, <2>1, <2>2 DEF SharedInv, SharedOK, ErrorOK, Current
<1>6. CASE WriterStarts \/ TakesEvent \/ WritesTelemetry \/ CommitEvents \/ WriterExits
  <2>1. UNCHANGED sharingRows /\ writer' # "sharing"
    BY <1>6 DEF WriterStarts, TakesEvent, WritesTelemetry, CommitEvents, WriterExits, Insert,
       EventDone, rowVars
  <2>2. QED
    BY <1>1, <1>2, <1>3, <2>1 DEF SharedInv, SharedOK, ErrorOK
<1>7. QED
  BY <1>4, <1>5, <1>6 DEF WriterStep

(***************************************************************************)
(* telemetry/consumer.js:114-122: transparency rows exist only for answers *)
(* that name farmers, and of these a call that ended in an error has some  *)
(* only if it found farmers whose answer had still to be sealed, or POSTed *)
(* to sender_uri, when the event was already published.                    *)
(***************************************************************************)
SharedButFailedOnlyLate ==
  \A c \in Call :
    sharingRows[c] > 0 =>
      /\ found[c] \in NamesFarmers
      /\ reply[c] = "error" => found[c] = "farmers" /\ route[c] \in {"callback", "sealing"}

\* This tells exactly the calls for which SharedOnlyIfAnswered can fail.
THEOREM SharedRowsExplained == Spec => []SharedButFailedOnlyLate
<1>1. Init => SharedInv
  BY DEF Init, SharedInv, SharedOK, ErrorOK, OnTopic
<1>2. AuditInv /\ SharedInv /\ [Next]_vars => SharedInv'
  BY HandlerShares, PublisherShares, WriterShares DEF Next, WriterStep
<1>3. AuditInv /\ SharedInv => SharedButFailedOnlyLate
  BY DEF SharedInv, SharedOK, ErrorOK, SharedButFailedOnlyLate, NamesFarmers, AuditInv, TypeOK, Route
<1>4. QED
  BY <1>1, <1>2, <1>3, AuditInvariant, PTL DEF Spec
=============================================================================
