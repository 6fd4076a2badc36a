------------------------- MODULE SeekContractProofs -------------------------
(***************************************************************************)
(* SeekPipeline implements SeekContract, for every set of calls, every     *)
(* assignment of transaction ids and every bound.  The refinement mapping  *)
(* is that of SeekPipeline.  On top of the pipeline's IInv the simulation  *)
(* needs to know which answers a call can still have (AnswerInv) and that  *)
(* the consumer posted nothing but what is on the log (PostsOnLog).        *)
(*                                                                         *)
(* What the contract promises then holds of the pipeline (Promises).  The  *)
(* second half is about the parts below it: the producer that all handlers *)
(* share (HandlersAwaitProducer), and the topic with its consumer, which   *)
(* implements AtLeastOnce (GInv).                                          *)
(***************************************************************************)
EXTENDS SeekPipelineProofs

\* What a call's stage and door tell about its answer and its verdict.
CallAnswerInv(q) ==
  /\ stage[q] \in {"new", "dedup", "decided", "connect", "send", "sent"} => reply[q] = "none"
  /\ stage[q] = "resolve" /\ door[q] = "v2" => reply[q] = "none"
  /\ stage[q] = "decided" => verdict[q] # "none"
  /\ stage[q] \in {"resolve", "post", "delivered"} => Admitted(q)
  /\ stage[q] \in {"post", "delivered"} => door[q] = "v1"
  /\ reply[q] \in {"result", "internal_error"} => door[q] = "v2"

AnswerInv == \A q \in Request : CallAnswerInv(q)

PostsOnLog == \A i \in Offsets : posts[i] > 0 => i <= Len(topic)

CInv == IInv /\ AnswerInv /\ PostsOnLog

-----------------------------------------------------------------------------
(***************************************************************************)
(* The invariant.                                                          *)
(***************************************************************************)
\* A handler's step keeps the CallAnswerInv of its own call.
LEMMA OwnStepKeepsAnswer ==
  ASSUME TypeOK, DecisionInv, NEW r \in Request, NEW d \in Door, NEW f \in Form,
         Arrive(r, d, f) \/ HandlerStep(r) \/ ResendPersists(r),
         HandlerInv(r), CallAnswerInv(r)
  PROVE  CallAnswerInv(r)'
<1>1. /\ stage \in [Request -> Stage] /\ door \in [Request -> Door]
      /\ reply \in [Request -> Reply]
      /\ verdict \in [Request -> {"none", "new", "duplicate"}]
  BY DEF TypeOK, IntakeTypeOK
<1> USE <1>1 DEF CallAnswerInv, HandlerInv, Goto, Answer, Admitted, topicVars, intakeVars
<1>2. CASE Arrive(r, d, f)
  BY <1>2 DEF Arrive
<1>3. CASE Decide(r)
  BY <1>3 DEF Decide
<1>4. CASE RefuseDuplicate(r) \/ BeginPublish(r)
  BY <1>4 DEF RefuseDuplicate, BeginPublish
<1>5. CASE AckInProcess(r)
  BY <1>5 DEF AckInProcess
<1>6. CASE BeginSync(r)
  BY <1>6 DEF BeginSync
<1>7. CASE ProducerAwaited(r)
  BY <1>7 DEF ProducerAwaited
<1>8. CASE BrokerPersists(r)
  BY <1>8 DEF BrokerPersists
<1>9. CASE ResendPersists(r)
  BY <1>9 DEF ResendPersists
<1>10. CASE SendConfirmed(r) \/ SendFails(r)
  BY <1>10 DEF SendConfirmed, SendFails
<1>11. CASE SyncAnswers(r)
  BY <1>11 DEF SyncAnswers
<1>12. CASE InProcessResolves(r) \/ InProcessPosts(r)
  BY <1>12 DEF InProcessResolves, InProcessPosts
<1> QED
  BY <1>2, <1>3, <1>4, <1>5, <1>6, <1>7, <1>8, <1>9, <1>10, <1>11, <1>12 DEF HandlerStep

\* No step disturbs any call's CallAnswerInv.
LEMMA AnswerStep ==
  ASSUME IInv, AnswerInv, [Next]_vars
  PROVE  AnswerInv'
<1>1. TypeOK /\ DecisionInv /\ \A q \in Request : HandlerInv(q) /\ CallAnswerInv(q)
  BY IntakeInvByCall DEF IInv, DedupInv, AnswerInv
<1>2. \A q \in Request : CallUntouched(q) => CallAnswerInv(q)'
  BY <1>1 DEF CallUntouched, CallAnswerInv, Admitted
<1>3. ASSUME NEW r \in Request, NEW d \in Door, NEW f \in Form,
             Arrive(r, d, f) \/ HandlerStep(r) \/ ResendPersists(r), NEW q \in Request
      PROVE  CallAnswerInv(q)'
  <2>1. CASE q = r
    BY <1>1, <1>3, <2>1, OwnStepKeepsAnswer
  <2>2. CASE q # r
    BY <1>1, <1>2, <1>3, <2>2, OthersUntouched
  <2> QED
    BY <2>1, <2>2
<1>4. CASE HandlerTakesStep
  BY <1>3, <1>4 DEF HandlerTakesStep, Api, AnswerInv
<1>5. CASE Api(ApiExits)
  <2>1. stage \in [Request -> Stage]
    BY <1>1 DEF TypeOK, IntakeTypeOK
  <2> QED
    BY <1>1, <1>5, <2>1 DEF Api, ApiExits, AnswerInv, CallAnswerInv, Suspended, Admitted
<1>6. CASE Api(ProducerSettles) \/ WorkerTakesStep \/ RedisTakesStep
           \/ UNCHANGED vars
  <2>1. \A q \in Request : CallUntouched(q)
    BY <1>6 DEF Api, ProducerSettles, WorkerTakesStep, Consumer,
         RedisTakesStep, vars, topicVars, intakeVars, CallUntouched, Queued
  <2> QED
    BY <1>2, <2>1 DEF AnswerInv
<1> QED
  BY <1>4, <1>5, <1>6, StepCases

\* A step of the consumer posts at most the message it has in hand.
LEMMA PostsStep ==
  ASSUME IInv, PostsOnLog, [Next]_vars
  PROVE  PostsOnLog'
<1>1. /\ Len(topic) \in Nat /\ Len(topic') \in Nat /\ Len(topic) <= Len(topic')
      /\ posts \in [Offsets -> Nat] /\ position \in Nat
      /\ worker = "post" => position + 1 <= Len(topic)
  BY LogStep, TypeStep DEF IInv, ConsumerInv, PositionInv, TypeOK, TopicTypeOK, ConsumerTypeOK
<1>2. CASE posts' = posts
  BY <1>1, <1>2 DEF PostsOnLog
<1>3. CASE WorkerPosts
  <2>1. ASSUME NEW i \in Offsets PROVE posts'[i] = posts[i] \/ (i = position + 1 /\ worker = "post")
    BY <1>1, <1>3 DEF WorkerPosts, Current
  <2> QED
    BY <1>1, <2>1 DEF PostsOnLog, Offsets
<1>4. posts' = posts \/ WorkerPosts
  BY StepCases DEF HandlerTakesStep, Api, RedisTakesStep, vars, consumerVars,
     WorkerTakesStep, Consumer, WorkerStep, WorkerStarts, EachMessage, WorkerResolves,
     WorkerCannotPost, CommitOffset, WorkerExits
<1> QED
  BY <1>2, <1>3, <1>4

\* The invariant under which the simulation holds (asyncHandler.js, syncHandler.js,
\* consumer.js): the pipeline's, with what is known of answers and of posts.
THEOREM ContractInvariant == Spec => []CInv
<1>1. Init => AnswerInv /\ PostsOnLog
  BY DEF Init, IntakeInit, ConsumerInit, AnswerInv, CallAnswerInv, PostsOnLog, Offsets
<1>2. IInv /\ AnswerInv /\ PostsOnLog /\ [Next]_vars => (AnswerInv /\ PostsOnLog)'
  BY AnswerStep, PostsStep
<1> QED
  BY <1>1, <1>2, PipelineInvariant, PTL DEF Spec, CInv

-----------------------------------------------------------------------------
(***************************************************************************)
(* The mapping.                                                            *)
(***************************************************************************)
HolderMap == [t \in Txn |-> HolderOf(t)]
PhaseMap  == [r \in Request |-> PhaseOf(r)]

\* What a call's phase is, by its verdict.
LEMMA PhaseByVerdict ==
  ASSUME TypeOK, NEW r \in Request
  PROVE  /\ verdict[r] = "none" => PhaseMap[r] = "open"
         /\ verdict[r] = "new" => PhaseMap[r] = "taken"
         /\ verdict[r] = "duplicate" => PhaseMap[r] = "turned_away"
<1>1. PhaseMap[r] = PhaseOf(r)
  BY DEF PhaseMap
<1> QED
  BY <1>1 DEF PhaseOf

\* Without a decision and an expiry, nobody's hold or phase changes.
LEMMA HoldsStay ==
  ASSUME UNCHANGED <<dedupKeys, window, verdict, seenIn>>
  PROVE  UNCHANGED <<HolderMap, PhaseMap>>
BY DEF HolderMap, PhaseMap, HolderOf, PhaseOf, Admitted

\* A callback, once delivered, stays delivered; a step that posts nothing adds none.
LEMMA CalledBackStays ==
  ASSUME TypeOK, PostsOnLog, UNCHANGED posts,
         UNCHANGED topic \/ \E r \in Request : Persist(r),
         \A q \in Request : stage'[q] = "delivered" <=> stage[q] = "delivered"
  PROVE  UNCHANGED CalledBack
<1>1. \A i \in Delivered : i \in 1..Len(topic)
  BY DEF Delivered, PostsOnLog, TypeOK, TopicTypeOK, Offsets
<1>2. \A i \in 1..Len(topic) : topic'[i] = topic[i]
  BY DEF Persist, TypeOK, TopicTypeOK
<1>3. Delivered' = Delivered
  BY DEF Delivered
<1> QED
  BY <1>1, <1>2, <1>3 DEF CalledBack

\* A call whose callback was delivered was let in through v1, and its answer is
\* not the result.
LEMMA CalledBackCalls ==
  ASSUME CInv, NEW q \in CalledBack
  PROVE  /\ q \in Request /\ Admitted(q) /\ door[q] = "v1"
         /\ reply[q] \notin {"result", "internal_error"}
<1>1. q \in Queued \/ (q \in Request /\ stage[q] = "delivered")
  BY DEF CInv, PostsOnLog, CalledBack, Delivered, Offsets, Queued, IInv, TypeOK, TopicTypeOK
<1>2. q \in Request
  BY <1>1 DEF Queued, CInv, IInv, TypeOK, TopicTypeOK
<1>3. HandlerInv(q) /\ CallAnswerInv(q)
  BY <1>2, IntakeInvByCall DEF CInv, IInv, AnswerInv
<1> QED
  BY <1>1, <1>2, <1>3 DEF HandlerInv, CallAnswerInv

-----------------------------------------------------------------------------
(***************************************************************************)
(* The simulation, step by step.                                           *)
(***************************************************************************)
\* The SET NX of a call is the call being taken up or turned away.
LEMMA DecideSimulates ==
  ASSUME CInv, NEW r \in Request, Api(Decide(r))
  PROVE  Contract!TakeUp(r) \/ Contract!TurnAway(r)
<1> DEFINE t == TxnOf[r]
<1>1. /\ verdict \in [Request -> {"none", "new", "duplicate"}]
      /\ seenIn \in [Request -> Nat] /\ window \in [Txn -> Nat]
      /\ stage \in [Request -> Stage] /\ dedupKeys \subseteq Txn
      /\ \A q \in Request : TxnOf[q] \in Txn
  BY DedupAssumption, IntakeAssumption DEF CInv, IInv, TypeOK, DedupTypeOK, IntakeTypeOK
<1>2. /\ stage[r] = "dedup" /\ verdict[r] = "none" /\ reply[r] = "none"
      /\ reply' = reply /\ window' = window
  BY DEF CInv, IInv, DedupInv, DecisionInv, AnswerInv, CallAnswerInv, Api, Decide, SetTaken,
     SetRefused, dedupVars
<1>3. /\ \A q \in Request : q # r => verdict'[q] = verdict[q] /\ seenIn'[q] = seenIn[q]
      /\ seenIn'[r] = window[t]
  BY <1>1 DEF Api, Decide
<1>4. UNCHANGED CalledBack
  <2>1. UNCHANGED topic /\ UNCHANGED posts
    BY DEF Api, Decide, topicVars, consumerVars
  <2>2. \A q \in Request : stage'[q] = "delivered" <=> stage[q] = "delivered"
    BY <1>1, <1>2 DEF Api, Decide, Goto
  <2> QED
    BY <2>1, <2>2, CalledBackStays DEF CInv, IInv
<1>5. PhaseMap[r] = "open"
  BY <1>2, PhaseByVerdict DEF CInv, IInv
<1>6. PhaseMap' = [PhaseMap EXCEPT ![r] = PhaseOf(r)']
  <2>1. \A q \in Request : q # r => PhaseOf(q)' = PhaseOf(q)
    BY <1>3 DEF PhaseOf
  <2> QED
    BY <2>1 DEF PhaseMap
<1>7. CASE SetTaken(t) /\ verdict'[r] = "new"
  <2>1. t \notin dedupKeys /\ dedupKeys' = dedupKeys \cup {t}
    BY <1>7 DEF SetTaken
  <2>2. HolderMap[t] = {}
    BY <1>1, <2>1 DEF HolderMap, HolderOf
  <2>3. \A q \in Request : Admitted(q) /\ TxnOf[q] = t => seenIn[q] # window[t]
    BY <2>1 DEF CInv, IInv, DedupInv, KeyInv
  <2>4. ASSUME NEW u \in Txn PROVE HolderMap'[u] = IF u = t THEN {r} ELSE HolderMap[u]
    <3>1. HolderMap'[u] = HolderOf(u)' /\ HolderMap[u] = HolderOf(u)
      BY DEF HolderMap
    <3>2. CASE u = t
      BY <1>2, <1>3, <1>7, <2>1, <2>3, <3>1, <3>2 DEF HolderOf, Admitted
    <3>3. CASE u # t
      BY <1>2, <1>3, <2>1, <3>1, <3>3 DEF HolderOf, Admitted
    <3> QED
      BY <3>2, <3>3
  <2>5. HolderMap' = [HolderMap EXCEPT ![t] = {r}]
    BY <2>4 DEF HolderMap
  <2>6. PhaseMap' = [PhaseMap EXCEPT ![r] = "taken"]
    BY <1>6, <1>7 DEF PhaseOf
  <2> QED
    BY <1>2, <1>4, <1>5, <2>2, <2>5, <2>6 DEF Contract!TakeUp, HolderMap, PhaseMap
<1>8. CASE SetRefused(t) /\ verdict'[r] = "duplicate"
  <2>1. t \in dedupKeys /\ dedupKeys' = dedupKeys
    BY <1>8 DEF SetRefused, dedupVars
  <2>2. HolderMap[t] # {}
    BY <1>1, <2>1 DEF CInv, IInv, DedupInv, KeyInv, HolderMap, HolderOf
  <2>3. HolderMap' = HolderMap
    BY <1>2, <1>3, <1>8, <2>1 DEF HolderMap, HolderOf, Admitted
  <2>4. PhaseMap' = [PhaseMap EXCEPT ![r] = "turned_away"]
    BY <1>6, <1>8 DEF PhaseOf
  <2> QED
    BY <1>2, <1>4, <1>5, <2>2, <2>3, <2>4 DEF Contract!TurnAway, HolderMap, PhaseMap
<1> QED
  BY <1>1, <1>7, <1>8 DEF Api, Decide

\* A key that expires is a hold that is released.
LEMMA ExpirySimulates ==
  ASSUME CInv, NEW t \in Txn, ExpireKey(t), UNCHANGED <<topicVars, intakeVars, consumerVars>>
  PROVE  Contract!Release(t)
<1>1. /\ t \in dedupKeys /\ dedupKeys' = dedupKeys \ {t} /\ window' = [window EXCEPT ![t] = @ + 1]
      /\ UNCHANGED <<verdict, seenIn, stage, reply, topic, posts>> /\ window \in [Txn -> Nat]
  BY DedupAssumption DEF ExpireKey, intakeVars, topicVars, consumerVars, CInv, IInv, TypeOK, DedupTypeOK
<1>2. HolderMap[t] # {}
  BY <1>1 DEF CInv, IInv, DedupInv, KeyInv, HolderMap, HolderOf
<1>3. HolderMap' = [HolderMap EXCEPT ![t] = {}]
  <2>1. ASSUME NEW u \in Txn PROVE HolderMap'[u] = IF u = t THEN {} ELSE HolderMap[u]
    BY <1>1 DEF HolderMap, HolderOf, Admitted
  <2> QED
    BY <2>1 DEF HolderMap
<1>4. PhaseMap' = PhaseMap /\ UNCHANGED CalledBack
  BY <1>1 DEF PhaseMap, PhaseOf, CalledBack, Delivered
<1> QED
  BY <1>1, <1>2, <1>3, <1>4 DEF Contract!Release, HolderMap, PhaseMap

\* A successful POST, by the consumer or in process, is the call's callback.
LEMMA PostSimulates ==
  ASSUME CInv, NEW r \in Request, CalledBack' = CalledBack \cup {r},
         Admitted(r), reply[r] \notin {"result", "internal_error"},
         UNCHANGED <<dedupKeys, window, verdict, seenIn, reply>>
  PROVE  Contract!Deliver(r)
<1>1. UNCHANGED <<HolderMap, PhaseMap>>
  BY HoldsStay
<1>2. PhaseMap[r] = "taken"
  BY PhaseByVerdict DEF CInv, IInv, Admitted
<1> QED
  BY <1>1, <1>2 DEF Contract!Deliver, HolderMap, PhaseMap

\* Any other step of a handler gives the one answer its phase allows, or none.
LEMMA HandlerAnswers ==
  ASSUME CInv, NEW r \in Request, NEW d \in Door, NEW f \in Form,
         Arrive(r, d, f) \/ HandlerStep(r) \/ ResendPersists(r), ~Decide(r), ~InProcessPosts(r)
  PROVE  /\ UNCHANGED <<dedupKeys, window, verdict, seenIn>>
         /\ UNCHANGED topic \/ Persist(r)
         /\ \A q \in Request : stage'[q] = "delivered" <=> stage[q] = "delivered"
         /\ \/ UNCHANGED reply
            \/ /\ reply[r] = "none"
               /\ \E a \in Contract!Answers(r) : reply' = [reply EXCEPT ![r] = a]
<1>1. /\ stage \in [Request -> Stage] /\ door \in [Request -> Door] /\ reply \in [Request -> Reply]
      /\ verdict \in [Request -> {"none", "new", "duplicate"}]
      /\ HandlerInv(r) /\ CallAnswerInv(r)
      /\ stage[r] \in {"new", "dedup"} => verdict[r] = "none"
  BY IntakeInvByCall DEF CInv, IInv, AnswerInv, DedupInv, DecisionInv, TypeOK, IntakeTypeOK
<1>2. /\ verdict[r] = "none" => "bad_request" \in Contract!Answers(r)
      /\ verdict[r] = "duplicate" => "duplicate" \in Contract!Answers(r)
      /\ verdict[r] = "new" => {"ack", "queue_unavailable"} \subseteq Contract!Answers(r)
      /\ verdict[r] = "new" /\ door[r] = "v2" =>
           {"result", "internal_error"} \subseteq Contract!Answers(r)
  <2>1. door[r] = "v2" => r \notin CalledBack
    BY CalledBackCalls
  <2> QED
    BY <2>1, PhaseByVerdict DEF Contract!Answers, PhaseMap, CInv, IInv
<1> USE <1>1 DEF Goto, Answer, Admitted, topicVars, dedupVars, intakeVars
<1>3. CASE Arrive(r, d, f)
  BY <1>2, <1>3 DEF Arrive, CallAnswerInv
<1>4. CASE RefuseDuplicate(r)
  BY <1>2, <1>4 DEF RefuseDuplicate, CallAnswerInv
<1>5. CASE AckInProcess(r)
  BY <1>2, <1>5 DEF AckInProcess, CallAnswerInv
<1>6. CASE BeginPublish(r) \/ BeginSync(r) \/ InProcessResolves(r)
  BY <1>6 DEF BeginPublish, BeginSync, InProcessResolves
<1>7. CASE ProducerAwaited(r)
  BY <1>2, <1>7 DEF ProducerAwaited, CallAnswerInv, HandlerInv
<1>8. CASE BrokerPersists(r) \/ ResendPersists(r)
  BY <1>8 DEF BrokerPersists, ResendPersists
<1>9. CASE SendConfirmed(r) \/ SendFails(r)
  BY <1>2, <1>9 DEF SendConfirmed, SendFails, CallAnswerInv, HandlerInv
<1>10. CASE SyncAnswers(r)
  BY <1>2, <1>10 DEF SyncAnswers, CallAnswerInv
<1> QED
  BY <1>3, <1>4, <1>5, <1>6, <1>7, <1>8, <1>9, <1>10 DEF HandlerStep

\* A handler's step is a step of the contract, or none.
LEMMA HandlerSimulates ==
  ASSUME CInv, NEW r \in Request, NEW d \in Door, NEW f \in Form,
         Api(Arrive(r, d, f) \/ HandlerStep(r) \/ ResendPersists(r))
  PROVE  Contract!Next \/ UNCHANGED Contract!contractVars
<1>1. CASE Decide(r)
  BY <1>1, DecideSimulates DEF Api, Contract!Next
<1>2. CASE InProcessPosts(r)
  <2>1. /\ stage[r] = "post" /\ stage \in [Request -> Stage]
        /\ UNCHANGED <<dedupKeys, window, verdict, seenIn, reply, topic, posts>>
        /\ stage' = [stage EXCEPT ![r] = "delivered"] \/ stage' = [stage EXCEPT ![r] = "done"]
    BY <1>2 DEF InProcessPosts, Goto, Api, dedupVars, topicVars, consumerVars, CInv, IInv,
                TypeOK, IntakeTypeOK
  <2>2. Admitted(r) /\ reply[r] \notin {"result", "internal_error"}
    BY <2>1 DEF CInv, AnswerInv, CallAnswerInv
  <2>3. CASE stage' = [stage EXCEPT ![r] = "delivered"]
    <3>1. CalledBack' = CalledBack \cup {r}
      BY <2>1, <2>3 DEF CalledBack, Delivered
    <3> QED
      BY <2>1, <2>2, <3>1, PostSimulates DEF Contract!Next
  <2>4. CASE stage' = [stage EXCEPT ![r] = "done"]
    <3>1. CalledBack' = CalledBack
      BY <2>1, <2>4 DEF CalledBack, Delivered
    <3> QED
      BY <2>1, <3>1, HoldsStay DEF Contract!contractVars, HolderMap, PhaseMap
  <2> QED
    BY <2>1, <2>3, <2>4
<1>3. CASE ~Decide(r) /\ ~InProcessPosts(r)
  <2>1. UNCHANGED posts
    BY DEF Api, consumerVars
  <2>2. UNCHANGED CalledBack
    BY <1>3, <2>1, HandlerAnswers, CalledBackStays DEF Api, CInv, IInv
  <2>3. UNCHANGED <<HolderMap, PhaseMap>>
    BY <1>3, HandlerAnswers, HoldsStay DEF Api
  <2>4. CASE UNCHANGED reply
    BY <2>2, <2>3, <2>4 DEF Contract!contractVars, HolderMap, PhaseMap
  <2>5. CASE /\ reply[r] = "none"
             /\ \E a \in Contract!Answers(r) : reply' = [reply EXCEPT ![r] = a]
    BY <2>2, <2>3, <2>5 DEF Contract!Next, Contract!Reply, HolderMap, PhaseMap
  <2> QED
    BY <1>3, <2>4, <2>5, HandlerAnswers DEF Api
<1> QED
  BY <1>1, <1>2, <1>3

\* A step of the consumer delivers one callback, or is none of the contract's.
LEMMA WorkerSimulates ==
  ASSUME CInv, WorkerTakesStep
  PROVE  Contract!Next \/ UNCHANGED Contract!contractVars
<1>1. UNCHANGED <<dedupKeys, window, verdict, seenIn, reply, topic, stage>>
  BY DEF WorkerTakesStep, Consumer, topicVars, dedupVars, intakeVars
<1>2. posts \in [Offsets -> Nat]
  BY DEF CInv, IInv, TypeOK, ConsumerTypeOK
<1>3. CASE UNCHANGED posts
  BY <1>1, <1>3, HoldsStay DEF Contract!contractVars, HolderMap, PhaseMap, CalledBack, Delivered
<1>4. CASE worker = "post" /\ posts' = [posts EXCEPT ![Current] = @ + 1]
  <2> DEFINE r == topic[Current]
  <2>1. Current \in Offsets /\ Current \in 1..Len(topic)
    <3>1. /\ Len(topic) \in Nat /\ Len(topic) <= MaxLog /\ MaxLog \in Nat
          /\ position \in 0..MaxLog /\ position < Len(topic)
      BY <1>4, TopicAssumption DEF CInv, IInv, ConsumerInv, PositionInv, TypeOK, TopicTypeOK,
         ConsumerTypeOK
    <3> QED
      BY <3>1 DEF Current, Offsets
  <2>2. r \in Queued /\ r \in Request
    BY <2>1 DEF Queued, CInv, IInv, TypeOK, TopicTypeOK
  <2>3. Admitted(r) /\ reply[r] \notin {"result", "internal_error"}
    BY <2>2 DEF CInv, IInv, IntakeInv, QueueInv, AnswerInv, CallAnswerInv
  <2>4. Delivered' = Delivered \cup {Current}
    BY <1>2, <1>4, <2>1 DEF Delivered
  <2>5. CalledBack' = CalledBack \cup {r}
    BY <1>1, <2>4 DEF CalledBack
  <2> QED
    BY <1>1, <2>2, <2>3, <2>5, PostSimulates DEF Contract!Next
<1>5. UNCHANGED posts \/ (worker = "post" /\ posts' = [posts EXCEPT ![Current] = @ + 1])
  BY DEF WorkerTakesStep, Consumer, WorkerStep, WorkerStarts, EachMessage, WorkerResolves,
     WorkerCannotPost, WorkerPosts, CommitOffset, WorkerExits
<1> QED
  BY <1>3, <1>4, <1>5

\* Every step of the pipeline is a step of the contract, or none.
LEMMA StepSimulates ==
  ASSUME CInv, [Next]_vars
  PROVE  Contract!Next \/ UNCHANGED Contract!contractVars
<1>1. CASE HandlerTakesStep
  BY <1>1, HandlerSimulates DEF HandlerTakesStep
<1>2. CASE WorkerTakesStep
  BY <1>2, WorkerSimulates
<1>3. CASE \E t \in Txn : ExpireKey(t) /\ UNCHANGED <<topicVars, intakeVars, consumerVars>>
  BY <1>3, ExpirySimulates DEF Contract!Next
<1>4. CASE /\ UNCHANGED <<dedupKeys, window, verdict, seenIn, reply, topic, posts>>
           /\ \A q \in Request : stage'[q] = "delivered" <=> stage[q] = "delivered"
  <2>1. UNCHANGED <<HolderMap, PhaseMap>>
    BY <1>4, HoldsStay
  <2>2. UNCHANGED CalledBack
    BY <1>4 DEF CalledBack, Delivered
  <2> QED
    BY <1>4, <2>1, <2>2 DEF Contract!contractVars, HolderMap, PhaseMap
<1>5. CASE Api(ApiExits)
  <2>1. /\ UNCHANGED <<dedupKeys, window, verdict, seenIn, reply, topic, posts>>
        /\ \A q \in Request : stage'[q] = "delivered" <=> stage[q] = "delivered"
    BY <1>5 DEF Api, ApiExits, AuditAbandoned, topicVars, consumerVars, Suspended
  <2> QED
    BY <1>4, <2>1
<1>6. CASE Api(ProducerSettles) \/ UNCHANGED vars
           \/ \E t \in Txn : AuditEnds(t) /\ UNCHANGED <<topicVars, intakeVars, consumerVars>>
  <2>1. UNCHANGED <<dedupKeys, window, verdict, seenIn, reply, topic, posts, stage>>
    BY <1>6 DEF Api, ProducerSettles, AuditEnds, vars,
                topicVars, dedupVars, intakeVars, consumerVars
  <2> QED
    BY <1>4, <2>1
<1> QED
  BY <1>1, <1>2, <1>3, <1>5, <1>6, StepCases DEF RedisTakesStep

(***************************************************************************)
(* transactionDedup.js:9-15, asyncHandler.js:10-12: whatever the handlers, *)
(* the broker, the consumer and the exits do, a caller sees the contract:  *)
(* an id is held by one call at a time, only a held id turns a call away,  *)
(* a call has one answer, and a callback goes only to a call taken up and  *)
(* not answered with the result itself.                                    *)
(***************************************************************************)
THEOREM PipelineKeepsContract == Spec => KeepsContract
<1>1. Init => Contract!Init
  <2>1. Init => /\ HolderMap = [t \in Txn |-> {}]
                /\ PhaseMap = [r \in Request |-> "open"]
    BY DEF Init, DedupInit, IntakeInit, HolderMap, PhaseMap, HolderOf, PhaseOf
  <2>2. Init => CalledBack = {} /\ reply = [r \in Request |-> "none"]
    BY DEF Init, IntakeInit, ConsumerInit, CalledBack, Delivered
  <2> QED
    BY <2>1, <2>2 DEF Contract!Init, HolderMap, PhaseMap
<1>2. CInv /\ [Next]_vars => [Contract!Next]_Contract!contractVars
  BY StepSimulates DEF Contract!contractVars
<1> QED
  BY <1>1, <1>2, ContractInvariant, PTL DEF Spec, KeepsContract, Contract!Spec

-----------------------------------------------------------------------------
(***************************************************************************)
(* What the callers can count on.  These are promises of the contract, and *)
(* the pipeline has them because it implements it.                         *)
(***************************************************************************)
\* A call has no callback before it is taken up.
Promises ==
  /\ Contract!TurnedAwayForGood
  /\ Contract!ServedOneWay
  /\ \A r \in Request : r \in CalledBack => PhaseMap[r] = "taken"

\* A step of the contract keeps its promises and the answers it has given.
LEMMA PromisesStep ==
  ASSUME reply \in [Request -> Reply], Promises, Contract!Next
  PROVE  Promises' /\ \A r \in Request : reply[r] # "none" => reply'[r] = reply[r]
<1> USE DEF Promises, PhaseMap, Contract!TurnedAwayForGood, Contract!ServedOneWay
<1>1. ASSUME NEW r \in Request, Contract!TakeUp(r)
      PROVE  Promises' /\ reply' = reply
  BY <1>1 DEF Contract!TakeUp
<1>2. ASSUME NEW r \in Request, Contract!TurnAway(r)
      PROVE  Promises' /\ reply' = reply
  BY <1>2 DEF Contract!TurnAway
<1>3. ASSUME NEW r \in Request, Contract!Reply(r)
      PROVE  Promises' /\ reply[r] = "none" /\ \A q \in Request : q # r => reply'[q] = reply[q]
  BY <1>3 DEF Contract!Reply, Contract!Answers
<1>4. ASSUME NEW r \in Request, Contract!Deliver(r)
      PROVE  Promises' /\ reply' = reply
  BY <1>4 DEF Contract!Deliver
<1>5. ASSUME NEW t \in Txn, Contract!Release(t)
      PROVE  Promises' /\ reply' = reply
  BY <1>5 DEF Contract!Release
<1> QED
  BY <1>1, <1>2, <1>3, <1>4, <1>5 DEF Contract!Next

\* So does every step of the pipeline.
LEMMA PromisesKept ==
  ASSUME CInv, Promises, [Next]_vars
  PROVE  Promises' /\ \A r \in Request : reply[r] # "none" => reply'[r] = reply[r]
<1>1. reply \in [Request -> Reply]
  BY DEF CInv, IInv, TypeOK, IntakeTypeOK
<1>2. CASE Contract!Next
  BY <1>1, <1>2, PromisesStep
<1>3. CASE UNCHANGED Contract!contractVars
  BY <1>3 DEF Promises, PhaseMap, Contract!TurnedAwayForGood, Contract!ServedOneWay,
              Contract!contractVars
<1> QED
  BY <1>2, <1>3, StepSimulates

\* The promises hold in every state of the pipeline (asyncHandler.js, syncHandler.js).
LEMMA PromisesHold == Spec => []Promises
<1>1. Init => Promises
  <2>1. Init => /\ \A r \in Request : PhaseMap[r] = "open"
                /\ CalledBack = {}
    BY DEF Init, IntakeInit, ConsumerInit, PhaseMap, PhaseOf, CalledBack, Delivered
  <2> QED
    BY <2>1 DEF Promises, PhaseMap, Contract!TurnedAwayForGood, Contract!ServedOneWay
<1>2. CInv /\ Promises /\ [Next]_vars => Promises'
  BY PromisesKept
<1> QED
  BY <1>1, <1>2, ContractInvariant, PTL DEF Spec

\* asyncHandler.js:35-38: a duplicate gets its 409 and nothing else: no result,
\* no callback, whatever is retried, delivered again or restarted.
THEOREM RefusedCallsGetNothing == Spec => []Contract!TurnedAwayForGood
  BY PromisesHold, PTL DEF Promises

\* asyncHandler.js, syncHandler.js: no call is served both in its answer and by
\* a callback.
THEOREM CallsServedOneWay == Spec => []Contract!ServedOneWay
  BY PromisesHold, PTL DEF Promises

\* asyncHandler.js:53-66: an answer, once given, is neither changed nor doubled.
THEOREM AnsweredOnce == Spec => Contract!AnswersAreFinal
<1>1. CInv /\ Promises /\ [Next]_vars =>
        [\A r \in Request : reply[r] # "none" => reply'[r] = reply[r]]_(Contract!contractVars)
  BY PromisesKept
<1> QED
  BY <1>1, ContractInvariant, PromisesHold, PTL DEF Spec, Contract!AnswersAreFinal

(***************************************************************************)
(* transactionDedup.js:9-15 seen at the receiving end: of the calls with   *)
(* one transaction_id, at most one per lifetime of the key has its         *)
(* response POSTed to sender_uri, by whichever process and however often.  *)
(***************************************************************************)
OneCallbackPerWindow ==
  \A p, q \in CalledBack : TxnOf[p] = TxnOf[q] /\ seenIn[p] = seenIn[q] => p = q

\* The copies that a resend or a restart adds are copies of one call
\* (consumer.js:57-62).
THEOREM CallbacksAreOfOneCall == Spec => []OneCallbackPerWindow
<1>1. CInv => OneCallbackPerWindow
  <2> SUFFICES ASSUME CInv PROVE OneCallbackPerWindow
    OBVIOUS
  <2>1. \A q \in CalledBack : q \in Request /\ Admitted(q)
    BY CalledBackCalls
  <2> QED
    BY <2>1 DEF OneCallbackPerWindow, CInv, IInv, DedupInv, AdmittedOncePerWindow
<1> QED
  BY <1>1, ContractInvariant, PTL

-----------------------------------------------------------------------------
(***************************************************************************)
(* The producer that all handlers share (producer.js:5-20).                *)
(***************************************************************************)
\* A handler awaits a promise that exists, and sends with one that was kept.
HandlersAwaitProducer ==
  \A r \in Request :
    /\ stage[r] = "connect" => producer # "none"
    /\ stage[r] \in {"send", "sent"} => producer = "ready"

\* A handler's step, or one of the processes, keeps that.
LEMMA ProducerStep ==
  ASSUME TypeOK, HandlersAwaitProducer, [Next]_vars
  PROVE  HandlersAwaitProducer'
<1> USE DEF HandlersAwaitProducer
<1>1. stage \in [Request -> Stage]
  BY DEF TypeOK, IntakeTypeOK
<1>2. ASSUME NEW r \in Request, NEW d \in Door, NEW f \in Form,
             Arrive(r, d, f) \/ HandlerStep(r) \/ ResendPersists(r)
      PROVE  HandlersAwaitProducer'
  <2> USE <1>1 DEF Goto, Answer, topicVars, intakeVars
  <2>1. CASE Arrive(r, d, f)
    BY <2>1 DEF Arrive
  <2>2. CASE Decide(r) \/ RefuseDuplicate(r) \/ AckInProcess(r) \/ BeginSync(r)
    BY <2>2 DEF Decide, RefuseDuplicate, AckInProcess, BeginSync
  <2>3. CASE BeginPublish(r)
    BY <2>3 DEF BeginPublish
  <2>4. CASE ProducerAwaited(r)
    BY <2>4 DEF ProducerAwaited
  <2>5. CASE BrokerPersists(r) \/ ResendPersists(r)
    BY <2>5 DEF BrokerPersists, ResendPersists, Persist
  <2>6. CASE SendConfirmed(r) \/ SendFails(r)
    BY <2>6 DEF SendConfirmed, SendFails
  <2>7. CASE SyncAnswers(r) \/ InProcessResolves(r) \/ InProcessPosts(r)
    BY <2>7 DEF SyncAnswers, InProcessResolves, InProcessPosts
  <2> QED
    BY <1>2, <2>1, <2>2, <2>3, <2>4, <2>5, <2>6, <2>7 DEF HandlerStep
<1>3. CASE HandlerTakesStep
  BY <1>2, <1>3 DEF HandlerTakesStep, Api
<1>4. CASE Api(ProducerSettles) \/ Api(ApiExits)
  BY <1>1, <1>4 DEF Api, ProducerSettles, ApiExits, Suspended, topicVars
<1>5. CASE WorkerTakesStep \/ RedisTakesStep \/ UNCHANGED vars
  BY <1>5 DEF WorkerTakesStep, Consumer, RedisTakesStep, vars, topicVars, intakeVars
<1> QED
  BY <1>3, <1>4, <1>5, StepCases

\* producer.js:5-20: no handler waits for a connection attempt that nobody made,
\* and none sends but with a connection of this incarnation of the process,
\* across exits of the process and calls that share the attempt.
THEOREM NobodyWaitsInVain == Spec => []HandlersAwaitProducer
<1>1. Init => HandlersAwaitProducer
  BY DEF Init, IntakeInit, HandlersAwaitProducer
<1>2. IInv => TypeOK
  BY DEF IInv
<1> QED
  BY <1>1, <1>2, ProducerStep, PipelineInvariant, PTL DEF Spec

\* producer.js:5-20: an attempt that failed is shared like one that did not.
\* While the rejected promise is kept, that is until the process exits, no call
\* reaches the topic, however the calls in flight and the new ones interleave.
THEOREM RejectedProducerStopsQueue == Spec => [][producer = "rejected" => topic' = topic]_vars
<1>1. /\ TypeOK /\ HandlersAwaitProducer /\ [Next]_vars
      => [producer = "rejected" => topic' = topic]_vars
  <2> SUFFICES ASSUME HandlersAwaitProducer, Next, producer = "rejected"
               PROVE  topic' = topic
    BY DEF vars
  <2>1. \A r \in Request : stage[r] \notin {"send", "sent"}
    BY DEF HandlersAwaitProducer
  <2>2. CASE HandlerTakesStep
    BY <2>1, <2>2 DEF HandlerTakesStep, HandlerStep, Api, Arrive, Decide, RefuseDuplicate,
         BeginPublish, AckInProcess, BeginSync, ProducerAwaited, BrokerPersists,
         ResendPersists, SendConfirmed, SendFails, SyncAnswers, InProcessResolves,
         InProcessPosts, topicVars
  <2>3. CASE Api(ProducerSettles) \/ Api(ApiExits) \/ WorkerTakesStep \/ RedisTakesStep
    BY <2>3 DEF Api, ProducerSettles, ApiExits, WorkerTakesStep, Consumer, RedisTakesStep, topicVars
  <2> QED
    BY <2>2, <2>3, StepCases DEF vars, topicVars
<1>2. IInv => TypeOK
  BY DEF IInv
<1> QED
  BY <1>1, <1>2, NobodyWaitsInVain, PipelineInvariant, PTL DEF Spec

-----------------------------------------------------------------------------
(***************************************************************************)
(* SeekPipeline implements AtLeastOnce.  To PositionInv and HandledInv the *)
(* simulation adds where the offsets lie to each other (OffsetsInv): an    *)
(* instance is never behind the group's offset nor within what was passed  *)
(* over, and nothing is passed over beyond the group's offset.             *)
(***************************************************************************)
OffsetsInv ==
  /\ committed # NoOffset => skipped <= committed
  /\ worker # "down" => skipped <= position /\ committed <= position

GInv == TypeOK /\ ConsumerInv /\ OffsetsInv

\* What the consumer's variables and the log say of each other, in numbers.
LEMMA OffsetFacts ==
  ASSUME GInv
  PROVE  /\ Len(topic) \in Nat /\ Len(topic) <= MaxLog /\ MaxLog \in Nat
         /\ position \in Nat /\ skipped \in Nat
         /\ committed \in Nat \/ committed = -1
         /\ position <= Len(topic) /\ committed <= Len(topic) /\ skipped <= Len(topic)
BY TopicAssumption DEF GInv, TypeOK, TopicTypeOK, ConsumerTypeOK, ConsumerInv, PositionInv,
   NoOffset

\* A step of the consumer keeps its offsets in order.
LEMMA OffsetsStep ==
  ASSUME GInv, [Next]_vars
  PROVE  OffsetsInv'
<1> USE OffsetFacts DEF GInv, OffsetsInv, NoOffset
<1>1. CASE UNCHANGED consumerVars
  BY <1>1 DEF consumerVars
<1>2. CASE WorkerTakesStep
  <2>1. CASE WorkerStarts
    BY <2>1 DEF WorkerStarts
  <2>2. CASE EachMessage \/ WorkerResolves \/ WorkerExits
    BY <2>2 DEF EachMessage, WorkerResolves, WorkerExits
  <2>3. CASE WorkerCannotPost \/ WorkerPosts
    BY <2>3 DEF WorkerCannotPost, WorkerPosts, Returns, Current
  <2>4. CASE CommitOffset
    BY <2>4 DEF CommitOffset
  <2> QED
    BY <1>2, <2>1, <2>2, <2>3, <2>4 DEF WorkerTakesStep, Consumer, WorkerStep
<1>3. WorkerTakesStep \/ UNCHANGED consumerVars
  BY StepCases DEF HandlerTakesStep, Api, RedisTakesStep, vars
<1> QED
  BY <1>1, <1>2, <1>3

\* In every state the group's offset (consumer.js:13-16) lies at or after what
\* was passed over, and a running instance at or after the group's offset.
THEOREM OffsetsOrdered == Spec => []GInv
<1>1. Init => OffsetsInv
  BY DEF Init, ConsumerInit, OffsetsInv, NoOffset
<1>2. GInv /\ [Next]_vars => OffsetsInv'
  BY OffsetsStep
<1>3. IInv => TypeOK /\ ConsumerInv
  BY DEF IInv
<1> QED
  BY <1>1, <1>2, <1>3, PipelineInvariant, PTL DEF Spec, GInv

\* What an instance has resolved, and what the group committed, was handled.
LEMMA HandledPrefixes ==
  ASSUME GInv
  PROVE  worker # "down" => Group!HandledUpTo(position)
BY OffsetFacts DEF GInv, ConsumerInv, HandledInv, Offsets, Group!HandledUpTo

\* The log grows by one message or not at all, and the consumer stays put then.
LEMMA LogGrowsByOne ==
  ASSUME TypeOK, [Next]_vars, UNCHANGED consumerVars
  PROVE  Len(topic') = Len(topic) + 1 \/ Len(topic') = Len(topic)
BY LogCases, PersistLog DEF TypeOK

\* A step of the consumer is one of the group, or does not show.
LEMMA ConsumerSimulates ==
  ASSUME GInv, WorkerTakesStep
  PROVE  Group!Next \/ UNCHANGED Group!groupVars
<1> USE OffsetFacts DEF Group!groupVars, consumerVars
<1>1. UNCHANGED topic
  BY DEF WorkerTakesStep, Consumer, topicVars
<1>2. CASE WorkerStarts
  BY <1>1, <1>2 DEF WorkerStarts, Group!Next, Group!PassOver, Group!NoOffset, NoOffset
<1>3. CASE EachMessage \/ WorkerResolves \/ WorkerExits
  BY <1>1, <1>3 DEF EachMessage, WorkerResolves, WorkerExits
<1>4. CASE WorkerCannotPost \/ WorkerPosts
  <2>1. /\ worker \in {"resolve", "post"} /\ handled' = handled \cup {position + 1}
        /\ UNCHANGED <<committed, skipped>>
    BY <1>4 DEF WorkerCannotPost, WorkerPosts, Returns, Current
  <2>2. position < Len(topic) /\ skipped <= position
    BY <2>1 DEF GInv, ConsumerInv, PositionInv, OffsetsInv
  <2>3. Group!HandledUpTo((position + 1) - 1)
    BY <2>1, HandledPrefixes
  <2>4. Group!Handle(position + 1) /\ position + 1 \in 1..Len(topic)
    BY <1>1, <2>1, <2>2, <2>3 DEF Group!Handle
  <2> QED
    BY <2>4 DEF Group!Next
<1>5. CASE CommitOffset
  <2>1. /\ worker = "idle" /\ committed < position /\ committed' = position
        /\ committed = NoOffset => skipped < position
        /\ UNCHANGED <<skipped, handled>>
    BY <1>5 DEF CommitOffset
  <2>2. skipped < position /\ position \in 1..Len(topic)
    BY <2>1 DEF GInv, OffsetsInv
  <2>3. Group!Ack(position)
    BY <1>1, <2>1, <2>2, HandledPrefixes DEF Group!Ack
  <2> QED
    BY <2>2, <2>3 DEF Group!Next
<1> QED
  BY <1>2, <1>3, <1>4, <1>5 DEF WorkerTakesStep, Consumer, WorkerStep

(***************************************************************************)
(* consumer.js:13-16, :26: for any number of messages, exits and resends,  *)
(* the topic's messages are handled in order, the group's offset  *)
(* passes only what was handled, and only a group without an offset passes *)
(* a message over.                                                         *)
(***************************************************************************)
THEOREM PipelineConsumesAtLeastOnce == Spec => ConsumesAtLeastOnce
<1>1. Init => Group!Init
  BY DEF Init, TopicInit, ConsumerInit, Group!Init, Group!NoOffset, NoOffset
<1>2. GInv /\ [Next]_vars => [Group!Next]_(Group!groupVars)
  <2> SUFFICES ASSUME GInv, [Next]_vars
               PROVE  Group!Next \/ UNCHANGED Group!groupVars
    BY DEF Group!groupVars
  <2>1. CASE UNCHANGED consumerVars
    BY <2>1, LogGrowsByOne, OffsetFacts
       DEF GInv, consumerVars, Group!groupVars, Group!Next, Group!Send
  <2>2. WorkerTakesStep \/ UNCHANGED consumerVars
    BY StepCases DEF HandlerTakesStep, Api, RedisTakesStep, vars
  <2> QED
    BY <2>1, <2>2, ConsumerSimulates
<1> QED
  BY <1>1, <1>2, OffsetsOrdered, PTL DEF Spec, ConsumesAtLeastOnce, Group!Spec

-----------------------------------------------------------------------------
(***************************************************************************)
(* asyncHandler.js:10-12 and consumer.js:13-16 together: with a group that *)
(* has an offset, a call that was ACKed over Kafka is on the topic and was *)
(* handled, or lies where the group, or its next instance, goes on.        *)
(***************************************************************************)
AckedAreHandledOrAhead ==
  \A r \in Request :
    useKafka /\ reply[r] = "ack" =>
      \E i \in 1..Len(topic) : topic[i] = r /\ (i \in handled \/ committed < i)

\* A group keeps its offset, and nothing is passed over then.
EstablishedInv == committed # NoOffset /\ skipped = 0

\* From the ACK to the handler (asyncHandler.js:10-12, consumer.js:13-16) no call
\* is lost to a group that has an offset from the start, for any exits,
\* failing broker calls, resends and key expiries.
THEOREM EstablishedGroupLosesNothing ==
  Spec /\ committed # NoOffset => []AckedAreHandledOrAhead
<1>1. Init /\ committed # NoOffset => EstablishedInv
  BY DEF Init, ConsumerInit, EstablishedInv
<1>2. GInv /\ EstablishedInv /\ [Next]_vars => EstablishedInv'
  <2> SUFFICES ASSUME GInv, EstablishedInv, [Next]_vars PROVE EstablishedInv'
    OBVIOUS
  <2> USE OffsetFacts DEF EstablishedInv, NoOffset
  <2>1. CASE WorkerStarts
    BY <2>1 DEF WorkerStarts
  <2>2. CASE EachMessage \/ WorkerResolves \/ WorkerExits
    BY <2>2 DEF EachMessage, WorkerResolves, WorkerExits
  <2>3. CASE WorkerCannotPost \/ WorkerPosts
    BY <2>3 DEF WorkerCannotPost, WorkerPosts, Returns
  <2>4. CASE CommitOffset
    BY <2>4 DEF CommitOffset
  <2>5. CASE UNCHANGED consumerVars
    BY <2>5 DEF consumerVars
  <2>6. WorkerTakesStep \/ UNCHANGED consumerVars
    BY StepCases DEF HandlerTakesStep, Api, RedisTakesStep, vars
  <2> QED
    BY <2>1, <2>2, <2>3, <2>4, <2>5, <2>6 DEF WorkerTakesStep, Consumer, WorkerStep
<1>3. IInv /\ GInv /\ EstablishedInv => AckedAreHandledOrAhead
  <2> SUFFICES ASSUME IInv, GInv, EstablishedInv, NEW r \in Request, useKafka, reply[r] = "ack"
               PROVE  \E i \in 1..Len(topic) : topic[i] = r /\ (i \in handled \/ committed < i)
    BY DEF AckedAreHandledOrAhead
  <2>1. PICK i \in DOMAIN topic : topic[i] = r
    BY DEF IInv, IntakeInv, AckMeansQueued, Queued
  <2>2. i \in 1..Len(topic) /\ i \in Offsets
    BY <2>1, OffsetFacts DEF IInv, TypeOK, TopicTypeOK, Offsets
  <2>3. i <= committed => i \in handled
    BY <2>2 DEF GInv, ConsumerInv, HandledInv, EstablishedInv, Offsets
  <2> QED
    BY <2>1, <2>2, <2>3, OffsetFacts
<1> QED
  BY <1>1, <1>2, <1>3, PipelineInvariant, OffsetsOrdered, PTL DEF Spec
=============================================================================
