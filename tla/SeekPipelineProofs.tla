------------------------- MODULE SeekPipelineProofs -------------------------
(***************************************************************************)
(* Theorems about SeekPipeline for every set of calls, every assignment of *)
(* transaction ids and every bound.  The invariants of the specification   *)
(* are not inductive; they follow from three parts, each kept by every     *)
(* step together with TypeOK:                                              *)
(*   DedupInv     a key exists exactly while the call let in by it is the  *)
(*                one of the current window;                               *)
(*   IntakeInv    where a handler is tells what it has established;        *)
(*   ConsumerInv  how far the consumer is tells what it has handled.       *)
(***************************************************************************)
EXTENDS SeekPipeline, TLAPS

-----------------------------------------------------------------------------
\* Positions stay on the log, and a message being worked on exists.
PositionInv ==
  /\ position <= Len(topic)
  /\ committed <= Len(topic)
  /\ skipped <= Len(topic)
  /\ worker \in {"resolve", "post"} => position < Len(topic)

\* What this instance has not yet resolved was posted by earlier ones only.
PostsInv ==
  \A i \in Offsets :
    /\ posts[i] <= 1 + workerExits
    /\ worker = "down" \/ position < i => posts[i] <= workerExits

\* Everything up to the position, and up to the commit, was handled.
HandledInv ==
  \A i \in Offsets :
    /\ skipped < i /\ i <= committed => i \in handled
    /\ worker # "down" /\ skipped < i /\ i <= position => i \in handled

ConsumerInv == PositionInv /\ PostsInv /\ HandledInv

\* A key exists if and only if a call of the current window was let in by it.
KeyInv ==
  /\ \A r \in Request :
       Admitted(r) /\ seenIn[r] = window[TxnOf[r]] => TxnOf[r] \in dedupKeys
  /\ \A t \in dedupKeys : \E q \in Request :
       Admitted(q) /\ TxnOf[q] = t /\ seenIn[q] = window[t]

\* A decision belongs to a window that has begun, and is taken at stage dedup.
DecisionInv ==
  \A r \in Request :
    /\ seenIn[r] <= window[TxnOf[r]]
    /\ stage[r] \in {"new", "dedup"} => verdict[r] = "none"

DedupInv ==
  KeyInv /\ DecisionInv /\ AdmittedOncePerWindow /\ RefusalIsJustified

\* What a handler has established by the time it is at a stage.
StageInv ==
  \A r \in Request :
    /\ stage[r] \in {"dedup", "decided"} => FormAccepted(door[r], form[r])
    /\ stage[r] \in {"connect", "send", "sent"} =>
         Admitted(r) /\ door[r] = "v1" /\ form[r] = "complete"
    /\ stage[r] = "sent" => r \in Queued

QueueInv ==
  \A r \in Queued :
    /\ Admitted(r) /\ door[r] = "v1" /\ form[r] = "complete"
    /\ stage[r] \notin {"new", "dedup", "decided"}

IntakeInv == StageInv /\ QueueInv /\ AckMeansQueued

IInv == TypeOK /\ ConsumerInv /\ DedupInv /\ IntakeInv

-----------------------------------------------------------------------------
(***************************************************************************)
(* Type correctness.                                                       *)
(***************************************************************************)
\* The initial states have their types.
LEMMA InitType == Init => TypeOK
<1>1. TopicInit => TopicTypeOK
  BY TopicAssumption DEF TopicInit, TopicTypeOK, Form
<1>2. DedupInit => DedupTypeOK
  BY DedupAssumption DEF DedupInit, DedupTypeOK
<1>3. IntakeInit => IntakeTypeOK
  BY DedupAssumption, IntakeAssumption DEF IntakeInit, IntakeTypeOK, Door, Stage, Reply
<1>4. ConsumerInit => ConsumerTypeOK
  BY TopicAssumption, ConsumerAssumption DEF ConsumerInit, ConsumerTypeOK, NoOffset
<1> QED
  BY <1>1, <1>2, <1>3, <1>4 DEF Init, TypeOK

\* What persisting a message does to the log.
LEMMA PersistLog ==
  ASSUME TopicTypeOK, NEW r \in Request, Persist(r)
  PROVE  /\ TopicTypeOK'
         /\ Len(topic') = Len(topic) + 1
         /\ Queued' = Queued \cup {r}
<1>1. topic' \in Seq(Request) /\ Len(topic') = Len(topic) + 1 /\ Len(topic) \in Nat
  BY DEF Persist, TopicTypeOK
<1>2. Len(topic') <= MaxLog
  BY <1>1, TopicAssumption DEF Persist
<1>3. \A i \in 1..Len(topic) : topic'[i] = topic[i]
  BY DEF Persist, TopicTypeOK
<1>4. topic'[Len(topic) + 1] = r
  BY DEF Persist, TopicTypeOK
<1>5. DOMAIN topic = 1..Len(topic) /\ DOMAIN topic' = 1..(Len(topic) + 1)
  BY <1>1 DEF TopicTypeOK
<1>6. Queued' = Queued \cup {r}
  BY <1>1, <1>3, <1>4, <1>5 DEF Queued
<1> QED
  BY <1>1, <1>2, <1>6 DEF Persist, TopicTypeOK

\* One call's handler keeps the types of what it shares and of what is its own.
LEMMA HandlerType ==
  ASSUME TypeOK, NEW r \in Request, NEW d \in Door, NEW f \in Form
  PROVE  Arrive(r, d, f) \/ HandlerStep(r) \/ ResendPersists(r) =>
           TopicTypeOK' /\ DedupTypeOK' /\ IntakeTypeOK'
<1> USE DEF TypeOK, TopicTypeOK, DedupTypeOK, IntakeTypeOK, topicVars, dedupVars, intakeVars,
            Door, Stage, Suspended, Reply
<1> TxnOf[r] \in Txn
  BY IntakeAssumption
<1>1. CASE Arrive(r, d, f)
  BY <1>1 DEF Arrive, FormAccepted, Answer, Goto
<1>2. CASE Decide(r)
  BY <1>2 DEF Decide, SetTaken, SetRefused, Goto
<1>3. CASE RefuseDuplicate(r)
  BY <1>3 DEF RefuseDuplicate, Answer, Goto
<1>4. CASE BeginPublish(r)
  BY <1>4 DEF BeginPublish, Goto
<1>5. CASE AckInProcess(r)
  BY <1>5 DEF AckInProcess, Goto
<1>6. CASE BeginSync(r)
  BY <1>6 DEF BeginSync, Goto
<1>7. CASE ProducerAwaited(r)
  BY <1>7 DEF ProducerAwaited, Answer, Goto
<1>8. CASE BrokerPersists(r)
  BY <1>8, PersistLog DEF BrokerPersists, Persist, Goto
<1>9. CASE ResendPersists(r)
  BY <1>9, PersistLog DEF ResendPersists, Persist
<1>10. CASE SendConfirmed(r)
  BY <1>10 DEF SendConfirmed, Answer, Goto
<1>11. CASE SendFails(r)
  BY <1>11 DEF SendFails, Answer, Goto
<1>12. CASE SyncAnswers(r)
  BY <1>12 DEF SyncAnswers, Answer, Goto
<1>13. CASE InProcessResolves(r)
  BY <1>13 DEF InProcessResolves, Goto
<1>14. CASE InProcessPosts(r)
  BY <1>14 DEF InProcessPosts, Goto
<1> QED
  BY <1>1, <1>2, <1>3, <1>4, <1>5, <1>6, <1>7, <1>8, <1>9, <1>10, <1>11, <1>12, <1>13, <1>14 DEF HandlerStep

\* The steps of the system, by who takes them.
HandlerTakesStep ==
  \E r \in Request, d \in Door, f \in Form :
    Api(Arrive(r, d, f) \/ HandlerStep(r) \/ ResendPersists(r))

WorkerTakesStep ==
  Consumer(WorkerStep \/ CommitOffset \/ WorkerExits)

RedisTakesStep ==
  \E t \in Txn : /\ ExpireKey(t) \/ AuditEnds(t)
                 /\ UNCHANGED <<topicVars, intakeVars, consumerVars>>

\* Every step is one of these, or a stutter.
LEMMA StepCases ==
  [Next]_vars => \/ HandlerTakesStep \/ Api(ProducerSettles) \/ Api(ApiExits)
                 \/ WorkerTakesStep \/ RedisTakesStep
                 \/ UNCHANGED vars
<1>1. "v1" \in Door /\ "complete" \in Form
  BY DEF Door, Form
<1> QED
  BY <1>1 DEF Next, Api, Consumer, HandlerTakesStep, WorkerTakesStep,
              RedisTakesStep, HandlerStep, WorkerStep

\* A step persists one message or leaves the log alone.
LEMMA LogCases ==
  ASSUME TypeOK, [Next]_vars
  PROVE  (\E r \in Request : Persist(r)) \/ UNCHANGED topic
<1>1. CASE HandlerTakesStep
  BY <1>1 DEF HandlerTakesStep, HandlerStep, Api, Arrive, Decide, RefuseDuplicate,
       BeginPublish, AckInProcess, BeginSync, ProducerAwaited, BrokerPersists,
       ResendPersists, SendConfirmed, SendFails, SyncAnswers, InProcessResolves,
       InProcessPosts, topicVars
<1>2. CASE Api(ProducerSettles) \/ Api(ApiExits) \/ WorkerTakesStep
  BY <1>2 DEF Api, ProducerSettles, ApiExits, WorkerTakesStep, Consumer, topicVars
<1>3. CASE RedisTakesStep \/ UNCHANGED vars
  BY <1>3 DEF RedisTakesStep, vars, topicVars
<1> QED
  BY <1>1, <1>2, <1>3, StepCases

\* The log only grows.
LEMMA LogStep ==
  ASSUME TypeOK, [Next]_vars
  PROVE  Len(topic) <= Len(topic') /\ Queued \subseteq Queued'
<1>1. (\E r \in Request : Persist(r)) \/ UNCHANGED topic
  BY LogCases
<1>2. Len(topic) \in Nat
  BY DEF TypeOK, TopicTypeOK
<1>3. CASE UNCHANGED topic
  BY <1>2, <1>3 DEF Queued
<1>4. ASSUME NEW r \in Request, Persist(r)
      PROVE  Len(topic) <= Len(topic') /\ Queued \subseteq Queued'
  BY <1>2, <1>4, PersistLog DEF TypeOK
<1> QED
  BY <1>1, <1>3, <1>4

\* The consumer's own steps keep its types and its positions on the log.
LEMMA WorkerType ==
  ASSUME TypeOK, PositionInv, WorkerTakesStep
  PROVE  ConsumerTypeOK' /\ PositionInv'
<1> USE DEF TypeOK, TopicTypeOK, ConsumerTypeOK, PositionInv, consumerVars, topicVars,
            Consumer, NoOffset, Offsets, Current
<1>1. /\ UNCHANGED topic /\ Len(topic) \in Nat /\ MaxLog \in Nat
      /\ WorkerStep \/ CommitOffset \/ WorkerExits
  BY TopicAssumption DEF WorkerTakesStep
<1>2. CASE WorkerStarts
  BY <1>1, <1>2 DEF WorkerStarts
<1>3. CASE EachMessage
  BY <1>1, <1>3 DEF EachMessage
<1>4. CASE WorkerResolves
  BY <1>1, <1>4 DEF WorkerResolves
<1>5. CASE WorkerCannotPost
  BY <1>1, <1>5 DEF WorkerCannotPost, Returns
<1>6. CASE WorkerPosts
  <2>1. posts' \in [Offsets -> Nat]
    BY <1>6 DEF WorkerPosts
  <2>2. Returns /\ worker = "post"
    BY <1>6 DEF WorkerPosts
  <2> QED
    BY <1>1, <2>1, <2>2 DEF Returns
<1>7. CASE CommitOffset
  BY <1>1, <1>7 DEF CommitOffset
<1>8. CASE WorkerExits
  BY <1>1, <1>8, ConsumerAssumption DEF WorkerExits
<1> QED
  BY <1>1, <1>2, <1>3, <1>4, <1>5, <1>6, <1>7, <1>8 DEF WorkerStep

\* No step takes a variable out of its type or an offset off the log.
LEMMA TypeStep ==
  ASSUME TypeOK, PositionInv, [Next]_vars
  PROVE  TypeOK' /\ PositionInv'
<1>1. UNCHANGED consumerVars => ConsumerTypeOK' /\ PositionInv'
  <2>1. Len(topic) <= Len(topic') /\ Len(topic) \in Nat /\ Len(topic') \in Nat
    BY LogStep DEF TypeOK, TopicTypeOK
  <2> QED
    BY <2>1 DEF TypeOK, ConsumerTypeOK, PositionInv, consumerVars, NoOffset
<1>2. CASE HandlerTakesStep
  BY <1>1, <1>2, HandlerType DEF HandlerTakesStep, Api, TypeOK
<1>3. CASE Api(ProducerSettles)
  BY <1>1, <1>3 DEF Api, ProducerSettles, TypeOK, TopicTypeOK, DedupTypeOK, IntakeTypeOK,
                    topicVars, dedupVars
<1>4. CASE Api(ApiExits)
  BY <1>1, <1>4, IntakeAssumption DEF Api, ApiExits, AuditAbandoned, TypeOK, TopicTypeOK,
       DedupTypeOK, IntakeTypeOK, topicVars, dedupVars, Stage, Suspended
<1>5. CASE WorkerTakesStep
  <2>1. TopicTypeOK' /\ DedupTypeOK' /\ IntakeTypeOK'
    BY <1>5 DEF WorkerTakesStep, Consumer, TypeOK, TopicTypeOK, DedupTypeOK, IntakeTypeOK,
                topicVars, dedupVars, intakeVars
  <2> QED
    BY <1>5, <2>1, WorkerType DEF TypeOK
<1>6. CASE RedisTakesStep
  <2>1. UNCHANGED consumerVars /\ UNCHANGED topicVars /\ UNCHANGED intakeVars
    BY <1>6 DEF RedisTakesStep
  <2>2. DedupTypeOK'
    BY <1>6, DedupAssumption DEF RedisTakesStep, ExpireKey, AuditEnds, TypeOK, DedupTypeOK
  <2> QED
    BY <1>1, <2>1, <2>2 DEF TypeOK, TopicTypeOK, IntakeTypeOK, topicVars, intakeVars
<1>7. CASE UNCHANGED vars
  BY <1>1, <1>7 DEF vars, TypeOK, TopicTypeOK, DedupTypeOK, IntakeTypeOK, topicVars, dedupVars,
       intakeVars
<1> QED
  BY <1>2, <1>3, <1>4, <1>5, <1>6, <1>7, StepCases

(***************************************************************************)
(* Every behaviour of the pipeline keeps every variable in its type and    *)
(* every counter within its bound, and the consumer's offsets on the log.  *)
(***************************************************************************)
THEOREM TypeCorrect == Spec => [](TypeOK /\ PositionInv)
<1>1. Init => TypeOK /\ PositionInv
  BY InitType DEF Init, TopicInit, ConsumerInit, PositionInv, NoOffset
<1>2. TypeOK /\ PositionInv /\ [Next]_vars => (TypeOK /\ PositionInv)'
  BY TypeStep
<1> QED
  BY <1>1, <1>2, PTL DEF Spec

-----------------------------------------------------------------------------
(***************************************************************************)
(* The consumer.                                                           *)
(***************************************************************************)
\* The consumer's own steps, as to what was posted and handled.
LEMMA WorkerProgress ==
  ASSUME TypeOK, PositionInv, PostsInv, HandledInv, WorkerTakesStep
  PROVE  PostsInv' /\ HandledInv'
<1> USE DEF PostsInv, HandledInv, Offsets, Current
<1>1. /\ UNCHANGED topic /\ Len(topic) \in Nat /\ MaxLog \in Nat
      /\ WorkerStep \/ CommitOffset \/ WorkerExits
      /\ position \in 0..MaxLog /\ committed \in -1..MaxLog /\ skipped \in 0..MaxLog
      /\ workerExits \in Nat /\ posts \in [1..MaxLog -> Nat] /\ handled \subseteq 1..MaxLog
      /\ position <= Len(topic) /\ Len(topic) <= MaxLog
      /\ worker \in {"resolve", "post"} => position < Len(topic)
  BY TopicAssumption DEF WorkerTakesStep, Consumer, topicVars, TypeOK, TopicTypeOK,
     ConsumerTypeOK, PositionInv, NoOffset
<1>2. CASE WorkerStarts
  BY <1>1, <1>2 DEF WorkerStarts, NoOffset
<1>3. CASE EachMessage \/ WorkerResolves
  BY <1>1, <1>3 DEF EachMessage, WorkerResolves
<1>4. CASE WorkerCannotPost
  BY <1>1, <1>4 DEF WorkerCannotPost, Returns
<1>5. CASE WorkerPosts
  <2>1. Returns /\ worker = "post"
    BY <1>5 DEF WorkerPosts
  <2>2. HandledInv'
    BY <1>1, <2>1 DEF Returns
  <2>3. posts' \in [1..MaxLog -> Nat] /\ \A i \in 1..MaxLog :
          posts'[i] = posts[i] \/ (i = position + 1 /\ posts'[i] = posts[i] + 1)
    <3>1. posts' = posts \/ posts' = [posts EXCEPT ![position + 1] = @ + 1]
      BY <1>5 DEF WorkerPosts
    <3>2. posts \in [1..MaxLog -> Nat]
      BY <1>1
    <3>3. posts' \in [1..MaxLog -> Nat]
      BY <3>1, <3>2
    <3>4. ASSUME NEW i \in 1..MaxLog
          PROVE  posts'[i] = posts[i] \/ (i = position + 1 /\ posts'[i] = posts[i] + 1)
      BY <3>1, <3>2
    <3> QED
      BY <3>3, <3>4
  <2>4. PostsInv'
    BY <1>1, <2>1, <2>3 DEF Returns
  <2> QED
    BY <2>2, <2>4
<1>6. CASE CommitOffset
  BY <1>1, <1>6 DEF CommitOffset
<1>7. CASE WorkerExits
  BY <1>1, <1>7 DEF WorkerExits
<1> QED
  BY <1>1, <1>2, <1>3, <1>4, <1>5, <1>6, <1>7 DEF WorkerStep

\* No step disturbs ConsumerInv.
LEMMA ConsumerStep ==
  ASSUME TypeOK, ConsumerInv, [Next]_vars
  PROVE  ConsumerInv'
<1>1. CASE WorkerTakesStep
  BY <1>1, WorkerProgress, WorkerType DEF ConsumerInv
<1>2. CASE UNCHANGED consumerVars
  BY <1>2, TypeStep DEF ConsumerInv, PostsInv, HandledInv, consumerVars
<1>3. WorkerTakesStep \/ UNCHANGED consumerVars
  BY StepCases DEF HandlerTakesStep, Api, RedisTakesStep, vars
<1> QED
  BY <1>1, <1>2, <1>3

\* The consumer starts with nothing posted, handled or committed.
LEMMA InitConsumer == Init => ConsumerInv
<1>1. Init => PositionInv
  BY DEF Init, TopicInit, ConsumerInit, PositionInv, NoOffset
<1>2. Init => PostsInv /\ HandledInv
  BY DEF Init, ConsumerInit, PostsInv, HandledInv, Offsets, NoOffset
<1> QED
  BY <1>1, <1>2 DEF ConsumerInv

\* In every state the consumer's progress (consumer.js) is what its position
\* and the committed offset say it is.
THEOREM ConsumerCorrect == Spec => [](TypeOK /\ ConsumerInv)
<1>1. Init => TypeOK /\ ConsumerInv
  BY InitType, InitConsumer
<1>2. TypeOK /\ ConsumerInv /\ [Next]_vars => (TypeOK /\ ConsumerInv)'
  BY TypeStep, ConsumerStep DEF ConsumerInv
<1> QED
  BY <1>1, <1>2, PTL DEF Spec

(***************************************************************************)
(* consumer.js:13-16: the consumer delivers one message at most once per   *)
(* incarnation, for every log and any number of exits.                     *)
(***************************************************************************)
THEOREM RedeliveryIsBounded == Spec => []RedeliveryBounded
<1>1. TypeOK /\ ConsumerInv => RedeliveryBounded
  BY DEF ConsumerInv, PostsInv, RedeliveryBounded
<1> QED
  BY <1>1, ConsumerCorrect, PTL

(***************************************************************************)
(* consumer.js:13-16: no commit passes a message that was not handled,     *)
(* whatever the interleaving of commits, exits and restarts.               *)
(***************************************************************************)
THEOREM NothingLostByCommit == Spec => []CommitNeverPassesUnhandled
<1>1. TypeOK /\ ConsumerInv => CommitNeverPassesUnhandled
  BY DEF ConsumerInv, HandledInv, CommitNeverPassesUnhandled
<1> QED
  BY <1>1, ConsumerCorrect, PTL

-----------------------------------------------------------------------------
(***************************************************************************)
(* The transaction keys.                                                   *)
(***************************************************************************)

\* Only Decide and ExpireKey touch what DedupInv is about.
DedupQuiet ==
  /\ dedupKeys' = dedupKeys /\ window' = window
  /\ verdict' = verdict /\ seenIn' = seenIn
  /\ \A r \in Request : stage'[r] \in {"new", "dedup"} => stage[r] \in {"new", "dedup"}

\* A step decides a call, lets a key expire, or is none of DedupInv's business.
LEMMA DedupCases ==
  ASSUME TypeOK, [Next]_vars
  PROVE  \/ \E r \in Request : Decide(r)
         \/ \E t \in Txn : ExpireKey(t) /\ UNCHANGED intakeVars
         \/ DedupQuiet
<1> USE DEF DedupQuiet, dedupVars, intakeVars
<1>1. stage \in [Request -> Stage]
  BY DEF TypeOK, IntakeTypeOK
<1>2. ASSUME NEW r \in Request, NEW d \in Door, NEW f \in Form,
             Arrive(r, d, f) \/ HandlerStep(r) \/ ResendPersists(r)
      PROVE  Decide(r) \/ DedupQuiet
  <2>1. CASE Arrive(r, d, f)
    BY <1>1, <2>1 DEF Arrive, Goto, Answer
  <2>2. CASE HandlerStep(r)
    BY <1>1, <2>2 DEF HandlerStep, RefuseDuplicate, BeginPublish, AckInProcess, BeginSync,
         ProducerAwaited, BrokerPersists, SendConfirmed, SendFails, SyncAnswers,
         InProcessResolves, InProcessPosts, Goto, Answer
  <2>3. CASE ResendPersists(r)
    BY <2>3 DEF ResendPersists
  <2> QED
    BY <1>2, <2>1, <2>2, <2>3
<1>3. CASE HandlerTakesStep
  BY <1>2, <1>3 DEF HandlerTakesStep, Api
<1>4. CASE Api(ProducerSettles) \/ Api(ApiExits)
  BY <1>1, <1>4 DEF Api, ProducerSettles, ApiExits, AuditAbandoned, Suspended
<1>5. CASE WorkerTakesStep \/ UNCHANGED vars
  BY <1>5 DEF WorkerTakesStep, Consumer, vars
<1>6. CASE RedisTakesStep
  BY <1>6 DEF RedisTakesStep, AuditEnds
<1> QED
  BY <1>3, <1>4, <1>5, <1>6, StepCases

\* The SET NX of one call keeps DedupInv, whichever way it ends.
LEMMA DecideKeepsDedup ==
  ASSUME TypeOK, DedupInv, NEW r \in Request, Decide(r)
  PROVE  DedupInv'
<1> DEFINE t == TxnOf[r]
<1> USE DEF Admitted
<1>1. /\ verdict \in [Request -> {"none", "new", "duplicate"}]
      /\ seenIn \in [Request -> Nat] /\ window \in [Txn -> Nat]
      /\ stage \in [Request -> Stage]
      /\ \A q \in Request : TxnOf[q] \in Txn
  BY DedupAssumption, IntakeAssumption DEF TypeOK, DedupTypeOK, IntakeTypeOK
<1>2. stage[r] = "dedup" /\ verdict[r] = "none" /\ window' = window
  BY DEF DedupInv, DecisionInv, Decide, SetTaken, SetRefused, dedupVars
<1>3. \A q \in Request : q # r => /\ verdict'[q] = verdict[q] /\ seenIn'[q] = seenIn[q]
                                  /\ stage'[q] = stage[q]
  BY <1>1 DEF Decide, Goto
<1>4. seenIn'[r] = window[t] /\ stage'[r] = "decided"
  BY <1>1 DEF Decide, Goto
<1>5. CASE SetTaken(t) /\ verdict'[r] = "new"
  <2>1. t \notin dedupKeys /\ dedupKeys' = dedupKeys \cup {t}
    BY <1>5 DEF SetTaken
  <2>2. KeyInv'
    BY <1>1, <1>2, <1>3, <1>4, <1>5, <2>1 DEF KeyInv, DedupInv
  <2>3. DecisionInv'
    BY <1>1, <1>2, <1>3, <1>4 DEF DecisionInv, DedupInv
  <2>4. \A q \in Request : Admitted(q) /\ TxnOf[q] = t => seenIn[q] # window[t]
    BY <2>1 DEF KeyInv, DedupInv
  <2>5. AdmittedOncePerWindow'
    BY <1>1, <1>2, <1>3, <1>4, <2>4 DEF AdmittedOncePerWindow, DedupInv
  <2>6. RefusalIsJustified'
    BY <1>2, <1>3, <1>5 DEF RefusalIsJustified, DedupInv
  <2> QED
    BY <2>2, <2>3, <2>5, <2>6 DEF DedupInv
<1>6. CASE SetRefused(t) /\ verdict'[r] = "duplicate"
  <2>1. t \in dedupKeys /\ dedupKeys' = dedupKeys
    BY <1>6 DEF SetRefused, dedupVars
  <2>2. PICK p \in Request : Admitted(p) /\ TxnOf[p] = t /\ seenIn[p] = window[t]
    BY <2>1 DEF KeyInv, DedupInv
  <2>3. p # r
    BY <1>2, <2>2
  <2>4. KeyInv'
    BY <1>2, <1>3, <1>6, <2>1 DEF KeyInv, DedupInv
  <2>5. DecisionInv'
    BY <1>1, <1>2, <1>3, <1>4 DEF DecisionInv, DedupInv
  <2>6. AdmittedOncePerWindow'
    BY <1>3, <1>6 DEF AdmittedOncePerWindow, DedupInv
  <2>7. RefusalIsJustified'
    BY <1>2, <1>3, <1>4, <2>2, <2>3 DEF RefusalIsJustified, DedupInv
  <2> QED
    BY <2>4, <2>5, <2>6, <2>7 DEF DedupInv
<1>7. (SetTaken(t) /\ verdict'[r] = "new") \/ (SetRefused(t) /\ verdict'[r] = "duplicate")
  BY <1>1 DEF Decide
<1> QED
  BY <1>5, <1>6, <1>7

\* No step disturbs DedupInv.
LEMMA DedupStep ==
  ASSUME TypeOK, DedupInv, [Next]_vars
  PROVE  DedupInv'
<1>1. CASE \E r \in Request : Decide(r)
  BY <1>1, DecideKeepsDedup
<1>2. ASSUME NEW t \in Txn, ExpireKey(t), UNCHANGED intakeVars
      PROVE  DedupInv'
  <2>1. /\ window \in [Txn -> Nat] /\ seenIn \in [Request -> Nat]
        /\ \A q \in Request : TxnOf[q] \in Txn
    BY DedupAssumption, IntakeAssumption DEF TypeOK, DedupTypeOK, IntakeTypeOK
  <2>2. /\ dedupKeys' = dedupKeys \ {t} /\ window' = [window EXCEPT ![t] = @ + 1]
        /\ verdict' = verdict /\ seenIn' = seenIn /\ stage' = stage
    BY <1>2 DEF ExpireKey, intakeVars
  <2>3. KeyInv'
    BY <2>1, <2>2 DEF KeyInv, DecisionInv, DedupInv, Admitted
  <2>4. DecisionInv'
    BY <2>1, <2>2 DEF DecisionInv, DedupInv
  <2> QED
    BY <2>2, <2>3, <2>4 DEF DedupInv, AdmittedOncePerWindow, RefusalIsJustified, Admitted
<1>3. CASE DedupQuiet
  BY <1>3 DEF DedupQuiet, DedupInv, KeyInv, DecisionInv, AdmittedOncePerWindow,
              RefusalIsJustified, Admitted
<1> QED
  BY <1>1, <1>2, <1>3, DedupCases

\* No key exists and no call is decided at the start.
LEMMA InitDedup == Init => DedupInv
BY IntakeAssumption DEF Init, DedupInit, IntakeInit, DedupInv, KeyInv, DecisionInv, Admitted,
   AdmittedOncePerWindow, RefusalIsJustified

\* In every state the Redis keys (transactionDedup.js) are exactly those of the
\* calls let in by the current window.
THEOREM DedupCorrect == Spec => [](TypeOK /\ PositionInv /\ DedupInv)
<1>1. Init => TypeOK /\ PositionInv /\ DedupInv
  BY InitType, InitConsumer, InitDedup DEF ConsumerInv
<1>2. TypeOK /\ PositionInv /\ DedupInv /\ [Next]_vars => (TypeOK /\ PositionInv /\ DedupInv)'
  BY TypeStep, DedupStep
<1> QED
  BY <1>1, <1>2, PTL DEF Spec

(***************************************************************************)
(* transactionDedup.js:9-15: for any number of calls, at most one call is  *)
(* let in per transaction_id and lifetime of its key.                      *)
(***************************************************************************)
THEOREM AtMostOneAdmitted == Spec => []AdmittedOncePerWindow
<1>1. TypeOK /\ PositionInv /\ DedupInv => AdmittedOncePerWindow
  BY DEF DedupInv
<1> QED
  BY <1>1, DedupCorrect, PTL

(***************************************************************************)
(* A 409 always has another call that took the id before it.               *)
(***************************************************************************)
THEOREM RefusalsAreJustified == Spec => []RefusalIsJustified
<1>1. TypeOK /\ PositionInv /\ DedupInv => RefusalIsJustified
  BY DEF DedupInv
<1> QED
  BY <1>1, DedupCorrect, PTL

-----------------------------------------------------------------------------
(***************************************************************************)
(* The handlers and the queue.  HandlerInv is what IntakeInv says of one   *)
(* call; a handler's step can disturb it only for its own call.            *)
(***************************************************************************)
HandlerInv(q) ==
  /\ stage[q] \in {"dedup", "decided"} => FormAccepted(door[q], form[q])
  /\ stage[q] \in {"connect", "send", "sent"} =>
       Admitted(q) /\ door[q] = "v1" /\ form[q] = "complete"
  /\ stage[q] = "sent" => q \in Queued
  /\ q \in Queued => /\ Admitted(q) /\ door[q] = "v1" /\ form[q] = "complete"
                      /\ stage[q] \notin {"new", "dedup", "decided"}
  /\ useKafka /\ reply[q] = "ack" => q \in Queued

\* IntakeInv is HandlerInv of every call.
LEMMA IntakeInvByCall ==
  ASSUME TypeOK
  PROVE  IntakeInv <=> \A q \in Request : HandlerInv(q)
<1>1. Queued \subseteq Request
  BY DEF Queued, TypeOK, TopicTypeOK
<1> QED
  BY <1>1 DEF IntakeInv, StageInv, QueueInv, AckMeansQueued, HandlerInv

\* Nothing that HandlerInv(q) speaks of changes, except that the log may grow
\* by another call's message.
CallUntouched(q) ==
  /\ stage'[q] = stage[q] /\ door'[q] = door[q] /\ form'[q] = form[q]
  /\ verdict'[q] = verdict[q] /\ reply'[q] = reply[q] /\ useKafka' = useKafka
  /\ q \in Queued' <=> q \in Queued

\* What leaves a call untouched keeps its HandlerInv.
LEMMA UntouchedKeeps ==
  ASSUME NEW q \in Request, HandlerInv(q), CallUntouched(q)
  PROVE  HandlerInv(q)'
BY DEF HandlerInv, CallUntouched, Admitted, FormAccepted

\* A handler's step, seen from another call.
LEMMA OthersUntouched ==
  ASSUME TypeOK, NEW r \in Request, NEW d \in Door, NEW f \in Form,
         Arrive(r, d, f) \/ HandlerStep(r) \/ ResendPersists(r),
         NEW q \in Request, q # r
  PROVE  CallUntouched(q)
<1>1. /\ stage \in [Request -> Stage] /\ door \in [Request -> Door]
      /\ form \in [Request -> Form] /\ reply \in [Request -> Reply]
      /\ verdict \in [Request -> {"none", "new", "duplicate"}]
  BY DEF TypeOK, TopicTypeOK, IntakeTypeOK
<1>2. Persist(r) => Queued' = Queued \cup {r}
  BY PersistLog DEF TypeOK
<1>3. topic' = topic => Queued' = Queued
  BY DEF Queued
<1> USE <1>1, <1>2, <1>3 DEF CallUntouched, Goto, Answer, topicVars, intakeVars
<1>4. CASE Arrive(r, d, f)
  BY <1>4 DEF Arrive
<1>5. CASE BrokerPersists(r) \/ ResendPersists(r)
  BY <1>5 DEF BrokerPersists, ResendPersists, Persist
<1>6. CASE Decide(r) \/ RefuseDuplicate(r) \/ BeginPublish(r) \/ AckInProcess(r) \/ BeginSync(r)
  BY <1>6 DEF Decide, RefuseDuplicate, BeginPublish, AckInProcess, BeginSync
<1>7. CASE ProducerAwaited(r) \/ SendConfirmed(r) \/ SendFails(r)
  BY <1>7 DEF ProducerAwaited, SendConfirmed, SendFails
<1>8. CASE SyncAnswers(r) \/ InProcessResolves(r) \/ InProcessPosts(r)
  BY <1>8 DEF SyncAnswers, InProcessResolves, InProcessPosts
<1> QED
  BY <1>4, <1>5, <1>6, <1>7, <1>8 DEF HandlerStep

\* A handler's step, seen from its own call.
LEMMA OwnStepKeeps ==
  ASSUME TypeOK, DecisionInv, NEW r \in Request, NEW d \in Door, NEW f \in Form,
         Arrive(r, d, f) \/ HandlerStep(r) \/ ResendPersists(r),
         HandlerInv(r)
  PROVE  HandlerInv(r)'
<1>1. /\ stage \in [Request -> Stage] /\ door \in [Request -> Door]
      /\ form \in [Request -> Form] /\ reply \in [Request -> Reply]
      /\ verdict \in [Request -> {"none", "new", "duplicate"}]
  BY DEF TypeOK, TopicTypeOK, IntakeTypeOK
<1>2. Persist(r) => r \in Queued'
  BY PersistLog DEF TypeOK
<1>3. topic' = topic => Queued' = Queued
  BY DEF Queued
<1> USE <1>1, <1>2, <1>3 DEF HandlerInv, Goto, Answer, Admitted, topicVars, intakeVars
<1>4. CASE Arrive(r, d, f)
  BY <1>4 DEF Arrive, FormAccepted
<1>5. CASE Decide(r)
  BY <1>5 DEF Decide, FormAccepted
<1>6. CASE RefuseDuplicate(r)
  BY <1>6 DEF RefuseDuplicate
<1>7. CASE BeginPublish(r)
  BY <1>7 DEF BeginPublish, FormAccepted
<1>8. CASE AckInProcess(r)
  BY <1>8 DEF AckInProcess
<1>9. CASE BeginSync(r)
  BY <1>9 DEF BeginSync
<1>10. CASE ProducerAwaited(r)
  BY <1>10 DEF ProducerAwaited
<1>11. CASE BrokerPersists(r)
  BY <1>11 DEF BrokerPersists, Persist
<1>12. CASE ResendPersists(r)
  BY <1>12 DEF ResendPersists, Persist
<1>13. CASE SendConfirmed(r)
  BY <1>13 DEF SendConfirmed
<1>14. CASE SendFails(r)
  BY <1>14 DEF SendFails
<1>15. CASE SyncAnswers(r)
  BY <1>15 DEF SyncAnswers
<1>16. CASE InProcessResolves(r)
  BY <1>16 DEF InProcessResolves
<1>17. CASE InProcessPosts(r)
  BY <1>17 DEF InProcessPosts
<1> QED
  BY <1>4, <1>5, <1>6, <1>7, <1>8, <1>9, <1>10, <1>11, <1>12, <1>13, <1>14, <1>15, <1>16, <1>17 DEF HandlerStep

\* No step disturbs any call's HandlerInv.
LEMMA IntakeStep ==
  ASSUME TypeOK, DecisionInv, IntakeInv, [Next]_vars
  PROVE  \A q \in Request : HandlerInv(q)'
<1>1. \A q \in Request : HandlerInv(q)
  BY IntakeInvByCall
<1>2. topic' = topic => Queued' = Queued
  BY DEF Queued
<1>3. stage \in [Request -> Stage]
  BY DEF TypeOK, IntakeTypeOK
<1>4. ASSUME NEW r \in Request, NEW d \in Door, NEW f \in Form,
             Arrive(r, d, f) \/ HandlerStep(r) \/ ResendPersists(r), NEW q \in Request
      PROVE  HandlerInv(q)'
  <2>1. CASE q = r
    BY <1>1, <1>4, <2>1, OwnStepKeeps
  <2>2. CASE q # r
    BY <1>1, <1>4, <2>2, OthersUntouched, UntouchedKeeps
  <2> QED
    BY <2>1, <2>2
<1>5. CASE HandlerTakesStep
  BY <1>4, <1>5 DEF HandlerTakesStep, Api
<1>6. CASE Api(ApiExits)
  BY <1>1, <1>2, <1>3, <1>6 DEF Api, ApiExits, HandlerInv, Suspended, Admitted, FormAccepted,
                                topicVars
<1>7. CASE Api(ProducerSettles) \/ WorkerTakesStep \/ RedisTakesStep
           \/ UNCHANGED vars
  <2>1. \A q \in Request : CallUntouched(q)
    BY <1>2, <1>7 DEF Api, ProducerSettles, WorkerTakesStep, Consumer,
         RedisTakesStep, vars, topicVars, intakeVars, CallUntouched
  <2> QED
    BY <1>1, <2>1, UntouchedKeeps
<1> QED
  BY <1>5, <1>6, <1>7, StepCases

(***************************************************************************)
(* The inductive invariant, all its parts together.                        *)
(***************************************************************************)
THEOREM PipelineInvariant == Spec => []IInv
<1>1. Init => IInv
  <2>1. Init => IntakeInv
    BY DEF Init, TopicInit, IntakeInit, IntakeInv, StageInv, QueueInv, AckMeansQueued, Queued
  <2> QED
    BY <2>1, InitType, InitConsumer, InitDedup DEF IInv
<1>2. ASSUME IInv, [Next]_vars PROVE IInv'
  <2>1. TypeOK' /\ ConsumerInv' /\ DedupInv'
    BY <1>2, TypeStep, ConsumerStep, DedupStep DEF IInv, ConsumerInv
  <2>2. \A q \in Request : HandlerInv(q)'
    BY <1>2, IntakeStep DEF IInv, DedupInv
  <2>3. TypeOK' => (IntakeInv' <=> \A q \in Request : HandlerInv(q)')
    <3>1. TypeOK' => Queued' \subseteq Request
      BY DEF Queued, TypeOK, TopicTypeOK
    <3> QED
      BY <3>1 DEF IntakeInv, StageInv, QueueInv, AckMeansQueued, HandlerInv
  <2> QED
    BY <2>1, <2>2, <2>3 DEF IInv
<1> QED
  BY <1>1, <1>2, PTL DEF Spec

(***************************************************************************)
(* asyncHandler.js:10-12: with Kafka, an ACK means the call is queued, for *)
(* any number of calls, failing broker calls, resends and exits.           *)
(***************************************************************************)
THEOREM AckIsDurable == Spec => []AckMeansQueued
<1>1. IInv => AckMeansQueued
  BY DEF IInv, IntakeInv
<1> QED
  BY <1>1, PipelineInvariant, PTL

(***************************************************************************)
(* asyncHandler.js:35-38: what is on the topic was let in by its key, so   *)
(* no two calls of one lifetime of a key are both on it.                   *)
(***************************************************************************)
THEOREM QueueHoldsNoDuplicates == Spec => []NoDuplicateReachesQueue
<1>1. IInv => NoDuplicateReachesQueue
  <2>1. TypeOK => Queued \subseteq Request
    BY DEF Queued, TypeOK, TopicTypeOK
  <2> QED
    BY <2>1 DEF IInv, IntakeInv, QueueInv, DedupInv, AdmittedOncePerWindow, NoDuplicateReachesQueue
<1> QED
  BY <1>1, PipelineInvariant, PTL

(***************************************************************************)
(* Every message the consumer can meet has a sender_uri to deliver to.     *)
(***************************************************************************)
THEOREM QueueIsDeliverable == Spec => []QueuedAreDeliverable
<1>1. IInv => QueuedAreDeliverable
  BY DEF IInv, IntakeInv, QueueInv, QueuedAreDeliverable
<1> QED
  BY <1>1, PipelineInvariant, PTL
=============================================================================
