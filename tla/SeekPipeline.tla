---------------------------- MODULE SeekPipeline ----------------------------
(***************************************************************************)
(* The seek path end to end: API process, Redis key, Kafka topic and       *)
(* consumer process, each with its own exits, composed by interleaving.    *)
(* The processes share nothing but the topic and, for the API process and  *)
(* its successors, the Redis keys.                                         *)
(***************************************************************************)
EXTENDS SeekIntake, SeekConsumer

vars == <<topicVars, dedupVars, intakeVars, consumerVars>>

Init ==
  /\ TopicInit
  /\ DedupInit
  /\ IntakeInit
  /\ ConsumerInit

\* A step of one of the processes leaves the other process alone.
Api(A)      == A /\ UNCHANGED consumerVars
Consumer(A) == A /\ UNCHANGED <<topicVars, dedupVars, intakeVars>>

Next ==
  \/ \E r \in Request :
       \/ \E d \in Door, f \in Form : Api(Arrive(r, d, f))
       \/ Api(Decide(r))
       \/ Api(RefuseDuplicate(r))
       \/ Api(BeginPublish(r))
       \/ Api(AckInProcess(r))
       \/ Api(BeginSync(r))
       \/ Api(ProducerAwaited(r))
       \/ Api(BrokerPersists(r))
       \/ Api(ResendPersists(r))
       \/ Api(SendConfirmed(r))
       \/ Api(SendFails(r))
       \/ Api(SyncAnswers(r))
       \/ Api(InProcessResolves(r))
       \/ Api(InProcessPosts(r))
  \/ Api(ProducerSettles)
  \/ Api(ApiExits)
  \/ Consumer(WorkerStarts)
  \/ Consumer(EachMessage)
  \/ Consumer(WorkerResolves)
  \/ Consumer(WorkerCannotPost)
  \/ Consumer(WorkerPosts)
  \/ Consumer(CommitOffset)
  \/ Consumer(WorkerExits)
  \/ \E t \in Txn :
       /\ ExpireKey(t) \/ AuditEnds(t)
       /\ UNCHANGED <<topicVars, intakeVars, consumerVars>>

Spec == Init /\ [][Next]_vars

(***************************************************************************)
(* Fairness.  A suspended handler is resumed by its event loop and the     *)
(* services it awaits answer or fail; the consumer process runs, is        *)
(* started again, and is let into its group by the broker in the end.      *)
(* Callers need not call, keys need not expire, the audit insert need not  *)
(* end, offsets need not be committed and nothing needs to fail.           *)
(***************************************************************************)
Fairness ==
  /\ \A r \in Request : WF_vars(Api(HandlerStep(r)))
  /\ WF_vars(Api(ProducerSettles))
  /\ WF_vars(Consumer(WorkerStep))

FairSpec == Spec /\ Fairness

-----------------------------------------------------------------------------
\* Every variable has its type and every bound is kept.
TypeOK ==
  /\ TopicTypeOK
  /\ DedupTypeOK
  /\ IntakeTypeOK
  /\ ConsumerTypeOK

(***************************************************************************)
(* transactionDedup.js:9-15: of the calls with one transaction_id at most  *)
(* one is let in during a lifetime of its key, however the handlers        *)
(* interleave and however often the API process is restarted.              *)
(***************************************************************************)
AdmittedOncePerWindow ==
  \A p, q \in Request :
    Admitted(p) /\ Admitted(q) /\ TxnOf[p] = TxnOf[q] /\ seenIn[p] = seenIn[q] => p = q

(***************************************************************************)
(* asyncHandler.js:35-38: a duplicate never reaches the queue; what is     *)
(* queued was let in by the key, and so no two queued calls of one         *)
(* lifetime of the key have the same transaction_id.                       *)
(***************************************************************************)
NoDuplicateReachesQueue ==
  \A p \in Queued :
    /\ Admitted(p)
    /\ \A q \in Queued : TxnOf[p] = TxnOf[q] /\ seenIn[p] = seenIn[q] => p = q

(***************************************************************************)
(* asyncHandler.js:10-12: with Kafka, an ACK means the call is on the      *)
(* topic, whatever happened to the connection and the broker meanwhile.    *)
(***************************************************************************)
AckMeansQueued ==
  \A r \in Request : useKafka /\ reply[r] = "ack" => r \in Queued

(***************************************************************************)
(* The consumer's branch for a message without sender_uri (consumer.js:    *)
(* 52-55) is never needed: the handler let in only v1 calls that have one. *)
(***************************************************************************)
QueuedAreDeliverable ==
  \A r \in Queued : form[r] = "complete" /\ door[r] = "v1"

(***************************************************************************)
(* A 409 is never spurious: another call took the same transaction_id in   *)
(* the same lifetime of the key.  No call refuses itself, and a call that  *)
(* fails the format checks takes nothing.                                  *)
(***************************************************************************)
RefusalIsJustified ==
  \A r \in Request :
    verdict[r] = "duplicate" =>
      \E q \in Request : /\ q # r /\ Admitted(q)
                         /\ TxnOf[q] = TxnOf[r] /\ seenIn[q] = seenIn[r]

(***************************************************************************)
(* A message is delivered a second time only because the consumer went     *)
(* down: no offset's response reaches sender_uri more often than once per  *)
(* incarnation of the process.                                             *)
(***************************************************************************)
RedeliveryBounded ==
  \A i \in Offsets : posts[i] <= 1 + workerExits

(***************************************************************************)
(* consumer.js:13-16: a crash loses nothing the consumer had taken charge  *)
(* of, since the committed offset never passes a message whose handler did *)
(* not end (except those an offset-less start passed over).                *)
(***************************************************************************)
CommitNeverPassesUnhandled ==
  \A i \in Offsets : skipped < i /\ i <= committed => i \in handled

-----------------------------------------------------------------------------
(***************************************************************************)
(* The pipeline keeps the promises of SeekContract.  A transaction_id is   *)
(* held while its key exists, by the call that was let in by it.           *)
(***************************************************************************)
HolderOf(t) ==
  IF t \in dedupKeys
  THEN {r \in Request : Admitted(r) /\ TxnOf[r] = t /\ seenIn[r] = window[t]}
  ELSE {}

PhaseOf(r) ==
  CASE verdict[r] = "none"      -> "open"
    [] verdict[r] = "new"       -> "taken"
    [] verdict[r] = "duplicate" -> "turned_away"

CalledBack ==
  {topic[i] : i \in Delivered} \cup {r \in Request : stage[r] = "delivered"}

Contract == INSTANCE SeekContract
  WITH holder <- [t \in Txn |-> HolderOf(t)],
       phase  <- [r \in Request |-> PhaseOf(r)],
       answer <- reply,
       onSeek <- CalledBack

\* Every behaviour of the pipeline is one the contract allows.
KeepsContract == Contract!Spec

Group == INSTANCE AtLeastOnce
  WITH sent <- Len(topic), base <- skipped, acked <- committed, FromBeginning <- FALSE

(***************************************************************************)
(* consumer.js:13-16 and :26: across exits of the consumer, messages are   *)
(* handled in order, the committed offset passes only what was handled,    *)
(* and only a group without an offset passes any message over.  That such  *)
(* a group does so after a crash as well is shown by RestartLosesNothing.  *)
(***************************************************************************)
ConsumesAtLeastOnce == Group!Spec

-----------------------------------------------------------------------------
(***************************************************************************)
(* Every call that passed the format checks is answered, or its connection *)
(* is cut because the API process exited.  The audit insert has no part in *)
(* it (transactionDedup.js:21-27: it "never blocks the request").          *)
(***************************************************************************)
EveryCallAnswered ==
  \A r \in Request :
    stage[r] = "dedup" ~> (reply[r] # "none" \/ stage[r] = "lost")

(***************************************************************************)
(* Once the group has a committed offset, every message after it is        *)
(* eventually handled, across crashes of the consumer.                     *)
(***************************************************************************)
QueuedEventuallyHandled ==
  \A i \in Offsets :
    (committed # NoOffset /\ committed < i /\ i <= Len(topic)) ~> i \in handled

-----------------------------------------------------------------------------
(***************************************************************************)
(* asyncHandler.js:47 says of a failed publish: "The caller should retry   *)
(* the seek call."  So a call whose transaction_id is held only by a call  *)
(* that was answered 502 and that never reached the queue is not refused.  *)
(***************************************************************************)
RetryAfterUnavailableAccepted ==
  [][\A r, q \in Request :
       /\ verdict[r] = "none" /\ Admitted(q) /\ TxnOf[q] = TxnOf[r]
       /\ seenIn[q] = window[TxnOf[r]]
       /\ reply[q] = "queue_unavailable" /\ q \notin Queued
       => verdict'[r] # "duplicate"]_vars

(***************************************************************************)
(* README.md:282-285 has the consumer "crash and restart without losing    *)
(* anything already on the topic", and consumer.js:14-15 a message survive *)
(* a consumer crash.  So when the consumer is started again after an exit, *)
(* it passes over no message that was not handled, whether the exit came   *)
(* before or after the group's first commit.                               *)
(***************************************************************************)
RestartLosesNothing ==
  [][workerExits > 0 =>
       \A i \in Offsets : skipped < i /\ i <= skipped' => i \in handled]_vars

(***************************************************************************)
(* consumer.js:15-16 (and README.md:284): the committed offset advances    *)
(* past a message only after its try block finished without throwing, that *)
(* is, with the response delivered to sender_uri.                          *)
(***************************************************************************)
CommitOnlyAfterSuccess ==
  \A i \in Offsets : skipped < i /\ i <= committed => i \in Delivered
=============================================================================
