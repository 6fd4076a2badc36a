----------------------------- MODULE SeekIntake -----------------------------
(***************************************************************************)
(* The API process's seek handlers: handleAsyncSeek (v1) of                *)
(* src/seek/asyncHandler.js and handleSync (v2, either of its two doors)   *)
(* of src/seek/syncHandler.js, with the lazily connected producer of       *)
(* src/kafka/producer.js.  A handler runs without interruption up to its   *)
(* next await, so every await is the end of one action and the start of    *)
(* another; handlers of different calls interleave at the awaits.          *)
(***************************************************************************)
EXTENDS SeekTopic, TransactionDedup

CONSTANTS
  TxnOf,        \* message.transaction_id of each call
  MaxApiExits   \* bound: exits of the API process

ASSUME IntakeAssumption ==
  /\ TxnOf \in [Request -> Txn]
  /\ MaxApiExits \in Nat

VARIABLES
  useKafka,     \* USE_KAFKA=true, read from the environment
  apiExits,     \* exits of the API process (counted only for the bound)
  door,         \* route the call came through
  stage,        \* where the call's handler is
  verdict,      \* answer of isDuplicateTransaction
  seenIn,       \* window in which that answer was given (history)
  reply,        \* HTTP answer
  producer      \* producerPromise

intakeVars == <<useKafka, apiExits, door, stage, verdict, seenIn, reply, producer>>

Door == {"v1", "v2"}

\* A handler suspended at one of its awaits.
Suspended == {"dedup", "decided", "connect", "send", "sent", "resolve", "post"}
Stage     == {"new", "delivered", "done", "lost"} \cup Suspended

Reply == {"none", "ack", "result", "bad_request", "duplicate",
          "queue_unavailable", "internal_error"}

IntakeTypeOK ==
  /\ useKafka \in BOOLEAN
  /\ apiExits \in 0..MaxApiExits
  /\ door \in [Request -> Door]
  /\ stage \in [Request -> Stage]
  /\ verdict \in [Request -> {"none", "new", "duplicate"}]
  /\ seenIn \in [Request -> 0..MaxWindow]
  /\ reply \in [Request -> Reply]
  /\ producer \in {"none", "connecting", "ready", "rejected"}

IntakeInit ==
  /\ useKafka \in BOOLEAN
  /\ apiExits = 0
  /\ door = [r \in Request |-> "v1"]
  /\ stage = [r \in Request |-> "new"]
  /\ verdict = [r \in Request |-> "none"]
  /\ seenIn = [r \in Request |-> 0]
  /\ reply = [r \in Request |-> "none"]
  /\ producer = "none"

Admitted(r) == verdict[r] = "new"

Goto(r, s) == stage' = [stage EXCEPT ![r] = s]

\* sendError or res.json: the call's one answer, after which its handler ends.
Answer(r, a) ==
  /\ reply' = [reply EXCEPT ![r] = a]
  /\ Goto(r, "done")

\* Mutant: v1 does not ask for sender_uri.
FormAcceptedWithoutUri(d, f) == f \in {"complete", "no_sender_uri"}

\* The v1 handler insists on sender_uri, the v2 handler has no use for it.
FormAccepted(d, f) ==
  \/ f = "complete"
  \/ f = "no_sender_uri" /\ d = "v2"

\* Mutant: the key is taken before the body is checked.
ArriveKeyFirst(r, d, f) ==
  /\ stage[r] = "new"
  /\ door' = [door EXCEPT ![r] = d]
  /\ form' = [form EXCEPT ![r] = f]
  /\ IF FormAccepted(d, f)
     THEN Goto(r, "dedup") /\ UNCHANGED <<reply, dedupKeys>>
     ELSE Answer(r, "bad_request") /\ dedupKeys' = dedupKeys \cup {TxnOf[r]}
  /\ UNCHANGED <<useKafka, apiExits, verdict, seenIn, producer>>
  /\ UNCHANGED <<topic, window, auditing>>

\* A call reaches its handler, which checks the body before its first await.
Arrive(r, d, f) ==
  /\ stage[r] = "new"
  /\ door' = [door EXCEPT ![r] = d]
  /\ form' = [form EXCEPT ![r] = f]
  /\ IF FormAccepted(d, f)
     THEN Goto(r, "dedup") /\ UNCHANGED reply
     ELSE Answer(r, "bad_request")
  /\ UNCHANGED <<useKafka, apiExits, verdict, seenIn, producer>>
  /\ UNCHANGED <<topic, dedupVars>>

\* isDuplicateTransaction: the SET lands at Redis and decides.
Decide(r) ==
  /\ stage[r] = "dedup"
  /\ \/ /\ SetTaken(TxnOf[r])
        /\ verdict' = [verdict EXCEPT ![r] = "new"]
     \/ /\ SetRefused(TxnOf[r])
        /\ verdict' = [verdict EXCEPT ![r] = "duplicate"]
  /\ seenIn' = [seenIn EXCEPT ![r] = window[TxnOf[r]]]
  /\ Goto(r, "decided")
  /\ UNCHANGED <<useKafka, apiExits, door, reply, producer>>
  /\ UNCHANGED topicVars

\* Redis has answered; the handler goes on to its next await.
RefuseDuplicate(r) ==
  /\ stage[r] = "decided"
  /\ ~Admitted(r)
  /\ Answer(r, "duplicate")
  /\ UNCHANGED <<useKafka, apiExits, door, verdict, seenIn, producer>>
  /\ UNCHANGED <<topicVars, dedupVars>>

\* Mutant: the answer of isDuplicateTransaction is not looked at.
BeginPublishUnchecked(r) ==
  /\ stage[r] = "decided"
  /\ door[r] = "v1" /\ useKafka
  /\ producer' = IF producer = "none" THEN "connecting" ELSE producer
  /\ Goto(r, "connect")
  /\ UNCHANGED <<useKafka, apiExits, door, verdict, seenIn, reply>>
  /\ UNCHANGED <<topicVars, dedupVars>>

\* v1 over Kafka: publishSeekRequest asks getProducer for the one producer,
\* whose promise the first caller creates.
BeginPublish(r) ==
  /\ stage[r] = "decided"
  /\ Admitted(r) /\ door[r] = "v1" /\ useKafka
  /\ producer' = IF producer = "none" THEN "connecting" ELSE producer
  /\ Goto(r, "connect")
  /\ UNCHANGED <<useKafka, apiExits, door, verdict, seenIn, reply>>
  /\ UNCHANGED <<topicVars, dedupVars>>

\* v1 without Kafka: the ACK leaves first, then the work is done.
AckInProcess(r) ==
  /\ stage[r] = "decided"
  /\ Admitted(r) /\ door[r] = "v1" /\ ~useKafka
  /\ reply' = [reply EXCEPT ![r] = "ack"]
  /\ Goto(r, "resolve")
  /\ UNCHANGED <<useKafka, apiExits, door, verdict, seenIn, producer>>
  /\ UNCHANGED <<topicVars, dedupVars>>

\* Mutant: the audit insert is awaited.
BeginSyncAfterAudit(r) ==
  /\ stage[r] = "decided"
  /\ Admitted(r) /\ door[r] = "v2" /\ TxnOf[r] \notin auditing
  /\ Goto(r, "resolve")
  /\ UNCHANGED <<useKafka, apiExits, door, verdict, seenIn, reply, producer>>
  /\ UNCHANGED <<topicVars, dedupVars>>

\* v2: on to resolveAndPublishSeek.
BeginSync(r) ==
  /\ stage[r] = "decided"
  /\ Admitted(r) /\ door[r] = "v2"
  /\ Goto(r, "resolve")
  /\ UNCHANGED <<useKafka, apiExits, door, verdict, seenIn, reply, producer>>
  /\ UNCHANGED <<topicVars, dedupVars>>

\* The connection attempt, with the creation of the topics before it, ends.
\* Either way producerPromise keeps the settled promise until the process exits.
ProducerSettles ==
  /\ producer = "connecting"
  /\ producer' \in {"ready", "rejected"}
  /\ UNCHANGED <<useKafka, apiExits, door, stage, verdict, seenIn, reply>>
  /\ UNCHANGED <<topicVars, dedupVars>>

\* "await getProducer()" resumes: producer.send is called, or the rejection
\* reaches the catch of handleAsyncSeek.
ProducerAwaited(r) ==
  /\ stage[r] = "connect"
  /\ \/ producer = "ready" /\ Goto(r, "send") /\ UNCHANGED reply
     \/ producer = "rejected" /\ Answer(r, "queue_unavailable")
  /\ UNCHANGED <<useKafka, apiExits, door, verdict, seenIn, producer>>
  /\ UNCHANGED <<topicVars, dedupVars>>

\* The broker persists the message that producer.send has on its way.
BrokerPersists(r) ==
  /\ stage[r] = "send"
  /\ Persist(r)
  /\ Goto(r, "sent")
  /\ UNCHANGED <<useKafka, apiExits, door, verdict, seenIn, reply, producer>>
  /\ UNCHANGED dedupVars

\* The broker's response is lost, and the producer (which is not idempotent)
\* sends the message again.
ResendPersists(r) ==
  /\ stage[r] = "sent"
  /\ SecondCopies < MaxResends
  /\ Persist(r)
  /\ UNCHANGED <<intakeVars, dedupVars>>

\* Mutant: producer.send is not awaited.
SendUnawaited(r) ==
  /\ stage[r] \in {"send", "sent"}
  /\ Answer(r, "ack")
  /\ UNCHANGED <<useKafka, apiExits, door, verdict, seenIn, producer>>
  /\ UNCHANGED <<topicVars, dedupVars>>

\* The broker's response arrives and "await producer.send" returns.
SendConfirmed(r) ==
  /\ stage[r] = "sent"
  /\ Answer(r, "ack")
  /\ UNCHANGED <<useKafka, apiExits, door, verdict, seenIn, producer>>
  /\ UNCHANGED <<topicVars, dedupVars>>

\* producer.send rejects, whether or not a copy was persisted: its retries run
\* out, or the broker, though in reach, answers with an error.
SendFails(r) ==
  /\ stage[r] \in {"send", "sent"}
  /\ Answer(r, "queue_unavailable")
  /\ UNCHANGED <<useKafka, apiExits, door, verdict, seenIn, producer>>
  /\ UNCHANGED <<topicVars, dedupVars>>

\* Mutant: the in-process fallback of v1 answers with the result as well.
SyncAnswersAnyDoor(r) ==
  /\ stage[r] = "resolve"
  /\ Answer(r, "result") \/ Answer(r, "internal_error")
  /\ UNCHANGED <<useKafka, apiExits, door, verdict, seenIn, producer>>
  /\ UNCHANGED <<topicVars, dedupVars>>

\* v2: resolution and encryption end; whatever throws there becomes a 500.
SyncAnswers(r) ==
  /\ stage[r] = "resolve" /\ door[r] = "v2"
  /\ Answer(r, "result") \/ Answer(r, "internal_error")
  /\ UNCHANGED <<useKafka, apiExits, door, verdict, seenIn, producer>>
  /\ UNCHANGED <<topicVars, dedupVars>>

\* v1 without Kafka: resolution ends, then the POST to sender_uri; an error
\* in either is logged.
InProcessResolves(r) ==
  /\ stage[r] = "resolve" /\ door[r] = "v1"
  /\ Goto(r, "post") \/ Goto(r, "done")
  /\ UNCHANGED <<useKafka, apiExits, door, verdict, seenIn, reply, producer>>
  /\ UNCHANGED <<topicVars, dedupVars>>

InProcessPosts(r) ==
  /\ stage[r] = "post"
  /\ Goto(r, "delivered") \/ Goto(r, "done")
  /\ UNCHANGED <<useKafka, apiExits, door, verdict, seenIn, reply, producer>>
  /\ UNCHANGED <<topicVars, dedupVars>>

\* The API process exits and is started again.  A rejected SET is one cause:
\* the dedup call stands outside every try, and nothing handles the rejection.
ApiExits ==
  /\ apiExits < MaxApiExits
  /\ apiExits' = apiExits + 1
  /\ stage' = [r \in Request |-> IF stage[r] \in Suspended THEN "lost" ELSE stage[r]]
  /\ producer' = "none"
  /\ AuditAbandoned
  /\ UNCHANGED <<useKafka, door, verdict, seenIn, reply>>
  /\ UNCHANGED topicVars

\* What the event loop goes on with by itself for one call.
HandlerStep(r) ==
  \/ Decide(r) \/ RefuseDuplicate(r)
  \/ BeginPublish(r) \/ AckInProcess(r) \/ BeginSync(r)
  \/ ProducerAwaited(r) \/ BrokerPersists(r) \/ SendConfirmed(r) \/ SendFails(r)
  \/ SyncAnswers(r) \/ InProcessResolves(r) \/ InProcessPosts(r)
=============================================================================
