---------------------------- MODULE SeekConsumer ----------------------------
(***************************************************************************)
(* The seek consumer process: startConsumer and its eachMessage of         *)
(* src/kafka/consumer.js, one instance in one consumer group.  kafkajs is  *)
(* external: it calls eachMessage for one message after another, counts a  *)
(* message as resolved when eachMessage returns, and commits the resolved  *)
(* offset to the broker between messages.                                  *)
(***************************************************************************)
EXTENDS SeekTopic, Integers

CONSTANT MaxWorkerExits     \* bound: exits of the consumer process

ASSUME ConsumerAssumption == MaxWorkerExits \in Nat

VARIABLES
  worker,       \* what the consumer process is doing
  position,     \* offset up to which this instance has resolved messages
  committed,    \* the group's committed offset at the broker
  skipped,      \* the last start without an offset passed over 1..skipped
  workerExits,  \* exits of the consumer process
  handled,      \* offsets whose eachMessage returned (history)
  posts         \* successful POSTs to sender_uri, per offset (history)

consumerVars == <<worker, position, committed, skipped, workerExits,
                  handled, posts>>

\* The broker holds no committed offset for the group.
NoOffset == -1

ConsumerTypeOK ==
  /\ worker \in {"down", "idle", "resolve", "post"}
  /\ position \in 0..MaxLog
  /\ committed \in NoOffset..MaxLog
  /\ skipped \in 0..MaxLog
  /\ workerExits \in 0..MaxWorkerExits
  /\ handled \subseteq Offsets
  /\ posts \in [Offsets -> Nat]

\* The group may have run before, on an earlier part of the topic, or never.
ConsumerInit ==
  /\ worker = "down"
  /\ position = 0
  /\ committed \in {NoOffset, 0}
  /\ skipped = 0
  /\ workerExits = 0
  /\ handled = {}
  /\ posts = [i \in Offsets |-> 0]

\* Offsets whose response reached sender_uri.
Delivered == {i \in Offsets : posts[i] > 0}

\* The message being worked on.
Current == position + 1

\* Mutant: a group without an offset goes on at the broker's -1.
WorkerStartsAtNoOffset ==
  /\ worker = "down"
  /\ worker' = "idle"
  /\ position' = committed
  /\ UNCHANGED <<committed, skipped, workerExits, handled, posts>>

\* Mutant: every start goes to the end of the log, not only an offset-less one.
WorkerStartsAtEnd ==
  /\ worker = "down"
  /\ worker' = "idle"
  /\ position' = Len(topic) /\ skipped' = Len(topic)
  /\ UNCHANGED <<committed, workerExits, handled, posts>>

\* The instance joins the group and asks the broker where to go on; with no
\* committed offset, fromBeginning: false means the end of the log.
WorkerStarts ==
  /\ worker = "down"
  /\ worker' = "idle"
  /\ IF committed = NoOffset
     THEN position' = Len(topic) /\ skipped' = Len(topic)
     ELSE position' = committed /\ UNCHANGED skipped
  /\ UNCHANGED <<committed, workerExits, handled, posts>>

\* kafkajs hands the next message to eachMessage.
EachMessage ==
  /\ worker = "idle"
  /\ position < Len(topic)
  /\ worker' = "resolve"
  /\ UNCHANGED <<position, committed, skipped, workerExits, handled, posts>>

\* eachMessage returns, as it does on every path: kafkajs resolves the offset.
Returns ==
  /\ worker' = "idle"
  /\ position' = Current
  /\ handled' = handled \cup {Current}
  /\ UNCHANGED <<committed, skipped, workerExits>>

\* resolveAndPublishSeek returns a response that has somewhere to go.
WorkerResolves ==
  /\ worker = "resolve"
  /\ form[topic[Current]] # "no_sender_uri"
  /\ worker' = "post"
  /\ UNCHANGED <<position, committed, skipped, workerExits, handled, posts>>

\* Mutant: the catch rethrows, so kafkajs hands the message over again.
WorkerCannotPostRethrows ==
  /\ worker = "resolve"
  /\ worker' = "idle"
  /\ UNCHANGED <<position, committed, skipped, workerExits, handled, posts>>

\* resolveAndPublishSeek throws and the catch logs it, or the message has no
\* sender_uri.
WorkerCannotPost ==
  /\ worker = "resolve"
  /\ Returns
  /\ UNCHANGED posts

\* Mutant: an error after the POST got through is rethrown.
WorkerPostsRethrows ==
  /\ worker = "post"
  /\ \/ Returns /\ UNCHANGED posts
     \/ /\ worker' = "idle"
        /\ posts' = [posts EXCEPT ![Current] = @ + 1]
        /\ UNCHANGED <<position, committed, skipped, workerExits, handled>>

\* The POST to sender_uri succeeds, or fails and the catch logs it.
WorkerPosts ==
  /\ worker = "post"
  /\ Returns
  /\ \/ posts' = [posts EXCEPT ![Current] = @ + 1]
     \/ UNCHANGED posts

\* Mutant: an offset is committed as soon as its message is handed over.
CommitOnHandOver ==
  /\ worker # "down"
  /\ committed' = IF worker = "idle" THEN position ELSE Current
  /\ UNCHANGED <<worker, position, skipped, workerExits, handled, posts>>

\* kafkajs commits the resolved offset, if this group resolved anything.
CommitOffset ==
  /\ worker = "idle"
  /\ committed < position
  /\ committed = NoOffset => skipped < position
  /\ committed' = position
  /\ UNCHANGED <<worker, position, skipped, workerExits, handled, posts>>

\* The process exits, or loses its place in the group while a message takes
\* longer than the session timeout: what it had not committed is forgotten.
WorkerExits ==
  /\ worker # "down"
  /\ workerExits < MaxWorkerExits
  /\ workerExits' = workerExits + 1
  /\ worker' = "down"
  /\ position' = 0
  /\ UNCHANGED <<committed, skipped, handled, posts>>

\* What the running process goes on with by itself.
WorkerStep ==
  \/ WorkerStarts \/ EachMessage
  \/ WorkerResolves \/ WorkerCannotPost \/ WorkerPosts
=============================================================================
