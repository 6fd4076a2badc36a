----------------------------- MODULE SeekTopic -----------------------------
(***************************************************************************)
(* The Kafka topic agristack.seek.requests, as src/kafka/*.js uses it: one *)
(* partition and one replica (ensureTopics.js), hence a single append-only *)
(* log.  The broker is external code, modelled from what the producer and  *)
(* the consumer rely on.  Every call to it may fail at any moment, with    *)
(* the broker in reach or not, and nothing it does has to happen: an       *)
(* absent broker is one of which every call fails and that hands nothing   *)
(* over, and needs no state of its own.                                    *)
(***************************************************************************)
EXTENDS Naturals, Sequences, FiniteSets

CONSTANTS
  Request,      \* seek calls; the copies of one call's body are the same value
  MaxLog,       \* bound: length of the log
  MaxResends    \* bound: second copies written by the producer's own retry

ASSUME TopicAssumption ==
  MaxLog \in Nat /\ MaxResends \in Nat

VARIABLES
  form,         \* what a call's body, which is also its message, holds
  topic         \* the log

topicVars == <<form, topic>>

Offsets == 1..MaxLog

\* A body by what the format checks tell apart: all in place, only
\* header.sender_uri missing, or message_id, message_ts or transaction_id bad.
Form == {"complete", "no_sender_uri", "malformed"}

TopicTypeOK ==
  /\ form \in [Request -> Form]
  /\ topic \in Seq(Request)
  /\ Len(topic) <= MaxLog

TopicInit ==
  /\ form = [r \in Request |-> "complete"]
  /\ topic = << >>

\* The requests that have at least one copy on the log.
Queued == {topic[i] : i \in DOMAIN topic}

\* Copies written beyond the first one of each request.
SecondCopies == Len(topic) - Cardinality(Queued)

\* The broker persists one message.
Persist(r) ==
  /\ Len(topic) < MaxLog
  /\ topic' = Append(topic, r)
  /\ UNCHANGED form
=============================================================================
