----------------------------- MODULE SeekAudit -----------------------------
(***************************************************************************)
(* The audit trail of one seek call: resolveAndPublishSeek and the event   *)
(* producer of src/telemetry/, which run inside the API process and inside *)
(* the seek consumer; the sealing and sending of the response by           *)
(* src/seek/syncHandler.js and the callback POST; the seek-processed       *)
(* topic; and the telemetry consumer, which writes three ClickHouse tables *)
(* for every event.  What a resolver finds is an input here; the trail     *)
(* depends on nothing but the kind of answer, Found.                       *)
(***************************************************************************)
EXTENDS Naturals, Sequences, FiniteSets

CONSTANTS
  Call,             \* seek calls that passed de-duplication
  MaxEvents,        \* bound: length of the topic
  MaxServerExits,   \* bound: exits of the process that resolves the calls
  MaxWriterExits    \* bound: exits of the telemetry consumer

ASSUME AuditAssumption ==
  {MaxEvents, MaxServerExits, MaxWriterExits} \subseteq Nat

VARIABLES
  telemetryOn,  \* USE_TELEMETRY_EVENTS=true
  route,        \* how the call is answered
  stage,        \* where the call is between resolution and answer
  found,        \* what the resolver returned
  reply,        \* what the caller got
  publish,      \* where publishSeekProcessedEvent is
  attempt,      \* its attempts so far
  producer,     \* producerPromise of eventProducer.js
  serverExits,
  events,       \* the topic agristack.seek.processed
  writer,       \* what the telemetry consumer is doing
  position,     \* offset up to which it has resolved events
  committed,    \* its group's committed offset
  writerExits,
  tried,        \* offsets whose eachMessage returned (history)
  responseRows, sharingRows, telemetryRows    \* rows per call in each table

serverVars == <<route, stage, found, reply, serverExits>>
publishVars == <<publish, attempt, producer, events>>
writerVars == <<writer, position, committed, writerExits, tried>>
rowVars    == <<responseRows, sharingRows, telemetryRows>>
vars == <<telemetryOn, serverVars, publishVars, writerVars, rowVars>>

MAX_ATTEMPTS == 2

\* Sealing: the gateway door, and the direct one if USE_RESPONSE_ENCRYPTION.
\* Callback: v1, whose answer is POSTed to sender_uri.
Route == {"sealing", "open", "callback"}

\* Records with the farmers' frCentralId; none, or records of a service whose
\* config leaves frCentralId out; an SD-JWT credential; a status other than 200.
Found == {"farmers", "no_ids", "credential", "declined"}

\* The answers whose event lists farmerIds.
NamesFarmers == {"farmers", "credential"}

TypeOK ==
  /\ telemetryOn \in BOOLEAN
  /\ route \in [Call -> Route]
  /\ stage \in [Call -> {"new", "resolve", "config", "answer", "done", "lost"}]
  /\ found \in [Call -> Found \cup {"nothing"}]
  /\ reply \in [Call -> {"none", "plain", "sealed", "error"}]
  /\ publish \in [Call -> {"none", "connect", "send", "sent", "pause",
                           "published", "gave_up", "lost"}]
  /\ attempt \in [Call -> 0..MAX_ATTEMPTS]
  /\ producer \in {"none", "connecting", "ready", "rejected"}
  /\ serverExits \in 0..MaxServerExits
  /\ events \in Seq(Call) /\ Len(events) <= MaxEvents
  /\ writer \in {"down", "idle", "response", "sharing", "telemetry"}
  /\ position \in 0..Len(events)
  /\ committed \in 0..Len(events)
  /\ writerExits \in 0..MaxWriterExits
  /\ tried \subseteq 1..Len(events)
  /\ responseRows \in [Call -> Nat]
  /\ sharingRows \in [Call -> Nat]
  /\ telemetryRows \in [Call -> Nat]

Init ==
  /\ telemetryOn \in BOOLEAN
  /\ route = [c \in Call |-> "open"]
  /\ stage = [c \in Call |-> "new"]
  /\ found = [c \in Call |-> "nothing"]
  /\ reply = [c \in Call |-> "none"]
  /\ publish = [c \in Call |-> "none"]
  /\ attempt = [c \in Call |-> 0]
  /\ producer = "none"
  /\ serverExits = 0
  /\ events = << >>
  /\ writer = "down" /\ position = 0 /\ committed = 0 /\ writerExits = 0 /\ tried = {}
  /\ responseRows = [c \in Call |-> 0]
  /\ sharingRows = [c \in Call |-> 0]
  /\ telemetryRows = [c \in Call |-> 0]

Goto(c, s) == stage' = [stage EXCEPT ![c] = s]

-----------------------------------------------------------------------------
(* The process that resolves the call.                                     *)

Begin(c) ==
  /\ stage[c] = "new"
  /\ \E d \in Route : route' = [route EXCEPT ![c] = d]
  /\ Goto(c, "resolve")
  /\ UNCHANGED <<telemetryOn, found, reply, serverExits, publishVars, writerVars,
                 rowVars>>

\* An error thrown anywhere before the answer: a 500, or a logged failure.
Throws(c) ==
  /\ stage' = [stage EXCEPT ![c] = "done"]
  /\ reply' = [reply EXCEPT ![c] = "error"]

\* The resolver returns, or throws.  With telemetry the service config is
\* looked up next, for the event.
Resolves(c) ==
  /\ stage[c] = "resolve"
  /\ \/ /\ \E what \in Found :
             /\ what = "credential" => route[c] # "callback"
             /\ found' = [found EXCEPT ![c] = what]
        /\ Goto(c, IF telemetryOn THEN "config" ELSE "answer")
        /\ UNCHANGED reply
     \/ Throws(c) /\ UNCHANGED found
  /\ UNCHANGED <<telemetryOn, route, serverExits, publishVars, writerVars, rowVars>>

\* publishSeekProcessedEvent starts an attempt: it awaits the one producer.
StartAttempt(c) ==
  /\ publish' = [publish EXCEPT ![c] = "connect"]
  /\ attempt' = [attempt EXCEPT ![c] = @ + 1]
  /\ producer' = IF producer = "none" THEN "connecting" ELSE producer
  /\ UNCHANGED events

\* getServiceConfig returned: the event is built and its publish is started
\* but not awaited.  Or the lookup throws, and there is no event.
BuildsEvent(c) ==
  /\ stage[c] = "config"
  /\ \/ Goto(c, "answer") /\ StartAttempt(c) /\ UNCHANGED reply
     \/ Throws(c) /\ UNCHANGED publishVars
  /\ UNCHANGED <<telemetryOn, route, found, serverExits, writerVars, rowVars>>

\* Mutant: publishSeekProcessedEvent is awaited before the answer is sent.
AnswersAfterPublish(c) ==
  /\ stage[c] = "answer"
  /\ publish[c] \in {"none", "published", "gave_up"}
  /\ Goto(c, "done") /\ reply' = [reply EXCEPT ![c] = "plain"]
  /\ UNCHANGED <<telemetryOn, route, found, serverExits, publishVars, writerVars,
                 rowVars>>

\* A credential is sealed already; a declined request is answered openly.
SealedAs(c) ==
  IF found[c] = "credential" \/ (route[c] = "sealing" /\ found[c] # "declined")
  THEN "sealed" ELSE "plain"

\* The answer is sealed where it has to be and sent.  The key lookup, the
\* sealing and the POST to sender_uri may throw; the HTTP response may not.
Answers(c) ==
  /\ stage[c] = "answer"
  /\ \/ Goto(c, "done") /\ reply' = [reply EXCEPT ![c] = SealedAs(c)]
     \/ /\ route[c] = "callback" \/ (SealedAs(c) = "sealed" /\ found[c] # "credential")
        /\ Throws(c)
  /\ UNCHANGED <<telemetryOn, route, found, serverExits, publishVars, writerVars,
                 rowVars>>

\* The process exits and is started again: calls and publishes in it are lost.
ServerExits ==
  /\ serverExits < MaxServerExits
  /\ serverExits' = serverExits + 1
  /\ stage' = [c \in Call |-> IF stage[c] \in {"resolve", "config", "answer"}
                              THEN "lost" ELSE stage[c]]
  /\ publish' = [c \in Call |-> IF publish[c] \in {"connect", "send", "sent", "pause"}
                                THEN "lost" ELSE publish[c]]
  /\ producer' = "none"
  /\ UNCHANGED <<telemetryOn, route, found, reply, attempt, events, writerVars, rowVars>>

-----------------------------------------------------------------------------
(* publishSeekProcessedEvent, which runs beside the answer.                *)

\* The connection attempt, with the creation of the topics before it, ends.
ProducerSettles ==
  /\ producer = "connecting"
  /\ producer' \in {"ready", "rejected"}
  /\ UNCHANGED <<telemetryOn, serverVars, publish, attempt, events, writerVars, rowVars>>

\* Mutant: the loop's bound is not looked at.
AttemptFailsAlwaysRetries(c) ==
  publish' = [publish EXCEPT ![c] = "pause"]

\* An attempt failed: pause before the next one, or give up and log the alert.
AttemptFails(c) ==
  publish' = [publish EXCEPT ![c] = IF attempt[c] < MAX_ATTEMPTS THEN "pause" ELSE "gave_up"]

ProducerAwaited(c) ==
  /\ publish[c] = "connect"
  /\ \/ producer = "ready" /\ publish' = [publish EXCEPT ![c] = "send"]
     \/ producer = "rejected" /\ AttemptFails(c)
  /\ UNCHANGED <<telemetryOn, serverVars, attempt, producer, events, writerVars, rowVars>>

EventPersists(c) ==
  /\ publish[c] = "send"
  /\ Len(events) < MaxEvents
  /\ events' = Append(events, c)
  /\ publish' = [publish EXCEPT ![c] = "sent"]
  /\ UNCHANGED <<telemetryOn, serverVars, attempt, producer, writerVars, rowVars>>

\* The broker's response was lost and the producer, which is not idempotent,
\* sends the same event again.
EventResent(c) ==
  /\ publish[c] = "sent"
  /\ Len(events) < MaxEvents
  /\ events' = Append(events, c)
  /\ UNCHANGED <<telemetryOn, serverVars, publish, attempt, producer, writerVars,
                 rowVars>>

\* Mutant: send is not awaited.
SendNotAwaited(c) ==
  /\ publish[c] \in {"send", "sent"}
  /\ publish' = [publish EXCEPT ![c] = "published"]
  /\ UNCHANGED <<telemetryOn, serverVars, attempt, producer, events, writerVars, rowVars>>

SendConfirmed(c) ==
  /\ publish[c] = "sent"
  /\ publish' = [publish EXCEPT ![c] = "published"]
  /\ UNCHANGED <<telemetryOn, serverVars, attempt, producer, events, writerVars, rowVars>>

\* producer.send throws, whether or not the event was persisted: its own retries
\* ran out, or the broker, though in reach, answered with an error.
SendFails(c) ==
  /\ publish[c] \in {"send", "sent"}
  /\ AttemptFails(c)
  /\ UNCHANGED <<telemetryOn, serverVars, attempt, producer, events, writerVars, rowVars>>

\* RETRY_DELAY_MS is over.
Retries(c) ==
  /\ publish[c] = "pause"
  /\ StartAttempt(c)
  /\ UNCHANGED <<telemetryOn, serverVars, writerVars, rowVars>>

-----------------------------------------------------------------------------
(* The telemetry consumer.                                                 *)

\* Mutant: fromBeginning: false.
WriterStartsAtEnd ==
  /\ writer = "down"
  /\ writer' = "idle"
  /\ position' = IF committed = 0 THEN Len(events) ELSE committed
  /\ UNCHANGED <<telemetryOn, serverVars, publishVars, committed, writerExits, tried,
                 rowVars>>

\* fromBeginning: true; a group without an offset starts with the first event.
WriterStarts ==
  /\ writer = "down"
  /\ writer' = "idle"
  /\ position' = committed
  /\ UNCHANGED <<telemetryOn, serverVars, publishVars, committed, writerExits, tried,
                 rowVars>>

TakesEvent ==
  /\ writer = "idle"
  /\ position < Len(events)
  /\ writer' = "response"
  /\ UNCHANGED <<telemetryOn, serverVars, publishVars, position, committed, writerExits,
                 tried, rowVars>>

\* The event being projected.
Current == events[position + 1]

\* eachMessage returns: the event counts as resolved.
EventDone ==
  /\ writer' = "idle"
  /\ position' = position + 1
  /\ tried' = tried \cup {position + 1}

\* An insert: its row is there and the next write begins, or it throws, with
\* or without its row, and the catch logs that and returns.
Insert(rows, next) ==
  /\ \/ /\ rows' = [rows EXCEPT ![Current] = @ + 1]
        /\ next
     \/ /\ rows' \in {rows, [rows EXCEPT ![Current] = @ + 1]}
        /\ EventDone

Goes(w) == writer' = w /\ UNCHANGED <<position, tried>>

\* writeFarmerTransparency does nothing for an event without farmerIds.
WritesResponse ==
  /\ writer = "response"
  /\ Insert(responseRows,
            Goes(IF found[Current] \in NamesFarmers THEN "sharing" ELSE "telemetry"))
  /\ UNCHANGED <<telemetryOn, serverVars, publishVars, committed, writerExits,
                 sharingRows, telemetryRows>>

\* Mutant: a transparency insert that throws is skipped, not fatal.
WritesSharingBestEffort ==
  /\ writer = "sharing"
  /\ \/ sharingRows' = [sharingRows EXCEPT ![Current] = @ + 1]
     \/ UNCHANGED sharingRows
  /\ Goes("telemetry")
  /\ UNCHANGED <<telemetryOn, serverVars, publishVars, committed, writerExits,
                 responseRows, telemetryRows>>

WritesSharing ==
  /\ writer = "sharing"
  /\ Insert(sharingRows, Goes("telemetry"))
  /\ UNCHANGED <<telemetryOn, serverVars, publishVars, committed, writerExits,
                 responseRows, telemetryRows>>

\* Mutant: an error of the last write is rethrown, and the event comes again.
WritesTelemetryRethrows ==
  /\ writer = "telemetry"
  /\ \/ Insert(telemetryRows, EventDone)
     \/ Goes("idle") /\ UNCHANGED telemetryRows
  /\ UNCHANGED <<telemetryOn, serverVars, publishVars, committed, writerExits,
                 responseRows, sharingRows>>

WritesTelemetry ==
  /\ writer = "telemetry"
  /\ Insert(telemetryRows, EventDone)
  /\ UNCHANGED <<telemetryOn, serverVars, publishVars, committed, writerExits,
                 responseRows, sharingRows>>

\* Mutant: an event is committed as soon as it is taken.
CommitTaken ==
  /\ writer # "down"
  /\ committed' = IF writer = "idle" THEN position ELSE position + 1
  /\ UNCHANGED <<telemetryOn, serverVars, publishVars, writer, position, writerExits,
                 tried, rowVars>>

CommitEvents ==
  /\ writer = "idle"
  /\ committed < position
  /\ committed' = position
  /\ UNCHANGED <<telemetryOn, serverVars, publishVars, writer, position, writerExits,
                 tried, rowVars>>

WriterExits ==
  /\ writer # "down"
  /\ writerExits < MaxWriterExits
  /\ writerExits' = writerExits + 1
  /\ writer' = "down"
  /\ position' = 0
  /\ UNCHANGED <<telemetryOn, serverVars, publishVars, committed, tried, rowVars>>

-----------------------------------------------------------------------------
HandlerStep(c) == Resolves(c) \/ BuildsEvent(c) \/ Answers(c)

WriterStep ==
  WriterStarts \/ TakesEvent \/ WritesResponse \/ WritesSharing \/ WritesTelemetry

Next ==
  \/ \E c \in Call :
       \/ Begin(c) \/ Resolves(c) \/ BuildsEvent(c) \/ Answers(c)
       \/ ProducerAwaited(c) \/ EventPersists(c) \/ EventResent(c)
       \/ SendConfirmed(c) \/ SendFails(c) \/ Retries(c)
  \/ ServerExits \/ ProducerSettles
  \/ WriterStarts \/ TakesEvent
  \/ WritesResponse \/ WritesSharing \/ WritesTelemetry
  \/ CommitEvents \/ WriterExits

Spec == Init /\ [][Next]_vars

(***************************************************************************)
(* Fairness.  The process that answers goes on and what it awaits answers  *)
(* or fails; the telemetry consumer runs, is started again, and is let     *)
(* into its group by the broker in the end.  Nothing is assumed of the     *)
(* publisher, which runs beside the answer.                                *)
(***************************************************************************)
FairSpec ==
  /\ Spec
  /\ \A c \in Call : WF_vars(HandlerStep(c))
  /\ WF_vars(WriterStep)

-----------------------------------------------------------------------------
Answered == {c \in Call : reply[c] \in {"plain", "sealed"}}

OnTopic(c) == \E i \in 1..Len(events) : events[i] = c

(***************************************************************************)
(* eventProducer.js:22-28: with telemetry on, an answer leaves without its *)
(* event reaching the topic only while the publish is still under way, or  *)
(* after every attempt of the bounded retry failed, or because the process *)
(* exited.  No other path answers unaudited.                               *)
(***************************************************************************)
NoSilentAuditLoss ==
  \A c \in Answered :
    telemetryOn /\ ~OnTopic(c) =>
      \/ publish[c] \in {"connect", "send", "pause"}
      \/ publish[c] = "gave_up" /\ attempt[c] = MAX_ATTEMPTS
      \/ publish[c] = "lost" /\ serverExits > 0

(***************************************************************************)
(* telemetry/consumer.js:69-84: the three tables are written in order, so  *)
(* for every call a later table never holds more rows than an earlier one, *)
(* whatever insert failed and however often the event was delivered.       *)
(***************************************************************************)
ProjectionsInOrder ==
  \A c \in Call :
    /\ sharingRows[c] <= responseRows[c]
    /\ telemetryRows[c] <= responseRows[c]
    /\ found[c] \in NamesFarmers => telemetryRows[c] <= sharingRows[c]

(***************************************************************************)
(* A call is written more than once to the tables only for the copies of   *)
(* its event and the incarnations of the telemetry consumer: an insert     *)
(* that throws is not repeated.                                            *)
(***************************************************************************)
RowsBounded ==
  \A c \in Call :
    responseRows[c] <=
      Cardinality({i \in 1..Len(events) : events[i] = c}) * (1 + writerExits)

Group == INSTANCE AtLeastOnce
  WITH sent <- Len(events), base <- 0, acked <- committed, handled <- tried,
       FromBeginning <- TRUE

(***************************************************************************)
(* telemetry/consumer.js:46-51, :69-88: across exits of the consumer,      *)
(* events are taken in order from the first one on, none is passed over,   *)
(* and the committed offset passes only events whose projection ended, so  *)
(* that an exit loses none.                                                *)
(***************************************************************************)
TakesEventsAtLeastOnce == Group!Spec

(***************************************************************************)
(* resolveAndPublish.js:52-55: the event "must never delay or fail the     *)
(* caller": every call ends although nothing is assumed of its publish.    *)
(***************************************************************************)
AnswerNeedsNoPublish ==
  \A c \in Call : stage[c] = "resolve" ~> stage[c] \in {"done", "lost"}

(***************************************************************************)
(* telemetry/consumer.js:46-51: no event is skipped: every event on the    *)
(* topic is projected, or tried to be, in the end.                         *)
(***************************************************************************)
EveryEventTaken ==
  \A i \in 1..MaxEvents :
    i <= Len(events) ~> i \in tried

(***************************************************************************)
(* telemetry/consumer.js:121-122 quotes the design: "Create farmer         *)
(* transparency entries only when data was actually shared."  So a call    *)
(* that ended in an error has none.                                        *)
(***************************************************************************)
SharedOnlyIfAnswered ==
  \A c \in Call : reply[c] = "error" => sharingRows[c] = 0
=============================================================================
