# TLA+ models and proofs for the AgriStack data provisioning APIs

This directory specifies the concurrent and failure-prone parts of the data
provisioning engine in `src/`: seek intake and de-duplication, the Kafka path
and its consumer, the audit trail, the Redis caches in front of ClickHouse,
token verification, the routes and their guards, the resolution of a seek and
what its audit event says of it. Every definition is read off the JavaScript; the
README and comments of the code are used only as the source of what is promised.
`PROJECT.json` maps each definition to the lines it models.

Line numbers below are in `src/src/` unless a path says otherwise; "README" in
a property's comment is `src/README.md`.

## 1. The system

Three Node processes run from one image (`src/docker-compose.yml`), each in a
container of its own and restarted when it exits: the API, the seek consumer and
the telemetry consumer. They share a Redis, a Kafka cluster and ClickHouse.

    AIU --v1/v2----------------> API: verifyToken -> handler -> dedup key -+-> Kafka seek topic -> seek consumer --POST--> sender_uri
    APISIX --gateway key, state--^                                         +-> in process / v2 answer
                   resolveAndPublishSeek -> resolver -> GraphQL APIs -> ClickHouse
                                         -> seek-processed topic -> telemetry consumer -> 3 tables

| Component | State it keeps | Operations | Talks to |
|---|---|---|---|
| v1/v2 seek handlers (`seek/`) | none of its own; a suspended handler per call | `handleAsyncSeek`, `handleSync` through two doors | dedup, producer, resolver, caller |
| De-duplication (`orchestrator/transactionDedup.js`) | a Redis key per transaction_id with a TTL | SET NX EX; unawaited audit insert | Redis, ClickHouse |
| Producer (`kafka/producer.js`, `ensureTopics.js`) | `producerPromise` | lazy connect, send | broker |
| Seek consumer (`kafka/consumer*.js`) | position; committed offset at the broker | start, `eachMessage`, commit, exit | broker, resolver, `sender_uri` |
| Audit event (`telemetry/resolveAndPublish.js`, `eventProducer.js`, `eventBuilder.js`) | its own `producerPromise`; publishes under way | resolve, build, bounded publish | broker, caches |
| Telemetry consumer (`telemetry/consumer*.js`) | position; committed offset | start, three inserts per event, commit, exit | broker, ClickHouse |
| Config caches (`config/*`, `encryption/keyRegistry.js`, `orchestrator/sdjwtConfig.js`) | a Redis key per row, sentinel for "no row" | read-through lookup | Redis, ClickHouse, administrator |
| Token verification (`auth/`) | cached verdicts, subject mapping (Redis over ClickHouse), service token | `verifyToken` in two modes, learning | Network Manager, Redis, ClickHouse |
| Gateway door and routes (`auth/verifyGatewayKey.js`, `index.js`) | the list of keys read when the process starts | which routes exist; key, state and token checks in order; a key rotation with its restarts | APISIX, operator, handlers |
| Local-only guard (`auth/localOnly.js`) | none | refuses `/graphql/*` to peers that are not loopback | orchestrator, in either container |
| Profile resolution (`orchestrator/`, `graphql/`, `utils/graphqlFields.js`) | none; a loop over farmers | authorize, config, 1 + 2n queries | GraphQL APIs, ClickHouse |
| SD-JWT resolution (`orchestrator/resolveSdjwtSeek.js`) | none | authorize, fetch, seal | credential service |
| Response sealing (`encryption/envelopeEncrypt.js`) | none | unwraps the encodings of a key, seals or throws | handlers, SD-JWT flow |
| Header validation, error envelope | none | predicates on one request | - |

What makes it hard: handlers interleave at every `await`; Redis keys expire
under calls in flight; the broker's response is lost after it persisted a message; a
process exits between two steps and its unawaited work with it; the tables
change between the queries of one call; caches answer with what used to be
true; a setting is the one the process was started with; the process that
resolves a call need not be the one that serves the tables. The properties asked
of each part are in section 4, the hazards with their lines in `PROJECT.json`.

## 2. Modules

| Module | Models | Notes |
|---|---|---|
| `SeekTopic` | the single-partition topic, the form of a call | shared by intake and consumer |
| `TransactionDedup` | the Redis key and the audit insert | `window[t]` counts lifetimes of a key; history |
| `SeekIntake` | both handlers and the producer in the API process | one action per stretch between awaits |
| `SeekConsumer` | the consumer process | `eachMessage` and its catch, offset commits |
| `SeekPipeline` | the composition of the four above | `Spec`, `FairSpec`, all end-to-end properties |
| `SeekContract` | what the seek path promises a caller | abstract; five actions, no processes; three consequences stated in it |
| `AtLeastOnce` | what a consumer group promises of its topic | abstract; implemented by both consumers |
| `StaleRegister` | what a cached lookup promises | abstract; implemented by each of the four caches |
| `SeekAudit` | the audit events of calls, from resolution to the three tables | composes handler, publisher, topic, writer |
| `ConfigCache` | one key of any of the four read-through caches | with clock, row changes, manual deletes |
| `TokenAuth` | `verifyToken` in both modes | Network Manager external |
| `SeekDoors` | routes, gateway key and state, guard of the GraphQL endpoints, containers | the operator's key rotation and APISIX are external |
| `KeyForms` | `toPemPublicKey` | operators only |
| `SeekQuery` | one resolution, either flow | with table changes between queries; extends `KeyForms` |
| `SeekDisclosure` | the event built from that resolution, and its transparency rows | composes `SeekQuery` with event builder and writer |
| `SeekPipelineProofs`, `SeekContractProofs`, `SeekAuditProofs`, `ConfigCacheProofs`, `TokenAuthProofs`, `SeekDoorsProofs`, `SeekQueryProofs`, `SeekDisclosureProofs` | theorems | see section 6 |
| `MC*` | instances for TLC | constants only |

Actions carry the name of the step in the code. Every action ends where the
code reaches an `await` whose interleaving matters; what runs without
interruption is one action. Operators called `... Mutant:` in their comment are
deliberately wrong variants of the next definition, kept to show that a
property notices the bug; no specification uses them.

Correspondence of state, where it is not the obvious one:

- `producer` (`SeekIntake`, `SeekAudit`) is `producerPromise`: none, pending,
  fulfilled, rejected. Nothing in the code resets a rejected one.
- `worker`/`writer`, `position`: kafkajs's loop. `eachMessage` returning is what
  resolves an offset; commits happen between messages.
- `window`, `seenIn`, `handled`, `posts`, `tried`, `superseded`, `confirmed`,
  `recorded`, `validated`, `verified`, `matched`, `reads`, `early`, `late` are
  history: no guard reads them to decide what the code does.
- `lookup.sentinel` (`ConfigCache`) is what each function stores for "no row":
  the text `null`, `"0"` or the empty string.
- `learning` (`TokenAuth`) is the unawaited `recordConfirmedSubject`; it dies
  with the process. `tied` are the verdicts whose TTL was computed from the
  token's own life, as opposed to the cap.
- `env`, `loaded` (`SeekDoors`) are `GATEWAY_API_KEYS` in `.env` and as the running
  process split it at its start; `Blank` is an empty entry, setting or header. The
  operator does what `verifyGatewayKey.js:9-11` says and no more: a key is added,
  APISIX switches to any key in `.env`, another one is removed; restarts come at any
  time and nobody waits for calls on their way. `early` are the keys APISIX was
  given before a restart loaded them, `late` the calls whose key a restart forgot.
- A key (`KeyForms`) is the list of its encodings from the outside in, so peeling
  one off is `Tail`, and what `Buffer.from(text, 'base64')` makes of something that
  is not base64 is `noise`.
- `event`, `sharingRows` (`SeekDisclosure`): the event's list of ids and map of
  payloads are indexed by the entry each comes from; the consumer's `Map` keeps one
  payload per id, whichever comes last in ClickHouse's order.
- `items` (`SeekQuery`) is `seek_response`, indexed by the matched row instead
  of by position, and each list of records by the row it came from: their order
  is ClickHouse's and nothing depends on it.

External, modelled from how the code uses them: Redis (atomic commands, EX),
the broker (persist, lost response), kafkajs (resends, commits), the Network
Manager, ClickHouse, the administrator, process exit and restart. The broker has no
state "absent": any connection attempt and any send may fail at any time, with the
broker in reach or not (not the leader, a timeout, no authorization), and nothing it
does has to happen. An absent broker is one that only fails.

## 3. Plan

The order was: (1) the seek path, since an acknowledged call must not be lost or
done twice; (2) the audit trail of an answer; (3) what decides who may read: doors,
caches and tokens; (4) what is read, and what the audit trail says of it; (5) for
each, the theorems, the refinement of the contract last; (6) the abstract
specifications of the two consumers and the caches with their refinements, and
theorems that say how far each disagreement reaches. What is left:

1. the composition of `SeekQuery` with `ConfigCache`: the mapping and the config of
   one call are two lookups, and the event's `sharedData` comes from a third, each of
   which may see another state of its row;
2. the first connection of the redis client, whose promise is latched like the
   producers';
3. `SeekPipeline` with `SeekAudit`: a call redelivered by the seek topic publishes a
   second event, which `SeekAudit` knows only as a second copy of the first.

## 4. Runs and properties

`pipeline` (420 K states; two calls with one transaction_id, through either door; a
log of 2, one key expiry, one resend, one exit of each process; any connection
attempt and send may fail):

- `AdmittedOncePerWindow`, `RefusalIsJustified`: at most one call per id and key
  lifetime is let in; every 409 has another call to blame.
- `NoDuplicateReachesQueue`, `AckMeansQueued`, `QueuedAreDeliverable`: what an
  ACK and the topic mean.
- `RedeliveryBounded`, `CommitNeverPassesUnhandled`: the consumer repeats a
  delivery only across its exits and never commits past an unhandled message.
- `KeepsContract`: the pipeline implements `SeekContract` under the mapping in
  `SeekPipeline` (an id's holder is the admitted call of the key's lifetime).
- `ConsumesAtLeastOnce`: the topic and the consumer process implement `AtLeastOnce`
  with `FromBeginning` false: in log order, offset after handler, and offsets are
  passed over by a group that has none yet only (`consumer.js:26`). That such a group
  does so after a crash too is against `consumer.js:14-15`: `restart_without_offset`.
- Under `FairSpec`, `EveryCallAnswered` and `QueuedEventuallyHandled`, in the same
  instance: with exits of the API, lost responses and a rejected producer.

Two calls are what it takes for one id to be used twice. They differ in nothing but
how they arrive, so arrivals that only exchange them are left out (`MCOneOrder`); no
fairness condition is about arrivals. Two messages on the log are one of each call,
if a key expires between them, or one call twice; a consumer that is at the second
has committed the first or not. One exit of each process puts a restart at every
point of a behaviour; the theorems have any number of each.

`audit` (277 K states; one call of every route and outcome, two copies of an event,
one exit of each process; any publish attempt may fail): `NoSilentAuditLoss`,
`ProjectionsInOrder`, `RowsBounded`, and under fairness `AnswerNeedsNoPublish`
and `EveryEventTaken`; `TakesEventsAtLeastOnce`, the same `AtLeastOnce` with
`FromBeginning` true, in which no event is passed over. One call is enough for the
tables, whose rows are per call; calls share the producer, which the call finds in
any state after a restart or a failure of its own first attempt, and the topic. The
theorems have any number of calls.

`cache` (498 K states; two lookups, two changes of a row, deletes, TTL 2, latency
1, five ticks): `AnswerMatchesRow`, `StalenessBounded` for all four encodings;
`QueriesPredateEntry`, what a stored answer spares: a call that queries ClickHouse
while the key exists began by the time the entry was stored, having missed before
another call's fill; `IsStaleRegister`, the refinement of `StaleRegister`: a lookup
with its Redis and ClickHouse steps is one atomic read of a state that is current or
was replaced no longer than TTL + latency ago. Two lookups are enough for a late fill
over a newer one; the clock outlasts two lifetimes of an entry. The theorems need none
of these bounds.

`auth` (186 K states; two requests, one token, two sender_ids of which one is
right, one restart): `LocalTrustsOnlyConfirmed`, `PassesOnlyValidated`,
`CacheBehindTable`, and under fairness `VerificationEnds`. The restart may change
the mode, so that what introspect mode learned is used by local mode.
`PassesOnlyValidated` is about the token alone; for the pair of token and sender_id
see `verdict_for_its_sender`. The type invariant is a theorem (`AuthTypeCorrect`).

`doors` (698 K states; one call, two keys, two states, three restarts, every setting
and layout): `RefusedOnlyEarlyOrLate`, `GatewayIsNoShortcut`,
`TablesReadForVerifiedCalls`, `UnreachableOnlyMisplaced`. No step of a call looks at
another call, so one is enough; two keys and three restarts are a gateway that is
connected and then has its key rotated, with a restart at every point of it.

`query` (1.67 M states; every `query_param` of up to two entries over four fields,
eight configs, mapped or not, flagged or not, two row changes during the call):
`Entitled`, `LandBelongsToFarmer`, `NoPartialAnswer`, `AnswerIsJoin`, and, with the
audit event, `EveryKeyFormSeals` and `RowsTellWhatWasShared`. Keys come in the four
documented forms, with a layer more, a layer too many, or as no key. Two entries
suffice for a repeated field and for a field of each of two profiles; two row
changes fit between the three queries of a farmer. Two rows of one farmer give an
answer with two entries of one id.

Each passing run but `auth` also has the type invariant of its module. Deadlock is not
looked for where calls end for good (`pipeline`, `audit`, `doors`, `query`); `cache` and
`auth` never stop, and there it is.

### Disagreements found

Six runs state what a comment or the README says and end in a counterexample.

| Run | What the text says | What happens |
|---|---|---|
| `retry_after_502` | `asyncHandler.js:47` "The caller should retry the seek call" | The failed call keeps its dedup key; the retry gets 409 for the key's lifetime |
| `commit_after_failure` | `consumer.js:15-16`, the offset advances only "after the try block below finishes without throwing" | The catch swallows, `eachMessage` completes, the offset is committed |
| `restart_without_offset` | `consumer.js:14-15` "a message that's on Kafka survives a consumer crash", `src/README.md:282-284` | With `fromBeginning: false` (`:26`) a consumer that exits before its group's first commit starts again at the end of the topic |
| `shared_then_failed` | `telemetry/consumer.js:121-122`, transparency rows "only when data was actually shared" | The event is published before sealing; a call that ends in a 500 still gets rows |
| `verdict_for_its_sender` | `introspect.js:4-6`, `src/README.md:197-203` and `:629-631`, a token is checked for the sender_id the request claims | The verdict is cached per token (`introspectCache.js:39`), so a request that names another sender_id passes on it |
| `payload_of_its_row` | `telemetry/consumer.js:125-127` "each row gets its own matching payload, not a shared/duplicated one" | The map is keyed by `frCentralId`; two entries of one farmer share the later payload |

Each run has a property that passes beside it and says what does hold:
`NoDuplicateReachesQueue`, `CommitNeverPassesUnhandled`, `ConsumesAtLeastOnce`,
`ProjectionsInOrder` (and the theorem `SharedRowsExplained`), `PassesOnlyValidated` and
`RowsTellWhatWasShared`.

Settled by a theorem instead of a run:

- A failed first connection stays in `producerPromise` for the rest of the process's
  life, in `kafka/producer.js` and in `telemetry/eventProducer.js`. From then on
  nothing is added to either topic (`RejectedProducerStopsQueue`,
  `RejectedProducerStopsAudit`): every v1 call gets a 502 however the broker is, so
  the retry of `src/README.md:273-275` is in vain even with a new transaction_id, and
  so is the retry of the publish.
- `localOnly.js:7-8`, "The orchestrator reaches them over 127.0.0.1, i.e. from this
  same process.": with Kafka the seek consumer resolves, by `docker-compose.yml` in a
  container where nothing listens on 127.0.0.1; by the API's service name it is no
  loopback peer. `UnreachableOnlyMisplaced` (`MisplacedOnly`) says that these are the
  only cases, `OneHostReaches` where the comment is right.
- `verifyGatewayKey.js:9-11` and `src/.env.example:124-125` have a key rotated "without
  downtime" by adding, switching and removing. The list is read when the process
  starts, so these steps alone refuse calls; `WhomRotationRefuses` says which, and
  `CarefulRotationRefusesNobody` which restarts and waits make it true.
- `serviceConfig.js:21-23` has a deleted key apply "immediately"; a lookup in flight
  may still store the old state (`:68`). `StalenessBounded` has the bound that holds,
  and `DeletedKeyStaysFresh` the condition under which the comment is right.

Noted only:

- `introspectCache.js:14-16` caches a verdict "never longer" than the token's life;
  when no life is left, the TTL is the cap (`:45`).
- An error body of the Network Manager without `is_valid` is cached as a refusal.
- The README gives 48 h for `CONFIG_CACHE_TTL_MS`, the code 24 h; and it allows "any
  combination" of inputs, while a `query_param` with land fields only is refused with
  MISSING_INPUT.
- A config whose `farmerData` omits `frCentralId` but which has land attributes makes
  every matching call fail; one without land attributes discloses records that no
  transparency row names; one without `farmerData` always answers with an empty success.

## 5. Fairness

Weak fairness, and only of what runs by itself: a suspended handler is resumed
(the event loop), what it awaits answers or fails, kafkajs calls the next
`eachMessage`, an exited process is started again (`restart: unless-stopped`) and
the broker lets a consumer into its group in the end. A send that always fails is a
fair behaviour: it ends in a 502, or in the alert of `eventProducer.js:45`. Nothing obliges
a caller to call, a key to expire, the audit insert or the event's publish to end, an
offset to be committed or anything to fail. The POST to `sender_uri`, `callGraphQL` and the introspection
have no timeout in the code, so "answers or fails" is an assumption about the
peer; without it one silent receiver holds up the only partition.

`SeekQuery`, `SeekDisclosure`, `ConfigCache` and `SeekDoors` have safety properties
only: what ends their calls is in `SeekPipeline` and `TokenAuth`.

## 6. What is proved

For all constants, under the assumptions named in the modules (bounds are
natural numbers, `TxnOf` maps calls to ids, and so on).

`SeekPipelineProofs`: `Spec => []` of `TypeOK`, `AdmittedOncePerWindow`,
`RefusalIsJustified`, `AckMeansQueued`, `NoDuplicateReachesQueue`,
`QueuedAreDeliverable`, `RedeliveryBounded`, `CommitNeverPassesUnhandled`. The
inductive invariant `IInv` has these parts, each needed by the next:

- `ConsumerInv`: `PositionInv`, positions and offsets stay on the log; `PostsInv`,
  what this instance has not resolved was posted only by earlier ones;
  `HandledInv`, everything up to the position and the commit was handled.
- `DedupInv`: `KeyInv`, a key exists exactly if a call of the current window took
  it, without which "one per window" is not inductive; `DecisionInv`, verdicts are
  of windows that have begun.
- `IntakeInv`: `StageInv`, what a handler knows at each stage; `QueueInv`, what is
  on the topic was let in and its handler is past the decision. Its proof goes call
  by call: a step of one handler leaves the other calls' parts untouched.

`SeekContractProofs`: `Spec => KeepsContract`, the refinement of `SeekContract`. On top
of `IInv` it needs `AnswerInv`, which answers a call can still have at its stage (only
v2 is answered with the result or a 500, and then never called back), and
`PostsOnLog`, that the consumer posts nothing but messages that are there. A `SET NX`
that takes the key is `TakeUp`: `KeyInv` says that nobody of this window held the id
before. A refused one is `TurnAway`, an expiry is `Release`, a successful POST is
`Deliver`, an answer is `Reply`; every other step is a stutter, exits included.

What the contract promises is proved of the contract's steps and carried over the
refinement (`Promises`): a refused call gets its 409 and never a callback
(`RefusedCallsGetNothing`), nobody is served both ways (`CallsServedOneWay`), an answer
is final (`AnsweredOnce`). With `AdmittedOncePerWindow` it follows that at most one of
the calls with one id is called back per lifetime of the key (`CallbacksAreOfOneCall`).

The handlers share one promise. `HandlersAwaitProducer` says that one that is awaited was
made, and that a handler that sends has a connection (`NobodyWaitsInVain`); so while the
promise is a rejected one nobody sends, and nothing is added to the topic
(`RejectedProducerStopsQueue`).

The topic with its consumer implements `AtLeastOnce` (`PipelineConsumesAtLeastOnce`).
`HandledInv` says that everything up to the position was handled; `OffsetsInv` orders
the numbers: what was passed over ends at or before the committed offset, once there is
one, and a running instance is behind neither. Without it a restart could pass over
more while an offset exists, and a commit could go backwards. For a group that has an
offset from the start, `EstablishedGroupLosesNothing` takes a call all the way: once
acknowledged it is on the topic, handled or still ahead of the offset.

`SeekAuditProofs`: `TypeOK`, `NoSilentAuditLoss`, `ProjectionsInOrder` and
`RowsBounded`, for any number of calls that share the producer and the topic.
`PublishOK` says what is known of a call's event at each stage of call and publish;
`OrderOK` that the tables are in order, strictly where a row is still to come; and
`CountOK`, the strengthening of `RowsBounded`, counts the copies of a call's event up
to the consumer's position and adds one row for each copy and earlier incarnation. `TakenInv`, that everything up to
the committed offset and the position was tried, gives the refinement of `AtLeastOnce`
(`AuditTakesAtLeastOnce`). `PublisherInv`, that a publish that sends has a connection,
gives `RejectedProducerStopsAudit`: after a failed first connection the second attempt
cannot succeed either. `SharedInv` says which calls have an event with ids and how an
errored one ended; hence the rows of `shared_then_failed` belong to calls that found
farmers and failed in sealing or at the callback, and to no others
(`SharedRowsExplained`).

`ConfigCacheProofs`: `TypeOK`, `AnswerMatchesRow`, `QueriesPredateEntry`
(`EntrySparesClickHouse`) and `StalenessBounded`, for any number of concurrent lookups, changes and ticks. `CacheInv` says that an
entry is current, or expires at most TTL + MaxLatency after its state was replaced
(`EntryInv`); that a lookup began at most MaxLatency ago (`ClockInv`); and that the
state its query saw was not replaced before it began (`QueryInv`). A fill turns the
last two into the first. They also give the refinement of `StaleRegister`
(`CacheIsStaleRegister`): the answer is fixed by the step in which the call returns,
where the state it returns is within the bound; every step on the way there is a
stutter. `Fresh`, that neither the key nor a query about to be stored has an old state,
is kept by every step but a change of the row, which makes `DeletedKeyStaysFresh`.

`TokenAuthProofs`: `TypeOK`, `LocalTrustsOnlyConfirmed`, `PassesOnlyValidated` and
`CacheBehindTable`, for any number of requests, tokens, accounts and restarts.
`StoreInv` says that what is stored was confirmed before: every row, the Redis key in
front of it, every mapping being learned and every cached "valid"; `StageOK` carries
it along a request's own stages. Trust in local mode is then confirmation in either.

`SeekDoorsProofs`: `TypeOK`, `RefusedOnlyEarlyOrLate`, `GatewayIsNoShortcut`,
`TablesReadForVerifiedCalls` and `UnreachableOnlyMisplaced`, for any keys, states, calls
and restarts. `KeysInv` says that the key APISIX has, and that of every call on its way,
is known to the running process, unless APISIX had it early or the call is late; hence
whom a rotation refuses (`WhomRotationRefuses`), and that one in which neither occurs
refuses nobody (`CarefulRotationRefusesNobody`).
`StageInv` is what the checks behind a call have established. `MisplacedOnly` says which
calls do not reach the endpoints: those of a consumer in a container of its own, and
those sent to a host name with the guard on; so on one host, or without Kafka, the
comment in `localOnly.js` is right (`OneHostReaches`).

`SeekQueryProofs`: `TypeOK`, `Entitled`, `LandBelongsToFarmer`, `NoPartialAnswer`,
`AnswerIsJoin` and `EveryKeyFormSeals`, for any rows, requests and configs and any
number of table changes. `QInv` says that a stage is reached only by a sender with the
mapping, flow and config it needs (`FlowInv`, `ReadInv`); that every matched farmer is
in the list, in hand or has an entry, which makes an answer whole when the list is empty
(`LoopInv`); and that the entry in hand has the profiles fetched so far, each with that
farmer's rows only (`EntryInv`). The tables do not occur in it: what was selected with a
farmer's id stays that farmer's when the rows change. `JoinInv` adds that while no table
has changed, what is matched and collected is the join. It rests on a lemma that the
filter, in which a later entry for a field replaces an earlier one, selects the rows
that agree with the last entry for each field; that there is a last one is an induction,
taken from the well-founded order on the positions after it.

`SeekDisclosureProofs`: every behaviour with the audit event is one of `SeekQuery`
(`DisclosureIsQuery`), so all of the above holds of it, and `RowsTellWhatWasShared`.
`EventInv` says that the event is the finished answer's, which no step changes any more.

Every invariant and every action property of the passing runs is a theorem, and so
are the four refinements they check.

Only model-checked: what needs fairness (`EveryCallAnswered`,
`QueuedEventuallyHandled`, `AnswerNeedsNoPublish`, `EveryEventTaken`,
`VerificationEnds`), since liveness and ENABLED are beyond the prover, and the
disagreements, which are counterexamples.

## 7. What is not modelled

- The texts of headers, queries, events and errors; regular expressions; the
  columns of the tables beyond two or three per profile; ClickHouse's types.
- Cryptography (RSA, AES-GCM, JWT signatures, JWKS download, the constant-time
  comparison of keys): each is an outcome.
- The 30 s margin of `tokenClient.js` before the service token's expiry.
- Listening, body parsing, request logging, image building and volumes.
- The counters and attribute lists that `eventBuilder.js` puts in an event.
- The redis client's connection promise: a rejected command is in the models,
  the wait for the first connection is not.
- Kafka rebalancing and several consumer instances: the code creates one
  partition and one instance per group.
