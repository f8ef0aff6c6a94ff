# faas-matrix in TLA+

A verification development for *faas-matrix*, a Matrix homeserver that runs as
Cloudflare Workers, Durable Objects, Workflows and a D1 database. Paths below are
relative to `src/`; `src/src/` is the server.

| module | what it is |
|---|---|
| `AtLeastOnce` | abstract: what a sender relies on when it hands something to a queue of deliveries |
| `FederationOutbox` | the outbound `FederationDurableObject`, handler by handler |
| `FederationOutboxProofs` | types, no loss, order, refinement of `AtLeastOnce`, deleted EDUs, what is left of a run, wake-ups, for all constants |
| `EventStream` | `storeEvent`, account data positions and the stream queries, statement by statement |
| `IncrementalSyncProofs` | /sync keeps the stream, token never falls, answers cover their snapshot, nothing skipped for one handler |
| `EventStreamProofs` | types, final places, state backed by rows, for all constants |
| `IncrementalSync` | `/sync` and the long poll; extends `EventStream`, so it is the composition of readers and writers |
| `AuthDag` | abstract: an event store that only grows, along its auth chains |
| `FederationInbound` | `PUT /send`: transactions, nested transactions, decisions, rows, state, fanout |
| `FederationInboundProofs` | types, complete and decided answers, backed state, refinement of `AuthDag`, final decisions, accepted events stored, what is left of a handler, for all constants |
| `RemoteJoin` | `RoomJoinWorkflow` step by step, the markers of a partial room in KV and D1, the events that arrive meanwhile |
| `RemoteJoinProofs` | types, completion kept, flag kept, the room stays marked, deferred events due, what is left of a join, the join in effect, for all constants |
| `OneTimeKeys` | uploads, claims and purges of one-time and fallback keys over KV buckets and D1 rows |
| `OneTimeKeysProofs` | types, no key lost, given once, the fallback last, for all constants |
| `ToDevice` | to-device messages: positions, rows, stored answers, what `/sync` gives and marks |
| `ToDeviceProofs` | types, positions, stored answers, tokens, nothing given twice, refinement of `AtLeastOnce`, for all constants |
| `RoomCommands` | the commands of local users on a room through the event pipeline, statement by statement |
| `RoomCommandsProofs` | types, forks, answers in effect, bans, one event per transaction, for all constants |
| `MC...` | symmetry sets and the small instances of the module named |

Run `tlc -config <cfg> <module>` for the runs of section 4, `tlapm <module>` for the proofs.

## 1. Inventory

**Execution model.** A Worker invocation handles one request; invocations share nothing
but the database (D1, every statement or batch atomic, no transaction around several), KV
caches (eventually consistent) and Durable Objects. An invocation may end after any
`await`. A Durable Object is one instance with one thread, durable storage and one alarm;
its input gate keeps other events out while a storage call is pending, and lets them in
while it awaits a `fetch` or a timer.

| component | state | operations | interacts with | what is hard |
|---|---|---|---|---|
| Outbound object, `platform/cloudflare/durable-objects/FederationDurableObject.ts` | queue and EDU keys per destination, a `server:` record (retry count, next retry), the alarm | `/send`, `/send-edu`, `/receive`, `/recover`, alarm | called by the fanout and EDU queues, calls remote servers | overlapping runs for one destination, restarts, lost answers, one alarm for all |
| Event storage, `adapters/db/database.ts`, `account-data-repository.ts` | `events`, `room_state`, `account_data_changes` | `storeEvent`, account data writes, position and range queries | all writers; read by `/sync` | numbers taken before they are visible, several statements without a transaction |
| Incremental `/sync`, `features/sync/projectors/assembler.ts`, `orchestrators/sync-projection.ts` | the client's token only | poll | event storage, `SyncDurableObject` | a snapshot made of separate reads |
| `SyncDurableObject.ts` | waiting requests in memory, pending notifications in storage | `/notify`, `/wait-for-events` | event storage notifies it, `/sync` waits in it | a notification before the wait, timeouts, eviction |
| Inbound federation, `federation/transactions/transaction.ts`, `pdu-ingest.ts` | `federation_transactions`, `processed_pdus`, `events`, `room_state`, memberships | `PUT /send`, nested transactions for missing events | the origin (asked for missing events), event storage, fanout | concurrent handlers of one event, stops between writes, repeated deliveries, recursion |
| Sending events, `send-room-event.ts`, `fetherate/runtime/idempotency.ts` | `transaction_ids` | `PUT /rooms/.../send` | event storage, fanout | look-up, event and record are separate statements; repeated requests |
| Keys, `features/client-keys`, `e2ee-claim-store.ts`, `UserKeysDurableObject.ts` | one-time keys in KV and D1, device keys | upload, claim, query | clients, federation | two stores, read-modify-write of a KV value |
| Joins, `RoomJoinWorkflow.ts`, partial state tracker | workflow steps, KV markers, a record in D1 | join, catch-up, completion | remote servers, event storage, `/sync` | steps run at least once, markers that expire or are stale, events that cannot be judged yet |
| Room commands, `room-service.ts`, `room-membership-policy.ts`, `membership-transition-service.ts` | `events`, `room_state`, `room_memberships` | join, leave, knock, invite, kick, ban, unban | event storage, fanout | authorized on what was read, stored later; a row and a pointer that may differ |
| To-device messages, `features/to-device`, `to-device-repository.ts` | `to_device_messages`, `stream_positions`, `transaction_ids` | `PUT /sendToDevice`, EDUs, `/sync` | federation, `/sync` | positions taken before their rows, acknowledging what was not received |
| Devices, typing, receipts, presence | rows with stream positions, `RoomDurableObject` | updates | `/sync` | last writer wins |
| Push, `PushDurableObject.ts`, rule evaluator | a queue with a retry alarm | deliver | push gateways | as the outbound object |
| Rate limit, admin, calls, OAuth, media, search, dashboards | own rows and objects | | | mostly sequential or I/O |

What makes each correct: the outbox loses nothing, keeps the order of each destination and
goes on retrying; the stream never changes under a reader, and a client that polls sees
everything; an inbound transaction leaves each event decided, a decision stands, an
accepted event is stored, and the store has no hole in its auth chains; a room that is
partial is marked as such until its deferred events are judged, and the joiner is told; a
one-time key is given once; a to-device message reaches its device once; a command that was
answered is in effect, a ban stands, and a transaction id stands for one event. `PROJECT.json`
lists the components with what is left out of each, and every hazard at its line.

## 2. Plan

1. `FederationOutbox` with `AtLeastOnce` (which `ToDevice` implements too) - done. Later: `handleKeys`.
2. `EventStream` and `IncrementalSync` - done. Later: receipt positions, filters.
3. `FederationInbound` with `AuthDag` - done. Later: EDUs; then `FederationExchange`, which
   connects an outbox with the inbound side of another server through transaction ids.
4. `RoomCommands`: the client's transaction id, the pipeline, memberships - done. Later:
   room creation, state events, and a composition with `RemoteJoin` over one set of rows.
5. `OneTimeKeys`: claims and uploads over KV and D1 - done. Later: device keys.
6. `RemoteJoin`: workflow steps that repeat, partial state, deferred events - done. Later:
   the server's side of `make_join` and `send_join`.
7. `ToDevice` - done. Later: device lists, whose stream `/sync` reads in the same way.
8. Next: the federation queue's consumer, the room object, push (its queue and alarm are
   built like the outbound object's), the rate-limit window.
9. Pure algorithms as operators against reference definitions: the other event authorisation
   rules, state resolution, push rules, server ACLs.
10. Theorems to add: those of the modules to come; refinements between models that share rows.

## 3. The models

**FederationOutbox.** `queue`, `edus`, `known`, `retryCount`, `nextRetry` are the object's
storage keys, `alarm` its alarm, `runs` the handlers in progress with the snapshot they
transmit. A handler's storage section is one step, because the input gate makes it one to every
other handler; it is also an `...Interrupted` step that does a part of the writes, in their
order, and restarts the object. Transmission is two steps (`RemoteProcesses`, then
`Acknowledged`, or a failure), so that an answer may be lost after the remote acted. Each
transmission goes under an id (`txn`), the millisecond and the attempt
(`FederationDurableObject.ts:350`): `Draw` takes a new one, or that of another run to the same
destination at the same attempt whose transmission overlaps. The remote answers an id it has
answered before from its cache (`answered`), without processing what came under it, as this
server does itself (`transaction.ts:55`); the run then deletes its snapshot all the same. That
two runs share a millisecond is left open whenever their transmissions overlap. That they share
one when they do not is left out, since a transmission takes longer, and so is a clock set
back. `Forget` drops ids that no run transmits under. `mixed` is history: the items in which
two transmissions under one id differ. Time is in ticks of the base delay. `enqueued` and
`before` are history; `received` is what the remotes processed. PDUs are fanned out to a
destination once, EDU keys are unique: that is the guard of `HandleSend` and `HandleSendEdu`.
`HandleReceive` has no caller in the repository; `Inbound` says which origins post to it. Not
modelled: remote keys (`handleKeys`), status, and content of transactions.

**EventStream.** One room, one state key, the reader's account data. `writers` holds each
handler's place between statements: `StoreEvent`, `LookUp`, `TakeNumber`, `Insert`,
`SetState`, then the notification; `PutAccountData`, `TakePosition`, `PutBatch`. As in the
code, the maximum is read before the insertion in a statement of its own, and the insertion
is `INSERT OR IGNORE`. An event may be stored several times (a retry, a repeated delivery).
`Abandon` is a worker that stops.

**IncrementalSync.** One device of the reader. `request` goes through the position, the
timeline and the account data, then answers or waits. `EventsSince` is `getEventsSince`
with its `LIMIT` (`TimelineLimit`, 100 in the code). What lies before an answer's timeline
counts as covered, since `limited: true` tells the client that events are missing there; its
`prev_batch` is the position the request came with (`sync-projection.ts:374`), so that
paginating back from it does not reach them. What the `LIMIT` cuts off lies behind the
timeline and is not announced. Ephemeral sections of an answer (typing, receipts,
presence) only make a request answer early. `snapshot` is history.

**FederationInbound.** A handler is a stack of `Frame`s, since
`fetchMissingPrevEventsIfNeeded` and `fetchMissingAuthEventsIfNeeded` call
`processFederationTransaction` with what the origin answers. `at` follows
`ingestFederationPdu` from write to write: `record` (`processed_pdus`), `store` (`events`),
`state` and `apply` (`room_state`, twice, as in the code), `forward` (fanout). The outcome of
authorisation by the room's state is the constant relation `Revokes`: which state makes which
event not allowed (`Deferrable`: which of these a partial join puts off), and `Denies` is the
server ACL. An exception in the evaluation accepts the event, as in the code. `Fault` says what
is wrong with an event itself: malformed ("form") and a sender that names no server ("sender")
are answered as rejected without a record in `processed_pdus`, a number outside canonical JSON
and a failed signature or hash check ("flawed") with one. Faults belong to an event id; an
event malformed enough to have no id, which the code answers under "$unknown", is one
of the "form" events here. An event with several `prev_events` merges branches: `Resolve` reads
the state, `WriteResolved` writes the keys of the resolved one, one statement each, and
`EndResolved` ends that or, after an exception, sets the event's own key. How resolution chooses
is left open: for each key nothing, its current event, or for the event's own key the event.
`MissingAnswers` and `AuthAnswers` are what the origin may answer; they may name events that
are being fetched for already, and `fetchMissingAuthEventsIfNeeded` follows them without a
bound. The model follows `MaxDepth` levels and then leaves the handler at the place "lost", from
where only a stop leads on (`LoseTrack`). `Crash` is a worker that stops, or an exception.
Not modelled: EDUs, membership rows (they are in `RemoteJoin`), rooms of unknown version,
several rooms in one transaction.

**RemoteJoin.** `pos[u]` is the statement the workflow of joiner `u` is about to run. The
platform keeps the result of a finished step and starts an unfinished one again from its first
statement: `StepFails` takes `pos` back to there, at most `Retries` times, and then the join
fails. `First` is the answer that omits members, `Full` the state fetched later. Before a
snapshot its auth chain is stored (`PersistAuthChain`), which sets no state: `skipRoomState`.
Otherwise an old leave of the joiner that only the full state's chain holds would take the
room's state back after the join. The snapshot then is written one entry after the other
(`StepEntries`), in any order, and so are the rows restored and the deferred events judged
again. `roomMark`, `joinMark`, `doneMark` are the KV entries, which may expire once the
workflow has ended; `meta` is the record in D1. An event that arrives is accepted (`Accept`;
with a mark to judge it later, if the room is marked and its state does not permit the event)
or rejected (`Reject`); `writer` then holds the handler's membership writes, row and pointer
apart. `TakeCompletion` is the joiner's `/sync`. Not modelled: the choice of servers,
restricted joins, leaving while joining, and bans, whose rows
`restoreDeferredPartialStateMemberships` treats as it does those of leaves
(`federation-handler-service.ts:149`).

**OneTimeKeys.** One device, one algorithm. `bucket` is the KV value, read whole and written
back whole; `row` and `fallback` are D1. `run[r]` holds the statement a request is at and the
bucket it has read. A claim takes a free key of the bucket, marks it in KV and then in D1 with
a roll-back if that fails, or else a free row, or else the fallback key. A key that was
taken reaches its claimer in a later step (`AnswerClaim`): in between the request claims for its
other devices (`claim.ts:43`, `e2ee-query.ts:130`), and if one of these fails or the worker stops
the key is gone (`dropped`). KV may return a
bucket that was replaced (`replaced`); `Converge` ends that. `Disturb` counts overlaps, stale
reads and repeated uploads, so that a property can say what holds without them.

**ToDevice.** `position` is `to_device_messages`, `counter` the row of `stream_positions`,
`worker` a sender between its statements: take a number, insert (`OR IGNORE`) for each device
in the order of the request (`Place`), queue the EDUs, store the answer. A statement that fails
ends a client's request without an answer; for an EDU of another server the error is caught
(`transaction.ts:168`), the devices that are left get nothing (`EduFails`, `skipped`), and the
answer is stored and given. The outbox may refuse an EDU, which `enqueueEdu` does not look at
(`federation-outbound.ts:46`, `refused`). `/sync` of a device marks the rows at or below its
token as delivered, reads at most `Limit` rows, and reads the highest position of all users in
a statement of its own when there was nothing to give. `late` records rows that were stored
below a position already stored, or in the middle of a device's request: those a token can
pass. `Channel` maps the rows that were not late to `AtLeastOnce`: handed over once stored,
outstanding until marked as delivered.

**RoomCommands.** `worker[w]` goes through the places of the pipeline: `lookup` (the
transaction id), `authorize`, `build` (read again what the event depends on, and give up if
there is nothing to do), `store` (the event), then `point`, `row`, `repoint` for a membership
and `put` for a message, then the answer. Each is one step, and `Stop` may come after any of
them. Policies are the operators `May...`, which read `getMembership`: the row, or the
state's event if there is no row. `prev` and `depth` follow the latest event, as
`getLatestRoomEventsByDepth` orders them. `RefuseInvite` is the invitee's block or the refusal
of the invitee's server. `told`, `overlapped` and `lost` are history. Not modelled: the knock
table (only ever written), restricted joins, power levels that change, and the fanout after
the answer is certain, whose errors are collected and not retried.

## 4. Runs

| run | cfg | shows | bounds and why they are enough |
|---|---|---|---|
| `outbox_safety` | `FederationOutboxSafety` | `NothingLost`, `DeliveredInOrder`, `AtLeastOnceDelivery`, `DeletedEduStaysDeleted` | two overlapping runs of two attempts, two ids, two PDUs, one EDU, one restart: a newer run can overtake, delete and be rewritten by an older one, or share its id; delays of one tick, since no property here is about their length |
| `outbox_runs_end` | `FederationOutboxRuns` | `EveryRunEnds` | two destinations and two runs, so that visits, attempts and alarms interleave |
| `outbox_sequential` | `FederationOutboxSequential` | `HeldHasWakeup`, `EventuallyDelivered` | one destination, one run, events only: outside these the disagreements on retries apply |
| `sync_sequential` | `IncrementalSyncSequential` | `NothingSkipped`, `EventsArrive` | one writer, three events, a limit of three, no account data: the conditions under which the promise holds |
| `sync_concurrent` | `IncrementalSyncConcurrent` | `OrderingNeverMoves`, `StateHasEvent`, `TokenCoversSnapshot`, `TokenAdvances` | two writers on the same or different events, one of them a state event, one change: numbers collide |
| `sync_race` | `IncrementalSyncRace` | refutes `NothingSkipped` | two writers |
| `inbound_concurrent` | `FederationInboundConcurrent` | `TypeOK`, `AnsweredIsDecided`, `AnswerIsComplete`, `AppliedIsStored`, `GrowsAlongAuth` | two handlers, transactions of two and one events, answers that nest once and twice, a malformed event and one of no server among them, a state event that revokes and merges branches |
| `inbound_serial` | `FederationInboundSerial` | `DecisionIsFinal`, `HandlersEnd` | one handler, stops anywhere, repeated deliveries, events of every fault, a server ACL, four levels: answers that nest as deep as they go, and some that lead back (`HandlersEnd` is about the others) |
| `join_partial` | `RemoteJoinPartial` | `PartialRoomIsMarked`, `CompletionIsKept`, `JoinIsInEffect`, `FlaggedUntilComplete`, `DeferredStaysDue`, `DeferredIsJudged` | one joiner, a step started twice, a member the first answer omits who speaks and leaves meanwhile: both events are deferred, and the leave meets the restored join; the joiner had left before, which the full state and the auth chain of the join say |
| `one_time_keys` | `OneTimeKeys` | `GivenOnce`, `NoKeyIsLost`, `FallbackIsLast` | two keys in batches of one or none, two requests, one replaced bucket, two disturbances: an overlap and a stale read in one behaviour |
| `to_device` | `ToDeviceAll` | `PositionsDiffer`, `AnsweredIsStored`, `PassedIsReceived`, `ReceivedOnce`, `StoredIsReceived`, `AtLeastOnceDelivery` | a local request and an EDU that may repeat, two devices of which one polls, a limit of one, three positions: a number is wasted, a row comes late, an EDU fails |
| `room_commands` | `RoomCommands` | `AnsweredIsInEffect`, `SentOnce`, `AnswersAgree`, `ForksOverlap`, `BanStands` | two workers, two users, every command, three events: half-written memberships meet the next command, an event forks from one stored since |

The types of every model are proved; only those of `FederationInbound` are part of a run.
Bounds of the models: `RetryCap` (counts beyond it are not told apart), `MaxBackoff` (30 s in
the code), `MaxDepth` (none in the code), `MaxCrashes`, `Retries`, `MaxReplaced`,
`MaxDisturbances`, `MaxPosition`, `MaxEvents`, and the sets of the configurations. Deadlock is
not checked: every model ends when there is nothing left to send. `SYMMETRY` is used in safety
runs only.

**Fairness.** The outbox: a started handler goes on, a due alarm is delivered, time passes
(`Fairness`; the platform does all three. That a transmission ends rests on the platform's
limits too: the code gives `fetch` none, `federation-keys.ts:66` and `:572`), and for
`EventuallyDelivered` a remote that is asked again and again answers now and then
(`RemoteFairness`). Requests, restarts and failures are not fair. `/sync`: the assembler's
queries return, the wait times out after its 25 s, and a client that polls forever gets an
answer now and then (strong fairness, since any answer may be lost); no writer has to go on and
no notification has to come. Inbound: a worker goes on unless it stops. Joins (`FairSpec` of
`RemoteJoin`): the platform runs the workflow's next statement, a membership write that has
begun goes on, and the joiner's `/sync` takes a completion; requests, failures and expiry are
not fair. To-device (`FairSpec` of `ToDevice`): a device that is `Online` polls, and an answer
gets through now and then; senders need not go on. `RoomCommands` and `OneTimeKeys` state
safety only: nothing in the code repeats what a stopped worker left.

## 5. Proofs

All are for any sets of events, destinations, handlers and any number of restarts, from the
named assumptions of the modules (`OutboxAssumption`, `StreamAssumption`, `InboundAssumption`,
`Constants`, `Events`, `BatchAssumption`).

* `FederationOutboxProofs`: `TypeCorrect`, `NothingIsLost`, `OrderIsKept`, `Implements`. The
  invariants are not inductive: a run that gets its 2xx deletes by a snapshot it took long
  before. `IInv` says what a snapshot is still worth: it holds only stored items
  (`SnapshotStored`), all processed once a 2xx can come (`ProcessedReceived`), and whatever was
  stored before one of its items is in it or processed (`SnapshotClosed`). "Processed" excepts
  `mixed`: an answer from the cache speaks of the snapshot that was processed under its id, and
  runs under one id differ by items of `mixed` only (`SameIdMixed`). From it each step is a
  step of `AtLeastOnce` or a stutter; what that module promises excepts the items that are
  `doubtful`. `EdusStayDeleted`: an EDU's key is written once. `EveryRunNearsItsEnd`
  (`RunsNearTheirEnd`, stated with the proofs) is what `EveryRunEnds` rests on: a run's
  distance to its end is the destinations it has yet to visit and then the outcomes to come at
  the present one (`Nearer`); its own steps lessen it, and nothing else in the system adds to
  it, so that a run that goes on ends. `HeldIsWokenUp` is what `EventuallyDelivered` rests on:
  what is held is being transmitted, about to be visited, or has a record that an alarm serves.
  It assumes `OneAtATime`, the conditions of `outbox_sequential` with any number of events and
  attempts; without its conditions section 6 refutes it (`FederationOutboxAlarm`, `...Edu`,
  `...Recover`).
* `EventStreamProofs`: `StreamTypeCorrect`, `StateIsStored`, `OrderingIsFinal`. A handler that
  has come to the upsert of the state has seen or made its event's row (`RowFirst`).
* `IncrementalSyncProofs`: `SyncKeepsStream` (every step of /sync is a step of `EventStream` or
  a stutter, so the facts above hold beside it), `SyncTypeCorrect`, `TokenNeverFalls`,
  `AnswersCoverSnapshot`, `NothingIsSkipped`. A token is a number some row has reached, and a
  row's number never falls (`TokenInv`; for a change this needs that nobody else works on it
  between its number and its row, `ChangeFresh`), so the maximum read later is no smaller.
  `SnapshotReturned` says the timeline read holds what was stored when the position was read;
  it needs `Cardinality(Event) <= TimelineLimit`, an assumption of the last two theorems
  (`IncrementalSyncBacklog` shows what happens without it). The last one assumes one handler
  and no account data changes as well: its number is then beyond all that rows have reached
  (`NumberAhead`), so nothing becomes stored at or below a position already read
  (`SnapshotBelow`). With a second handler `sync_race` refutes it.
* `FederationInboundProofs`: `InboundTypeCorrect`, `StateIsBacked`, `AnswersAreDecided`,
  `AnswersAreComplete`, `ImplementsAuthDag`. The invariant is about every frame of every stack
  (`Sound`): an event past its checks has its auth events in the store until it is stored
  itself, however deep the transactions nested meanwhile; and the results a frame has gathered
  are decided, or are errors of events that cannot be (`Undecidable`). Answers are complete by
  a second invariant over the first: an event of the origin's transaction has a result or is
  still in `todo` (`Covered`). `OneHandlerDecidesOnce` assumes one handler: `processed_pdus` is
  written with `INSERT OR REPLACE`, so of two that both found no record the last one decides
  (`FederationInboundReplay`). The handler's frames below the top wait for a nested transaction
  and have decided nothing about their event (`Waiting`), and the top one has looked for the
  record since the last nested one returned (`Undecided`). `SteadyStoresAccepted` is about
  `SteadySpec`, the invocations that do not stop, with any number of handlers: then a record
  "accepted" stands for a row or a frame about to write it (`Accounted`); with stops
  `FederationInboundStopped` refutes it. `EveryStepNearsTheEnd` (`HandlersNearTheirEnd`): a
  step ends the innermost transaction, brings it nearer its end, or begins a nested one that
  the event will not begin again; the keys of a resolved state are written one after the other
  until none is left. The lemmas on sequences say which frames a push, a pop and a replacement
  leave.
* `RemoteJoinProofs`: `TypeCorrect`, `CompletionKept`, `FlagKept`, `RoomStaysMarked`,
  `DeferredIsKeptDue`, `EveryJoinNearsItsEnd`, `JoinTakesEffect`. The markers are written in
  several places and expire on their own, so each invariant ties the workflow's position to
  what a store still says: `CompletionInv` (once recorded, the completion stays in D1 until a
  `/sync` took it), `FlagInv` (while the join catches up its KV entry is there, and while that
  entry is there a record in D1 stands behind it), `MarkedInv` (the room's marker, in a room
  with one local joiner, which the theorem assumes). `DeferredIsKeptDue`: what follows the
  first mark follows it for a partial answer only (`OmittedInv`), so nothing goes round the
  judgement. `EveryJoinNearsItsEnd` (`JoinsNearTheirEnd`): steps come in one order, attempts
  are counted, and the list that a step goes through never grows. `JoinTakesEffect`: once the
  step "persist" is over, the joiner's row and pointer are at the join and no write under way
  is about another event of the joiner (`InEffectInv`). It assumes that no such event is
  delivered, and `AnswersFit`: an answer holds one only if the joiner is the only one, and the
  full state only what is in the auth chain of the join too.
* `OneTimeKeysProofs`: `TypeCorrect`, `NoneLost`, `KeysGivenOnce`, `FallbackComesLast`. `Quiet`
  says what holds at each place of the only request at work: no key that was given is free in
  either store, a claim's key is marked in the bucket before it is given, and the fallback key
  is reached only with nothing free. `NoneLost` holds with any requests at once: a row is
  marked only for the claim that is about to answer with its key.
* `ToDeviceProofs`: `TypeCorrect`, `PositionsAreUnique`, `AnsweredIsKept`,
  `TokenPassesNothing`, `NothingGivenTwice`, `TableIsChannel`. A number is held by one worker
  until its row has it (`PositionInv`); a sender past its insertions has its rows, but for
  those an EDU's error skipped (`SenderInv`); a token passes only what was received or late,
  and an answer in flight starts above all the device was given (`TokenInv`). These hold for
  any number of senders. With them each step is a step of `AtLeastOnce` or a stutter: a row is
  marked only below a token, and a token passes a row that was not late only if it was
  received.
* `RoomCommandsProofs`: `TypeCorrect`, `ForksOnlyOverlap`, `AnswersInEffect`, `BansStand`,
  `MessagesSentOnce`, `AnswersStayEqual`. `Ordered`: an event follows the latest of the events
  that were there when it was built, so a second one after the same event would have found the
  first, which is deeper. `Exclusive`: two workers on one subject are at work only if they
  overlapped. From it `Findings`: what a worker that nothing overlapped read when it was
  authorized still holds when it writes, though requests on other users go on and others
  stopped before it. `Recorded`: an event of a transaction id is recorded, or its worker is
  about to record it, or was lost.

Only model-checked: that something happens in the end (`EveryRunEnds`, `EventuallyDelivered`,
`EventsArrive`, `HandlersEnd`, `DeferredIsJudged`, `StoredIsReceived`), since fairness is beyond
the provers. What these rest on that is safety is proved:

| liveness | what is proved of it |
|---|---|
| `EveryRunEnds` | `EveryRunNearsItsEnd` |
| `EventuallyDelivered` | `HeldIsWokenUp`, and `EveryRunNearsItsEnd` for the attempts |
| `EventsArrive` | `NothingIsSkipped` and `TokenNeverFalls`: a poll that gets through gives what is there |
| `HandlersEnd` | `EveryStepNearsTheEnd`; how deep transactions nest is up to what the origin answers, and nothing bounds it if the answers lead back |
| `DeferredIsJudged` | `DeferredIsKeptDue` and `EveryJoinNearsItsEnd` |
| `StoredIsReceived` | `TokenPassesNothing` and `NothingGivenTwice` |

## 6. Disagreements

`sync_race` (with its quotation in `PROJECT.json`): `stream_ordering` is read and inserted in
two statements, and a poll fits between.

The configurations below are not among the runs; each makes TLC find the property violated.
Most properties are those of section 4 without the conditions that make them hold:

| property | cfg | behaviour |
|---|---|---|
| `PendingRetryHasAlarm` | `FederationOutboxAlarm` | the alarm is moved to the instant of the last destination that failed, and `alarm()` sets none for those it passes over (`FederationDurableObject.ts:414`) |
| `NothingSkipped` | `IncrementalSyncAccountData` | account data positions count events, event positions do not count account data; the next event takes a number that the token already covers |
| `NothingSkipped` | `IncrementalSyncBacklog` | the oldest 100 events are returned with the newest token |
| `AcceptedIsStored` | `FederationInboundStopped` | accepted is recorded before the row, and a retry looks at the record only (`pdu-ingest.ts:997`) |
| `NeverLost` | `FederationOutboxCollision` | two overlapping runs share a transaction id, the remote answers the second from its cache, and the run deletes what was never processed (`FederationDurableObject.ts:350`) |
| `HeldEduIsScheduled` | `FederationOutboxEdu` | an older run's success sets `nextRetry: null` over the schedule of an EDU stored meanwhile (`FederationDurableObject.ts:371`) |
| `RecoverFindsHeld` | `FederationOutboxRecover` | a restart during the first transmission to a destination leaves its queue without a record (`:297`) |
| `OrderingIsStrict` | `IncrementalSyncStrict` | two handlers insert one number (`database.ts:645`) |
| `StateIsNewest` | `IncrementalSyncState` | an older event stored again takes the state back (`database.ts:634`) |
| `WaitersAreWoken` | `IncrementalSyncWakeup` | a notification between the read and the wait wakes nobody until the timeout (`SyncDurableObject.ts:295`) |
| `DecisionIsFinal` | `FederationInboundReplay` | two handlers of one event decide differently (`matrix-repositories.ts:559`) |
| `DeliveredStateIsSet` | `FederationInboundHistory` | a state event fetched as history is ignored when delivered (`pdu-ingest.ts:1004`) |
| `PartialRoomIsMarked` | `RemoteJoinTwo` | two users join one room: the completion of one deletes the marker that the other's join needs (`tracker.ts:109`) |
| `MembershipsAgree` | `RemoteJoinMemberships` | row and state pointer of a member end up at different events; the rows are "denormalized for fast lookups" (`migrations/schema.sql:98`) |
| `NeverTwice` | `OneTimeKeysTwice` | two claims read one bucket, or a stale one, and give the same key (`e2ee-claim-store.ts:44`) |
| `DeliveredIsReceived` | `ToDeviceDelivered` | rows below the token are marked "synced to device" (`migrations/002_phase1_e2ee.sql:125`) although the token passed them when they came late |
| `NothingMissing` | `ToDeviceMissing` | an EDU that fails is answered 200 with rows missing, and the answer is cached (`transaction.ts:168`); a refused EDU is answered as sent (`federation-outbound.ts:46`) |
| `EachIsStored` | `ToDeviceSameId` | an EDU's message id leaves out the sender and is cut; the second message with it is ignored (`command.ts:53`) |
| `BansHold` | `RoomCommandsBans` | a join, invite or knock that was authorized before a ban is written after it (`room-service.ts:578`) |
| `OneEventPerTransaction` | `RoomCommandsTwice` | two requests with one transaction id at once both find no record and store an event each (`send-room-event.ts:73`) |

Seen while modelling, and not stated as properties: `forceFullState` is never used, since
`fullState` is always a boolean (`assembler.ts:72`); a completion that `/sync` has taken is
gone if its answer is lost; a workflow that fails leaves the D1 record "partial"; the workflow
notifies with fields that `SyncDurableObject` does not know (`RoomJoinWorkflow.ts:930`); kicks,
bans and unbans of local users are never sent to other servers; `storeAcceptedPdu` resolves the
room's state against the arriving event as a state of its own and writes the result over
whatever was set since it was read (`pdu-ingest.ts:565`); an origin whose `event_auth` answers
name the event they were asked for keeps a handler fetching without end (`pdu-ingest.ts:322`);
the `prev_batch` of a limited timeline is the request's own position
(`sync-projection.ts:374`); a one-time key whose claim ends between mark and answer is given to
nobody (`claim.ts:43`).

## 7. Not modelled

The components with status `not_modelled` in `PROJECT.json`, each with its reason: the
plan's later modules (EDUs, device lists, the room object, push, the queue's consumer);
reads only (federation queries); I/O (discovery, keys, calls, integrations, media); generated
pages; type declarations and encodings. Of the modelled components, what each leaves out is in
its note. Two limits of the models as such: D1 is taken to be one copy whose statements are
atomic (no read replicas), and the models of commands, joins and federation each have room
state of their own, so what two of these do to one room at once is not covered.
