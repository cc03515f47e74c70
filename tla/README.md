# protobus-go in TLA+

A model of [protobus-go](../src), a request, stream and event bus over RabbitMQ: what its
goroutines, its broker and its faults can do in any order, checked by TLC on
small instances; the safety of publishing, settlement, reconnection, calls, streams and event
listeners is proved by TLAPS for every instance.
`PROJECT.json` lists the runs, the theorems, the source lines behind every
definition and the hazards the properties answer.

## The system and its parts

| part | source | model |
|---|---|---|
| publishing channel: confirms, returns, slots | `pubchan.go` | `PubChannel`, `PubChannelProofs`, `PubChannelTags`, `PubChannelVerdicts` |
| message settlement: slots, timeout, acks, retry ladder, DLQ | `consumer.go` | `Delivery`, `DeliveryProofs` |
| bus: drain, shutdown, run | `bus.go`, `run.go` | `Delivery` |
| connection supervisor: loss, backoff, restore, readiness | `session.go` | `Session`, `SessionProofs` |
| bus: attach, close | `bus.go` | `Session` |
| consumer channel: start, recovery on a live connection, close | `consumer.go` | `Session` |
| dispatcher: pending calls, reply queue, repair | `dispatcher.go` | `Dispatcher`, `DispatcherProofs` |
| server streaming: frames, sequence, buffer limits | `stream.go`, `dispatcher.go` | `Stream`, `StreamPromise`, `StreamProofs` |
| stream cancellation: the notice, the registry | `cancel.go`, `consumer.go` | `Stream`, `Delivery` |
| services: registration, dispatch, classification of failures | `service.go`, `dynamic.go`, `options.go` | `Requests` |
| clients, codecs, custom types, errors | `client.go`, `headers.go`, `internal/wire`, `customtypes.go`, `errors.go` | `Requests`, `Wire` |
| event publisher and listener, service start | `events.go`, `eventlistener.go`, `service.go` | `Events`, `EventsProofs` |
| topic trie | `internal/topic/trie.go` | `Topic` |
| the broker the tests run on | `internal/fakebroker` | `Broker` |

Every component publishes through a `pubChannel` of its own. A consumer's
publishes (replies, retry copies, dead letters) and its deliveries share one AMQP
channel, so `Delivery` uses of `PubChannel` only what it promises: a publish
is confirmed, or fails with or without the broker having stored the message.

## PubChannel

`publish` (pubchan.go:306-385) is a chain of selects; each select is one position
of `call[p]`, each of its cases one action. The writer and loop goroutines are
the variables `writer`/`cur` and `loop`/`doomed`. `pending` is kept inverted
(`pendingTag`), so that a publication whose tag another has taken over is visible.
`stage` stands for `committed` and `sentAt`: time is a step from "recent" to "old",
which is all `retireIfWedged` compares. `net`, `wire` and `confirms` are the two
directions of the socket and the buffer given to `NotifyPublish`. A return names
its publication by `Ident`, which stands for message id, exchange and routing key.

From amqp091-go, which is outside the repository, the model takes: a failed
`PublishWithContext` has sent no complete message and gives its sequence number back; nothing is
delivered once the close has been signalled; the broker may still take frames
that were written before. A write on a live channel may hang.

`publish_calls`: two publications with identities of their own, in two scenes (`scene`, fixed
at the start). In one both are in flight, and the second is nacked or its queue comes and
goes; in the other both want the one slot, so that a stuck publication blocks the other, and one
gives up. Failed and hanging writes, closes and deaths happen in both. Slots are accounted
for, a definite failure was not sent, what `publish` reports is what the broker did
(`VerdictsTrue`), the buffer of confirms never overflows, and no caller, slot or close hangs.
Weak fairness for goroutines and timers, for amqp091 finishing a requested close and failing a
write on a dead channel; none for the broker, nor for a write on a live channel.

`NilMeansRouted` and `RefusalIsReal`, two conjuncts of `VerdictsTrue`, hold for publications that can be told apart. Two
publications of one identity (`WithMessageID` and a resend) around a binding that
changes break both: the return of the second is charged to the first, still
unconfirmed one (pubchan.go:173-190). The first is reported unroutable though a queue has
it, and the second routed though none has. An `Ident` that gives both publications
`d1`, in a scene with two slots and `volatile = {d1}`, shows this.

Two publications are enough for each race between a publication and its
successor (tag reuse, attribution, the slot), and one writer serialises them.

### What is proved

For any finite set of publications, any identities and any scenes. The assumption is
`PubAssumption`: `Pub` finite, `NoPub` outside it, a positive number of slots in each scene,
and the constants of the types their comments give them.

`PubChannelProofs` has the bookkeeping:

- `TypeCorrect`: `TypeOK` always holds;
- `SlotsAccounted`: `SlotAccounting` always holds;
- `DefiniteFailuresUnsent`: `DefiniteMeansUnsent` always holds.

They rest on the inductive invariant `IInv`. `SlotAccounting` alone is not
inductive: that `settle` frees a slot only for a publication that holds one needs
to know where unsettled publications can be. `WriterHolds` says the publication in
the writer's hands is unsettled or already confirmed and its caller past the handoff;
`Tracked` says that whatever is pending or doomed was committed; `Unwritten` says that
one never written has no frame anywhere, which carries `DefiniteMeansUnsent`.

`PubChannelTags` has the order of tags and notices, the invariant `VInv`: the i-th frame
on the wire will get the i-th next number of the broker, and what is pending waits under
that number (`Tags`); each confirm on its way answers one publication, and no two the same
(`Truthful`); whatever is written and unanswered is pending and holds its slot as long as
the loop answers (`Kept`); a verdict is the broker's or the shutdown's (`Settlements`).

`PubChannelVerdicts` draws the conclusions:

- `ConfirmsAlwaysFit`: `ConfirmsFit` always holds. The confirms in the buffer and the one
  at the reader are one to one with publications that hold slots, of which there are
  `MaxOutstandingConfirms`.
- `AlignedAlways`: tags are the broker's, and a confirm received before the close wins.
- `TrueVerdicts`: `VerdictsTrue` always holds, assuming `DistinctReturns`: no two
  mandatory publications share an identity. Without it the property is false, see above.
  The invariant `RInv` says that the return of an unroutable publication is ahead of its
  confirm, and that nothing else is marked returned.

Model-checked only: liveness.

## Delivery

One consumer's queue, the channel and the goroutine of each delivery. `pc[d]`
follows `loop`, `process`, `run` and `settle`; a publish or settlement in progress is
a position named after it. `busy` is the handler goroutine, which outlives the
delivery when the processing timeout abandons it. `sent` is a settlement
written and not yet at the broker, so that a dying channel can lose it. `listed` is the cancel registry. `bus` follows `Shutdown`: intake stops
(`tag`), `Drain` waits for the deliveries and then for the abandoned handlers, the
deadline may cut it short, and `Close` cancels what still runs. `Crash` is the process
killed and started again. `failures`, `outcomes`, `answered`, `runs`, `unheard` and `inHand` are
history variables.

`mode`, fixed at the start, is how the consumer is configured: a service with late ack
and a retry ladder, the same without a ladder, early ack, a streaming method, or an
event listener, which answers nobody and dead-letters refusals.

Left out: `x-message-ttl` on the service queue and priorities. A restore while stopped
happens in the model at any time; in the code only after a connection was lost.

`delivery_consume`: all five modes, one message on one slot, one retry. `MaxFaults`
bounds crashes, channel deaths, failed publishes and shutdowns, two in all: two tags
let a redelivery overlap the abandoned first delivery, and two faults let one strike the
recovery of the other. The application stops the bus in two of the modes (`Stops`), a unary
service and a streaming one; a shutdown of the other three is not checked. Goroutines, timers and
broker are fair, user code is not: `NothingAwaitsHandlers` holds of handlers that hang,
`EveryMessageSettles` has their return as its premise, since a hung handler keeps its slot.

Under early ack `d.Ack` returns once the frame is written (consumer.go:452), so a channel that
dies before the broker has it makes the broker redeliver what `process` runs: early ack is not at
most once, as docs/services.md:325 has it. `early_ack` (violation) shows this for `AtMostOnce`.
What the code does achieve is `RerunsPaid`, checked in `delivery_consume`: each further run of a
message stands against one ack that was written and never arrived (`unheard`).

`LeavesByDecision` compares the retry count of a copy with the failures of its message over all
copies. That a copy climbs the ladder only by its own failures is `LadderBounded` of `Requests`,
on deliveries without faults.

`DrainCompletes` speaks of what the consumer had received. A delivery still in amqp091's
buffer when `Drain` counts none in flight is run after it, and after the drain deadline
handlers run on while `Close` tears down: "by then no handler is running" (run.go:18-19)
holds of a drain that was clean and had nothing buffered.

### What is proved

`DeliveryProofs` proves, for any finite set of delivery tags and any messages, slots, retries
and faults,

- `BoundedHandlers`: `HandlersBounded` always holds;
- `RegistryExact`: `RegistrationsEnd` always holds;
- `DrainedIsDone`: `DrainCompletes` always holds;
- `NothingLost`: `LeavesByDecision` always holds;
- `RunsArePaid`: `RerunsPaid` always holds.

None is inductive alone. `IInv` adds that a running handler holds a slot even after its delivery
ended, and the slots taken are at most `Concurrency` (`SlotsHeld`); that what is registered holds
a slot and has not ended; and that a drain waiting for handlers has only ended deliveries in
hand (`Draining`). The bound rests on `Release` waiting for the handler. `Custody` follows a
message: it is queued, parked for a retry, dead-lettered or in a delivery the broker would
redeliver, until an outcome is decided; the retry count of a copy never exceeds the failures; and a
delivery about to settle owes what its position says (`Due`). `Fresh` says that under early ack a
message that may still be run is in one place, and that each of its runs so far is paid for. The assumption is `DeliveryAssumption`. Liveness is
model-checked only.

## Session

The supervisor goroutine (`sup` follows `supervise`, `lost`, `reconnect`), components
that attach, are restored, recover a channel that died alone and are closed, and
`Bus.Close`. Connections and channels are numbered by generation; `restoreMu` is a
variable, so every restore, attach and recovery is several steps with deaths,
losses and the close in between. A component is a consumer, which installs its
channel before it consumes (consumer.go:203-260), or the dispatcher's reply consumer,
which installs last (dispatcher.go:133-159). Backoff delays are steps.

The instance is a sum of scenes, one chosen at the start (`scene`): a component of either
kind alone with two faults and unlimited reconnections; the same with a limit of two; a consumer
and the dispatcher together with one fault and a limit of one.

- `session_life`: fairness of the goroutines, strong where one waits for Go's mutex,
  which is starvation-free; faults are bounded, since a broker that fails for ever
  promises nothing.
- `session_partial` (violation): a rebuild that fails after it installed its channel
  takes its own channel, on the retry, for a rebuild someone else completed.

`ConsumerRebuiltWhenReady` claims nothing in the scenes with that case (`partial`) or with
one other (`early`): a channel that dies between its restore and the announcement finds
the session not ready (consumer.go:324), starts no recovery, and is never rebuilt. That leaves
it the two scenes of a component alone with unlimited reconnections, in which a channel dies
by itself only while the session is ready. The other properties are checked in every scene.

### What is proved

`SessionProofs` proves, for any components, scenes, number of connections and of faults
(`SessionAssumption`),

- `RestoredWhenReady`: `ReadyMeansRestored` always holds;
- `NothingLeftOpen`: `NoConnLeaks` always holds;
- `FinishedStaysUnready`: no step takes a finished session back to ready (`NeverReadyAgain`).

That nobody is left behind is only visible together with the lock. `Lineage` says that only the
newest connection can be open; `Locked`, that whoever holds `restoreMu` works on the current
connection, or the supervisor is still waiting for it to restore; `Restored`, that a
component is on the current connection unless the supervisor has it still to do; `Enlisted`,
that `Close` knows of each component whose attach succeeded. Reconnection,
termination and the rebuilding of consumers are liveness and model-checked only.

## Dispatcher

A unary call from `dispatcher.call`: `pc[c]` goes through `channel` (whenReady, then
the fields, as two steps), `repair`, registration, publish and wait. The three
goroutines that run `failPending` (supervisor, recovery, close) are `step[o]`, and
taking the table, resolving each call, clearing the fields and closing the channels
are separate steps, as in the code. `got[c]` is what `channel` handed out, so a
channel or a queue that dies later is stale there. Of `PubChannel` it uses
`DefiniteFailuresUnsent`: `errChannelGone` means not sent. Of `Session` it keeps
readiness, loss, restore, announcement and close. Calls without a reply, which never
register, are in `Requests`.

`call_answers`: one caller, in scenes with two faults, or with one and the bus closing. A
request is stored once, a wanted reply finds its call, `ErrDisconnected` is true, the table
holds nothing stale, no two of repair, recovery and reconnection build a reply consumer
each, and no call is left behind. Weak fairness for goroutines and broker, strong for the
mutex; none for services and deadlines, so the deadline is not what ends the call.

`NoCallLeftBehind` has two parts. That a call looking for a channel proceeds is checked in
every scene; that a call whose reply queue is gone is failed, only in those without `late`
calls, where the steps into the following windows are disabled. While a dead reply consumer is
recovered, a call can register after `failPending` took the table and publish before the
old channel is closed (dispatcher.go:363-366); only its deadline ends it, though the comment
on `recoverReplies` (dispatcher.go:332-333) has every such call failed. `late` covers two more windows: the same
one in `close` (dispatcher.go:228-233), and a caller that slept since `whenReady` and reads the
channel of a connection that is not announced yet and is then dropped without
`connectionLost` (session.go:237-262). The safety properties are checked across all three.

### What is proved

`DispatcherProofs` proves, for any callers, scenes and faults, across the windows above,

- `SentAtMostOnce`: `SentOnce` always holds;
- `TableIsExact`: `TableExact` always holds;
- `DisconnectionsTrue`: `DisconnectedIsTrue` always holds;
- `SingleReplyConsumer`: `OneReplyConsumer` always holds.

The assumption, `DispatcherAssumption`, only keeps the callers' names apart from those of the
other holders of the lock. Channels, queues and attempts are numbered without a bound.
The invariant has seven parts. `Chans` and `Calls` are types.
`Locks` says where each goroutine is while it holds `restoreMu`; `Queues`, that a consumed reply
queue is the newest, and that whoever is about to make another has seen it go; `Table`,
that what `failPending` took out is of no later attempt than its call's and no longer in the table;
`Storage`, that what the broker has is of the attempt its call is at, which is why a second
publish can only follow an unsent one; `Truth`, that a call told of a disconnection, or about
to be, has lost its queue. `NoCallLeftBehind` is liveness and model-checked only.

## Stream

A streaming call end to end: the handler and its `serverStream` (`handler`, `pending`,
`seq`, `broken`), the request's settlement and re-runs, frames on the wire (`net`), the
reply reader (`Routes`, then `Pushes`, which is `Push` on the frame in hand), the `clientStream` and the caller's loop (`loop`). A
response is its number, so order, loss and repetition are visible. A publish is
confirmed, unsent or unconfirmed.

`StreamPromise` is what a caller may rely on: the responses in order and once each,
then one verdict, which speaks about the handler only after all its responses.
`stream_call` checks that `Stream` implements it (its variables `plan`, `yielded` and
`verdict` are those of `Stream`), provided a handler that runs again produces the same frames.

- `stream_call`: one call, up to three responses, two of which fill the buffer,
  two faults. Besides the promise: no ack before the final frame, an exact buffer
  count, and no wake-up missed by the one-slot `notify`, so that the idle timer is
  not needed to see an end.
- `stream_rerun` (violation): a re-run that differs. Its error frame repeats a
  sequence number, is dropped, and its final flag ends the loop as if complete.

TLC runs one stream, whose chunk limit is the one that binds; that the byte limits of a stream
and of the process hold, whatever they are and however many streams share them, is part of the
proof (`BufferIsExact`).
Left out: early ack, requests without a
reply queue, overlapping runs (only one holds a live channel), closing the bus (the stream sees a lost connection), and the
fresh stream per publish attempt, whose race is the one `Dispatcher` has for calls.

### What is proved

`StreamProofs` proves, for any finite set of calls, any responses, limits, retries and faults
(`StreamAssumption`),

- `AckedAfterFinal`: `FinalBeforeAck` always holds;
- `BufferIsExact`: `BufferExact` always holds;
- `StreamKeepsPromise`: `Stream` implements `StreamPromise` (`PromiseKept`), assuming
  `SameReruns`; `stream_rerun` shows that it must.

`IInv` has the two sides apart: a run that has not failed to publish holds exactly its latest
response back (`Server`); a stream with an error has ended, and a loop that waits with
something to see has a wake-up coming (`Client`). For the promise, `Faithful` adds that each frame
on its way carries what its number says (`Authentic`), that a run that finishes has sent all of it
(`Returned`), and that what is given and buffered are the responses in order, as many as the
last number taken says (`Given`); the answer to a panic, which has no number, may cut them short.
For the buffer, `Accounts` counts the chunks held by all streams as a set of cells
(`Held`); a push, a take and a release change one stream's column of it. `Counting` is what
is needed of `Cardinality`, proved at the end from the library's theorems.

## Requests and Wire

`Wire` has what crosses the wire, as operators: envelopes field by field, with unknown,
repeated, truncated and mistyped fields; header integers in each type `headerInt` reads; the check of
custom types in a payload, which is a tree of messages; error trees and what is
said of them to a caller and in the `x-last-error` header. Go's integers keep
their widths, scaled down (`MaxInt32`, `MaxInt64`), with the values on both sides of each.

`Requests` follows one request: registration, the typed and the dynamic client, a message
of another port, `Service.handle` from the routing key to the classification of the
error, `settle` with the headers of retry and dead-letter copies, and the reply at its caller.
A handler's outcome is any member of `Outcomes`: values, panics, overruns, and error trees with
handled, remote, coded and publish errors wrapped and joined. The journey is sequential:
the interleavings of settlement are in `Delivery`, of calls in `Dispatcher`, of frames in
`Stream`.

`requests_answer` runs every combination of a deployment (valid and refused options, an
instance name, exposure, early ack, no ladder, a dynamic service, a service in another port)
with a call (refused and accepted ones of both clients, malformed and repeated fields, retry
counts of several types on both sides of the limits, a first-failure header of another port's,
CC keys in both directions, an empty key, an expiration, the default
exchange); `MCRequests` lists them. `Widths` are the types integers leave in; counts sent by
peers come in integer, float and text types. Properties: the method that runs is the one
the original's key names, or with an empty key its body (service.go:447-456); the handler's answer
crosses; an unhandled error's text stays; at each service addressed, the message and its copies are run
once per rung, each copy after an attempt that failed one rung below; and copies are the same
message and come back where the original's key leads, never by CC.

## Events and Topic

`Topic` is the trie of `internal/topic` and the broker's definition of a match, as recursive
functions over positions in the topic; the second is the reference of the first: `RoutesInOrder` compares the two for every topic of up to three words after
each subscription.

`Events` has the subscriptions of listeners, their consumers' starts, restores and
rebuilt channels under the restore lock, the bindings at the broker, `Service.Start` and
`Service.Events`, the publisher's channel, and the retries. A restore reads the bindings
when it takes the lock and is done when it gives it back. An event is whole,
refused before it is published, without a routing key, or unreadable in its envelope, its
type or its data. `Handle` is the handlers and a settlement that arrives; `SettleFails` is the one that
does not: the retry copy cannot be confirmed, though it may be stored, and the event is
requeued, or the channel dies before the ack. `doubled` remembers for whom a copy was stored beside
its event; of those `RetriesEarned` does not say that an acknowledged event stays away
(docs/events.md:255 tells handlers to deduplicate).
The session is reduced to losing, restoring and announcing a connection; closing is in
`Session` and `Delivery`.

- `events_listen`: a service's durable listener with retries, a private one, and one that
  `NewEventListener` refuses; three subscriptions, one event, one fault anywhere. A binding is
  missed or an event retried wrongly in two or three steps of two actors, so one event suffices.
- `events_retry` (violation): `Service.Start` fails on the cancel listener, stops the event
  listener and leaves it marked started; the retried `Start` succeeds without it.

`SubscriptionServed` leaves out a listener first asked for while `Service.Start` runs
(`raced`): `Events` sees a service not started yet, `Start` has already looked for a listener,
and nobody starts it. It also leaves out a listener that a failed `Start` stopped (`stopped`),
the case of `events_retry`, and one on which a subscriber was told of a failed start.

### What is proved

`EventsProofs` proves, for any listeners, subscriptions, events, retries and faults,

- `BindingsFollow`: `SubscribedIsBound` always holds;
- `RetriesAreEarned`: `RetriesEarned` always holds;
- `SubscriptionsServed`: `SubscriptionServed` always holds.

The assumptions are those of the module: a service owns at most one listener, and
subscriptions are not named like the other callers of `Start`. The invariant `EInv` adds: a pattern
that a restore under way has not read has a bind coming (`ReadOrComing`), for which the
restore must read under the lock; only a listener whose start ended well is enrolled
(`Lifecycle`); who runs each start, and what `Service.Start` saw when it looked
(`Starters`, `Known`), which the lazy start in `Service.Events` needs; and a listener that no copy was doubled for (`Twice`) has at most
one copy of an event, none once it acknowledged it (`Copies`), and no copy is parked that is
unreadable or of a private queue (`Parked`). `RoutesInOrder` is model-checked only: what `Match` computes for every
trie is an induction over data.

## Broker

The in-memory broker of the tests, which the other modules' broker actions follow. Each
operation holds its mutex and is one action on the state `s`; the pumps, the timers and the two
halves of a restart interleave. `same = FALSE` in a declaration stands for any inequivalent
or invalid argument. Which operations the clients use is a profile chosen at the start:
a publisher under every confirm policy, two workers, a client that declares.

`broker_queues`: two clients, three copies, one fault. Every copy of a message is queued, unacknowledged or gone for a reason,
nothing durable is lost in a restart, no message waits beside a consumer with capacity, prefetch
holds, a return is heard before its confirm, and nothing refers to what was deleted.

## Proof and checking

The theorems are about the modules that TLC runs, with no definition replaced, and rest on the named
assumptions of those modules, which TLC evaluates on its instances. Two theorems
assume more, each a case in which the property is false without it: `TrueVerdicts`
(`DistinctReturns`) and `StreamKeepsPromise` (`SameReruns`).

Model-checked only, on the instances above:

- liveness: `NothingHangs`, `NothingAwaitsHandlers`, `EveryMessageSettles`, `NeverHangs`,
  `ConsumerRebuiltWhenReady` and `NoCallLeftBehind`. The prover has no rule for fairness.
- `RoutesInOrder`, the properties of `Requests` and those of `Broker`. They speak of what recursive
  definitions and folds compute (tries, envelopes, error trees, the queue a dispatch leaves), which
  needs induction over data.
- the violations, which are counterexamples.

## Not modelled

- Reading configuration from the environment, logging, schema loading and code generation,
  the command-line tools, test support and examples: they hold no state that steps of others
  can disturb.
- Interceptors and descriptors (`desc.go`) and the conversions of `pbtypes`: chains of user
  functions and pure conversions.
- `declareCoreExchanges`: best effort on every connection, and no property depends on it.
- The fanout queue of cancel notices: a consumer like the others; a notice arrives or does not.
- The headers of stream frames in other ports' types, which `Wire` models for the retry count only.
