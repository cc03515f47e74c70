------------------------------ MODULE Delivery ------------------------------
(***************************************************************************)
(* The life of a message in one consumer (consumer.go): the consume loop,  *)
(* the handler and its processing timeout, the settlement through the      *)
(* retry ladder, and the broker that redelivers what is not acknowledged;  *)
(* the registry its caller's cancel reaches a stream through (cancel.go),  *)
(* and the shutdown that stops intake, drains and closes (bus.go, run.go). *)
(* A publish here has the outcomes PubChannel allows: confirmed, or failed *)
(* with or without the broker having stored the message.                   *)
(***************************************************************************)
EXTENDS Naturals, FiniteSets

CONSTANTS
    Msg,           \* the messages sent to the queue
    Dlv,           \* delivery tags, each with its goroutine
    ReplyTo,       \* the requests with a replyTo
    Modes,         \* the kinds of consumer considered
    MaxRetries,    \* retrySpec.maxRetries
    Results,       \* what handlers return: "ok", "fail", "handled"
    Concurrency,   \* handler slots, and the channel's prefetch
    MaxFaults,     \* bound: crashes, channel deaths, failed publishes and shutdowns
    Stops          \* the modes in which the application shuts the bus down

ASSUME DeliveryAssumption ==
    /\ IsFiniteSet(Dlv) /\ Msg # {} /\ ReplyTo \subseteq Msg
    /\ Modes \subseteq {"late", "bare", "early", "event", "stream"}
    /\ Stops \subseteq Modes
    /\ MaxRetries \in Nat /\ MaxFaults \in Nat /\ Concurrency \in Nat \ {0}
    /\ Results \subseteq {"ok", "fail", "handled"}

\* A copy of a message and the x-retry-count it carries.
Copy == [m : Msg, n : 0..(MaxRetries + 1)]

VARIABLES
    mode,          \* a service with late ack, without a ladder, with early ack, of a
                   \* streaming method; a listener
    queue, retryQ, \* how many copies the service and retry queues hold
    dlq,           \* the messages on the dead-letter queue
    copy,          \* what each delivery carries
    unacked,       \* the deliveries the broker holds unacknowledged
    sent,          \* the settlement on its way to the broker
    unheard,       \* history: the early acks written that the broker never had, per message
    pc,            \* each delivery's goroutine
    busy,          \* the handler goroutines still running user code
    res, cause,    \* the handler's result; the cause of its context
    disarmed,      \* the deliveries whose processing timeout is lifted
    listed,        \* the deliveries in the cancel registry
    chan,          \* the consumer's channel; "lost" until the client notices
    stale,         \* the deliveries of a channel known to be dead
    tag,           \* the registration with the broker: "none", "wanted" by a restore, "on"
    bus,           \* "up", "stopped" (waiting for deliveries), "handlers" (waiting for
                   \* them), "closing", "closed"
    drain,         \* what Drain returned: "none" yet, "clean", or "cut" short
    inHand,        \* history: the unfinished deliveries received before intake stopped
    faults,
    failures,      \* history: failed attempts per message
    outcomes,      \* history: what handlers and callers decided
    answered,      \* history: the requests with a reply at the broker
    runs           \* history: handler runs per message, under early ack

LateAck    == mode # "early"                        \* consumerSpec.lateAck
DlqHandled == mode = "event"                        \* consumerSpec.dlqHandled
HasLadder  == mode \in {"late", "event", "stream"} /\ MaxRetries > 0
HasReply   == IF mode = "event" THEN {} ELSE ReplyTo
Streams    == IF mode = "stream" THEN Msg ELSE {}

brokerVars == <<queue, retryQ, dlq, copy, unacked, sent, unheard>>
workVars   == <<pc, busy, res, cause, disarmed, listed>>
lifeVars   == <<tag, bus, drain, inHand>>
chanVars   == <<chan, stale, faults, lifeVars>>
history    == <<failures, outcomes, answered, runs, mode>>
vars == <<brokerVars, workVars, chanVars, history>>

Publishing == {"reply", "errReply", "retry", "dead"}
Settling   == {"ack", "requeue", "reject"}

TypeOK ==
    /\ queue \in [Copy -> Nat] /\ retryQ \in [Copy -> Nat]
    /\ \A c \in Copy : queue[c] + retryQ[c] > 0 => c.n <= MaxRetries
    /\ dlq \subseteq Msg
    /\ copy \in [Dlv -> Copy]
    /\ unacked \subseteq Dlv
    /\ sent \in [Dlv -> {"none"} \cup Settling]
    /\ pc \in [Dlv -> {"free", "buffered", "parked", "early", "run", "result", "ended"}
                      \cup Publishing \cup Settling]
    /\ busy \subseteq Dlv /\ disarmed \subseteq Dlv /\ stale \subseteq Dlv
    /\ res \in [Dlv -> {"ok", "fail", "handled"}]
    /\ cause \in [Dlv -> {"none", "cancelled", "gone", "timeout"}]
    /\ chan \in {"up", "lost", "down", "restoring", "closed"}
    /\ tag \in {"none", "wanted", "on"} /\ drain \in {"none", "clean", "cut"}
    /\ bus \in {"up", "stopped", "handlers", "closing", "closed"}
    /\ listed \subseteq Dlv /\ inHand \subseteq Dlv
    /\ faults \in 0..MaxFaults
    /\ failures \in [Msg -> 0..(MaxRetries + 1)]
    /\ outcomes \in [Msg -> SUBSET {"ok", "handled", "rejected", "cancelled"}]
    /\ answered \subseteq Msg
    /\ runs \in [Msg -> Nat] /\ unheard \in [Msg -> Nat] /\ mode \in Modes

Init ==
    /\ queue = [c \in Copy |-> IF c.n = 0 THEN 1 ELSE 0]
    /\ retryQ = [c \in Copy |-> 0] /\ dlq = {}
    /\ copy \in [Dlv -> {CHOOSE c \in Copy : TRUE}]
    /\ unacked = {} /\ sent = [d \in Dlv |-> "none"]
    /\ pc = [d \in Dlv |-> "free"] /\ busy = {} /\ disarmed = {}
    /\ res = [d \in Dlv |-> "ok"] /\ cause = [d \in Dlv |-> "none"]
    /\ chan = "up" /\ stale = {} /\ faults = 0 /\ listed = {}
    /\ tag = "on" /\ bus = "up" /\ drain = "none" /\ inHand = {}
    /\ failures = [m \in Msg |-> 0] /\ outcomes = [m \in Msg |-> {}]
    /\ answered = {} /\ runs = [m \in Msg |-> 0] /\ unheard = [m \in Msg |-> 0]
    /\ mode \in Modes

\* process ends with the removal of the delivery from the cancel registry, which
\* tells the overlapping deliveries of one message apart.
Registered(d, ended) == IF ended THEN listed \ {d} ELSE listed \cup {d}
Step(d, from, to) ==
    /\ pc[d] \in from /\ pc' = [pc EXCEPT ![d] = to]
    /\ listed' = IF to = "ended" THEN Registered(d, TRUE) ELSE listed
Fault == faults < MaxFaults /\ faults' = faults + 1
Add(q, c) == [q EXCEPT ![c] = @ + 1]
Outcome(d, o) == outcomes' = [outcomes EXCEPT ![copy[d].m] = @ \cup {o}]

-----------------------------------------------------------------------------
\* The broker: delivery, settlement, and the TTL of the retry queue, which
\* dead-letters back to the service queue.

Deliver(d, c) ==
    /\ chan = "up" /\ tag = "on" /\ queue[c] > 0
    /\ d \notin unacked /\ Cardinality(unacked) < Concurrency
    /\ Step(d, {"free"}, "buffered")
    /\ queue' = [queue EXCEPT ![c] = @ - 1]
    /\ copy' = [copy EXCEPT ![d] = c]
    /\ unacked' = unacked \cup {d}
    /\ UNCHANGED <<retryQ, dlq, sent, unheard, busy, res, cause, disarmed, chanVars, history>>

\* Mutant: a requeue counts as a retry.
BrokerSettlesCounting(d) ==
    /\ d \in unacked /\ sent[d] # "none"
    /\ unacked' = unacked \ {d} /\ sent' = [sent EXCEPT ![d] = "none"]
    /\ queue' = IF sent[d] = "requeue" THEN Add(queue, [copy[d] EXCEPT !.n = MaxRetries]) ELSE queue
    /\ UNCHANGED <<retryQ, dlq, copy, unheard, workVars, chanVars, history>>

BrokerSettles(d) ==
    /\ d \in unacked /\ sent[d] # "none"
    /\ unacked' = unacked \ {d} /\ sent' = [sent EXCEPT ![d] = "none"]
    /\ queue' = IF sent[d] = "requeue" THEN Add(queue, copy[d]) ELSE queue
    /\ UNCHANGED <<retryQ, dlq, copy, unheard, workVars, chanVars, history>>

RetryExpires(c) ==
    /\ retryQ[c] > 0
    /\ retryQ' = [retryQ EXCEPT ![c] = @ - 1] /\ queue' = Add(queue, c)
    /\ UNCHANGED <<dlq, copy, unacked, sent, unheard, workVars, chanVars, history>>

\* What the broker does with the unacknowledged deliveries of a dead channel,
\* those included whose ack was written and is lost with it.
RequeueUnacked ==
    /\ unheard' = [m \in Msg |-> IF ~LateAck /\ \E d \in unacked : copy[d].m = m /\ sent[d] = "ack"
                                 THEN unheard[m] + 1 ELSE unheard[m]]
    /\ queue' = [c \in Copy |-> queue[c] + Cardinality({d \in unacked : copy[d] = c})]
    /\ unacked' = {} /\ sent' = [d \in Dlv |-> "none"]
    /\ UNCHANGED <<retryQ, dlq, copy>>

-----------------------------------------------------------------------------
\* The consume loop, which holds one delivery at a time, and process.

\* The context of a delivery begins without a cause: one that starts after Close
\* cancelled the handlers is settled like any other.
Starts(d) ==
    /\ busy' = busy \cup {d}
    /\ cause' = [cause EXCEPT ![d] = "none"]
    /\ disarmed' = disarmed \ {d}
    /\ runs' = [runs EXCEPT ![copy[d].m] = IF LateAck THEN @ ELSE @ + 1]
    /\ UNCHANGED <<res, failures, outcomes, answered, mode>>

Receive(d) ==
    /\ \A e \in Dlv : pc[e] # "parked"
    /\ Step(d, {"buffered"}, "parked")
    /\ UNCHANGED <<brokerVars, busy, res, cause, disarmed, chanVars, history>>

\* A slot stays taken until the handler goroutine has exited.
SlotsTaken == {d \in Dlv : pc[d] \notin {"free", "buffered", "parked"}}

TakeSlot(d) ==
    /\ Cardinality(SlotsTaken) < Concurrency
    /\ Step(d, {"parked"}, IF LateAck THEN "run" ELSE "early")
    /\ IF LateAck THEN Starts(d) ELSE UNCHANGED <<busy, res, cause, disarmed, history>>
    /\ UNCHANGED <<brokerVars, chanVars>>

\* loopStop is closed: the loop drops the delivery it is parked with.
LetGo(d) ==
    /\ chan = "restoring" \/ bus = "closing"
    /\ Step(d, {"parked"}, "free") /\ stale' = stale \ {d} /\ inHand' = inHand \ {d}
    /\ UNCHANGED <<brokerVars, busy, res, cause, disarmed, chan, faults, tag, bus, drain, history>>

\* d.Ack, d.Nack and d.Reject: written, to take effect if the broker still
\* holds the delivery, or an error on a channel known to be dead.
AckErr(d) == d \in stale
Send(d, how) ==
    /\ sent' = IF d \in unacked THEN [sent EXCEPT ![d] = how] ELSE sent
    /\ unheard' = IF LateAck \/ AckErr(d) \/ d \in unacked THEN unheard
                  ELSE [unheard EXCEPT ![copy[d].m] = @ + 1]
    /\ UNCHANGED <<queue, retryQ, dlq, copy, unacked>>

\* Mutant: a failed early ack is only logged.
EarlyAckRegardless(d) ==
    /\ Step(d, {"early"}, "run") /\ Send(d, "ack") /\ Starts(d)
    /\ UNCHANGED chanVars

\* Early ack: a message whose ack fails is left to its redelivery.
EarlyAck(d) ==
    /\ Step(d, {"early"}, IF AckErr(d) THEN "ended" ELSE "run")
    /\ Send(d, "ack")
    /\ IF AckErr(d) THEN UNCHANGED <<busy, res, cause, disarmed, history>> ELSE Starts(d)
    /\ UNCHANGED chanVars

\* Mutant: a released delivery registers too.
EnterStreamReleased(d) ==
    /\ d \in busy \ disarmed /\ copy[d].m \in Streams
    /\ disarmed' = disarmed \cup {d}
    /\ listed' = listed \cup {d}
    /\ UNCHANGED <<brokerVars, pc, busy, res, cause, chanVars, history>>

\* A streaming method lifts the timeout and becomes cancellable, unless the
\* timeout ended the delivery while its handler was on its way here.
EnterStream(d) ==
    /\ d \in busy \ disarmed /\ copy[d].m \in Streams
    /\ disarmed' = disarmed \cup {d}
    /\ listed' = Registered(d, pc[d] = "ended")
    /\ UNCHANGED <<brokerVars, pc, busy, res, cause, chanVars, history>>

\* The handler returns, or panics; nobody listens to an abandoned one.
HandlerReturns(d) ==
    /\ d \in busy /\ busy' = busy \ {d}
    /\ \/ Step(d, {"run"}, "result") /\ \E r \in Results : res' = [res EXCEPT ![d] = r]
       \/ pc[d] # "run" /\ UNCHANGED <<pc, res, listed>>
    /\ UNCHANGED <<brokerVars, cause, disarmed, chanVars, history>>

\* The first cause of a context is the one that stays.
CancelAll(D, why) ==
    cause' = [d \in Dlv |-> IF d \in D /\ cause[d] = "none" THEN why ELSE cause[d]]

\* Mutant: a handler that overruns is awaited.
TimeoutAwaitsHandler(d) ==
    /\ d \notin disarmed \cup busy /\ Step(d, {"run"}, "result")
    /\ CancelAll({d}, "timeout")
    /\ res' = [res EXCEPT ![d] = "fail"]
    /\ UNCHANGED <<brokerVars, busy, disarmed, chanVars, history>>

\* A consumer without a timeout is one whose timer never fires.
TimeoutFires(d) ==
    /\ d \notin disarmed /\ Step(d, {"run"}, "result")
    /\ CancelAll({d}, "timeout")
    /\ res' = [res EXCEPT ![d] = "fail"]
    /\ UNCHANGED <<brokerVars, busy, disarmed, chanVars, history>>

\* A cancel notice stops every delivery of the call.
CallerCancels(m) ==
    /\ \E d \in listed : copy[d].m = m /\ cause[d] = "none"
    /\ CancelAll({d \in listed : copy[d].m = m}, "cancelled")
    /\ UNCHANGED <<brokerVars, pc, busy, res, disarmed, listed, chanVars, history>>

-----------------------------------------------------------------------------
\* Settlement: every path publishes first and settles second.

\* After the best-effort error reply of a terminal failure.
AfterErrReply(d) ==
    IF ~LateAck THEN "ended"
    ELSE IF HasLadder /\ (res[d] = "fail" \/ DlqHandled) THEN "dead" ELSE "reject"

\* A failure that is not deliberate is retried while the copy's count allows.
MayRetry(d) == HasLadder /\ res[d] = "fail" /\ copy[d].n < MaxRetries

\* The first step of settle. A stream has published its own frames, and
\* carries an error reply only if it panicked or timed out.
FirstSteps(d) ==
    LET c == copy[d] IN
    IF res[d] = "ok"
    THEN {IF c.m \in HasReply \ Streams THEN "reply" ELSE IF LateAck THEN "ack" ELSE "ended"}
    ELSE IF MayRetry(d) THEN {"retry"}
    ELSE {s \in {"errReply", AfterErrReply(d)} :
            /\ s = "errReply" => c.m \in HasReply
            /\ s # "errReply" => c.m \notin HasReply \ Streams}

\* process, once run has returned: a cancelled delivery ends without a reply,
\* one whose channel is gone is left to the broker, any other is settled.
Conclude(d) ==
    /\ \/ /\ cause[d] = "cancelled" /\ Step(d, {"result"}, IF LateAck THEN "ack" ELSE "ended")
          /\ Outcome(d, "cancelled") /\ UNCHANGED failures
       \/ /\ cause[d] = "gone" /\ Step(d, {"result"}, "ended")
          /\ UNCHANGED <<outcomes, failures>>
       \/ /\ cause[d] \in {"none", "timeout"}
          /\ \E s \in FirstSteps(d) : Step(d, {"result"}, s)
          /\ IF res[d] = "fail" THEN UNCHANGED outcomes ELSE Outcome(d, res[d])
          /\ failures' = IF res[d] # "fail" \/ failures[copy[d].m] > MaxRetries THEN failures
                         ELSE [failures EXCEPT ![copy[d].m] = @ + 1]
    /\ UNCHANGED <<brokerVars, busy, res, cause, disarmed, chanVars, answered, runs, mode>>

\* What the broker stores of the publish delivery d is at: a retry copy one
\* attempt further on, the dead letter, or a reply.
Stores(d) ==
    LET c == copy[d] IN
    /\ retryQ' = IF pc[d] = "retry" THEN Add(retryQ, [c EXCEPT !.n = @ + 1]) ELSE retryQ
    /\ dlq' = IF pc[d] = "dead" THEN dlq \cup {c.m} ELSE dlq
    /\ answered' = IF pc[d] \in {"reply", "errReply"} THEN answered \cup {c.m} ELSE answered

ChannelWorks(d) == chan = "up" /\ d \notin stale

Published(d) ==
    /\ ChannelWorks(d)
    /\ Step(d, Publishing, IF pc[d] = "errReply" THEN AfterErrReply(d)
                           ELSE IF LateAck THEN "ack" ELSE "ended")
    /\ Stores(d)
    /\ UNCHANGED <<queue, copy, unacked, sent, unheard, busy, res, cause, disarmed, chanVars,
                   failures, outcomes, runs, mode>>

\* Mutants: a failed publish is only logged, and the message acknowledged; or
\* left unacknowledged until its channel dies.
PublishFailsAcks(d) ==
    /\ Step(d, Publishing, IF pc[d] = "errReply" THEN AfterErrReply(d) ELSE "ack")
    /\ IF ChannelWorks(d) THEN Fault ELSE UNCHANGED faults
    /\ UNCHANGED <<brokerVars, busy, res, cause, disarmed, chan, stale, lifeVars, history>>
PublishFailsStays(d) ==
    /\ Step(d, Publishing, IF pc[d] = "errReply" THEN AfterErrReply(d) ELSE "ended")
    /\ IF ChannelWorks(d) THEN Fault ELSE UNCHANGED faults
    /\ UNCHANGED <<brokerVars, busy, res, cause, disarmed, chan, stale, lifeVars, history>>

\* An error reply is best effort; any other publish that fails sends the
\* message back to the queue, though the broker may have stored the copy.
PublishFails(d) ==
    /\ Step(d, Publishing, IF pc[d] = "errReply" THEN AfterErrReply(d)
                           ELSE IF LateAck THEN "requeue" ELSE "ended")
    /\ IF ChannelWorks(d) THEN Fault ELSE UNCHANGED faults
    /\ \/ ChannelWorks(d) /\ Stores(d)
       \/ UNCHANGED <<retryQ, dlq, answered>>
    /\ UNCHANGED <<queue, copy, unacked, sent, unheard, busy, res, cause, disarmed, chan, stale,
                   lifeVars, failures, outcomes, runs, mode>>

Settle(d) ==
    /\ Step(d, Settling, "ended") /\ Send(d, pc[d])
    /\ IF pc[d] = "reject" THEN Outcome(d, "rejected") ELSE UNCHANGED outcomes
    /\ UNCHANGED <<busy, res, cause, disarmed, chanVars, failures, answered, runs, mode>>

\* Mutant: the slot is free once the delivery is settled.
ReleaseEarly(d) ==
    /\ Step(d, {"ended"}, "free")
    /\ UNCHANGED <<brokerVars, busy, res, cause, disarmed, chanVars, history>>

\* The goroutine returns its slot once the handler has exited.
Release(d) ==
    /\ d \notin busy /\ Step(d, {"ended"}, "free")
    /\ stale' = stale \ {d} /\ disarmed' = disarmed \ {d} /\ inHand' = inHand \ {d}
    /\ res' = [res EXCEPT ![d] = "ok"] /\ cause' = [cause EXCEPT ![d] = "none"]
    /\ UNCHANGED <<brokerVars, busy, chan, faults, tag, bus, drain, history>>

-----------------------------------------------------------------------------
\* The channel dies, the client notices, the channel is restored; or the
\* whole process dies and a new one takes its place.

Working == {d \in Dlv : pc[d] # "free"}

ChannelDies ==
    /\ chan = "up" /\ chan' = "lost" /\ Fault
    /\ RequeueUnacked
    /\ UNCHANGED <<workVars, stale, lifeVars, history>>

\* amqp091 drops what it has buffered. Only the loss of the connection
\* cancels handlers, and only those whose work is bound to be redelivered.
ClientNotices ==
    /\ chan = "lost" /\ chan' = "down"
    /\ stale' = {d \in Working : pc[d] # "buffered"}
    /\ pc' = [d \in Dlv |-> IF pc[d] = "buffered" THEN "free" ELSE pc[d]]
    /\ \/ LateAck /\ CancelAll({d \in Dlv : pc[d] \in {"run", "result"}}, "gone")
       \/ UNCHANGED cause
    /\ tag' = "none"
    /\ UNCHANGED <<brokerVars, busy, res, disarmed, listed, faults, bus, drain, inHand, history>>

\* restoreTopology stops the old loop and waits for it, then consumes, if the
\* application was consuming when it looked.
Restore ==
    /\ bus \notin {"closing", "closed"}
    /\ \/ chan = "down" /\ chan' = "restoring" /\ tag' = IF bus = "up" THEN "wanted" ELSE "none"
       \/ /\ chan = "restoring" /\ (\A d \in Dlv : pc[d] # "parked") /\ chan' = "up"
          /\ tag' = IF tag = "wanted" THEN "on" ELSE tag
    /\ UNCHANGED <<brokerVars, workVars, stale, faults, bus, drain, inHand, history>>

\* startConsuming honours a stop that came while it was registering.
CancelTag ==
    /\ chan = "up" /\ tag = "on" /\ bus # "up" /\ tag' = "none"
    /\ UNCHANGED <<brokerVars, workVars, chan, stale, faults, bus, drain, inHand, history>>

Crash ==
    /\ Fault /\ chan' = "down" /\ stale' = {} /\ listed' = {}
    /\ tag' = "none" /\ bus' = "up" /\ drain' = "none" /\ inHand' = {}
    /\ RequeueUnacked
    /\ pc' = [d \in Dlv |-> "free"] /\ busy' = {} /\ disarmed' = {}
    /\ res' = [d \in Dlv |-> "ok"] /\ cause' = [d \in Dlv |-> "none"]
    /\ UNCHANGED history

-----------------------------------------------------------------------------
\* Shutdown: intake stops, Drain waits for the deliveries and then for the
\* handlers, and Close ends what is left. Run returns when it does.

\* The deliveries received and not yet settled (Bus.deliveries).
InProcess == {d \in Dlv : pc[d] \notin {"free", "buffered", "ended"}}

\* Run's context ends, or the application decides by itself.
MayStop == mode \in Stops /\ bus = "up" /\ Fault

\* stopConsuming: the broker sends no more; what amqp091 has buffered still comes.
StopConsuming == tag' = IF tag = "on" THEN "none" ELSE tag

Shutdown ==
    /\ MayStop /\ bus' = "stopped"
    /\ StopConsuming
    /\ inHand' = InProcess \cup busy
    /\ UNCHANGED <<brokerVars, workVars, chan, stale, drain, history>>

\* Mutant: the handlers are waited for first.
DrainHandlersFirst ==
    /\ \/ bus = "stopped" /\ busy = {} /\ bus' = "handlers" /\ UNCHANGED drain
       \/ bus = "handlers" /\ InProcess = {} /\ bus' = "closing" /\ drain' = "clean"
    /\ UNCHANGED <<tag, inHand>>

\* A counter that reaches zero wakes the wait for it.
Drain ==
    /\ \/ bus = "stopped" /\ InProcess = {} /\ bus' = "handlers" /\ UNCHANGED drain
       \/ bus = "handlers" /\ busy = {} /\ bus' = "closing" /\ drain' = "clean"
    /\ UNCHANGED <<tag, inHand>>

\* ShutdownDrainTimeout ends.
DrainTimesOut ==
    /\ bus \in {"stopped", "handlers"}
    /\ bus' = "closing" /\ drain' = "cut"
    /\ UNCHANGED <<tag, inHand>>

\* Close begins: consumer.close cancels the handlers with ErrClosed.
CancelHandlers == CancelAll({d \in Dlv : pc[d] \in {"run", "result"}}, "gone")
idle == <<brokerVars, pc, busy, res, disarmed, listed, chan, stale, history>>

Drained ==
    /\ Drain \/ DrainTimesOut
    /\ IF bus' = "closing" THEN CancelHandlers ELSE UNCHANGED cause
    /\ UNCHANGED <<idle, faults>>

\* Bus.Close called by itself.
CloseAtOnce ==
    /\ MayStop /\ bus' = "closing"
    /\ drain' = "cut" /\ StopConsuming /\ inHand' = {}
    /\ CancelHandlers
    /\ UNCHANGED idle

\* Mutant: Close waits for the handlers it cancelled.
ClosedAwaitsHandlers ==
    /\ bus = "closing" /\ bus' = "closed"
    /\ busy = {} /\ \A d \in Dlv : pc[d] # "parked" /\ sent[d] = "none"
    /\ chan' = "closed" /\ tag' = "none"
    /\ RequeueUnacked
    /\ stale' = {d \in Dlv : pc[d] \notin {"free", "buffered"}}
    /\ pc' = [d \in Dlv |-> IF pc[d] = "buffered" THEN "free" ELSE pc[d]]
    /\ UNCHANGED <<busy, res, cause, disarmed, listed, faults, drain, inHand, history>>

\* The channel closes in order, behind the settlements written on it, once the
\* loop has let go: the broker redelivers what is unacknowledged.
Closed ==
    /\ bus = "closing" /\ bus' = "closed"
    /\ \A d \in Dlv : pc[d] # "parked" /\ sent[d] = "none"
    /\ chan' = "closed" /\ tag' = "none"
    /\ RequeueUnacked
    /\ stale' = {d \in Dlv : pc[d] \notin {"free", "buffered"}}
    /\ pc' = [d \in Dlv |-> IF pc[d] = "buffered" THEN "free" ELSE pc[d]]
    /\ UNCHANGED <<busy, res, cause, disarmed, listed, faults, drain, inHand, history>>

-----------------------------------------------------------------------------
Goroutine(d) ==
    \/ Receive(d) \/ TakeSlot(d) \/ LetGo(d) \/ EarlyAck(d) \/ EnterStream(d)
    \/ TimeoutFires(d) \/ Conclude(d) \/ Published(d) \/ PublishFails(d)
    \/ Settle(d) \/ Release(d)
Next ==
    \/ \E d \in Dlv : \/ Goroutine(d) \/ HandlerReturns(d) \/ BrokerSettles(d)
                      \/ \E c \in Copy : Deliver(d, c)
    \/ \E m \in Msg : CallerCancels(m)
    \/ \E c \in Copy : RetryExpires(c)
    \/ ChannelDies \/ ClientNotices \/ Restore \/ CancelTag \/ Crash
    \/ Shutdown \/ Drained \/ CloseAtOnce \/ Closed
Spec == Init /\ [][Next]_vars

\* Goroutines and the broker run, timers fire and publishes end; faults are
\* the environment's. Nothing is assumed of user code.
FairSpec ==
    /\ Spec
    /\ \A d \in Dlv : WF_vars(Goroutine(d))
    /\ WF_vars(\/ \E d \in Dlv : BrokerSettles(d) \/ \E c \in Copy : Deliver(d, c)
               \/ \E c \in Copy : RetryExpires(c))
    /\ WF_vars(ClientNotices \/ Restore \/ CancelTag)
    /\ WF_vars(Drained \/ Closed)

-----------------------------------------------------------------------------
Queued(m) == \E n \in 0..(MaxRetries + 1) :
                 queue[[m |-> m, n |-> n]] + retryQ[[m |-> m, n |-> n]] > 0
Unsettled(m) == Queued(m) \/ \E d \in unacked : copy[d].m = m
Gone(m) == ~Unsettled(m) /\ m \notin dlq

\* Under late ack, whatever fails or crashes, a message leaves the broker only
\* by a decision: it was handled, refused, rejected or cancelled
\* (consumer.go:549-551).
NeverLost == LateAck => \A m \in Msg : Gone(m) => outcomes[m] # {}

\* Under late ack a request leaves the broker only with a reply behind it, unless its caller
\* cancelled it or it was rejected, when the error reply is best effort.
AnsweredBeforeGone ==
    LateAck => \A m \in HasReply \ Streams :
        Gone(m) => m \in answered \/ outcomes[m] \cap {"cancelled", "rejected"} # {}

\* A message is dead-lettered only if the handler refused it, or after failing
\* on the first attempt and on each of MaxRetries retries: the count survives
\* the retry queue, redeliveries and crashes (consumer.go:575-590).
DeadLetterEarned ==
    \A m \in dlq : failures[m] = MaxRetries + 1 \/ "handled" \in outcomes[m]

\* How a message may leave the queue, in a state that is well typed: no copy
\* carries a count beyond the ladder.
LeavesByDecision == TypeOK /\ NeverLost /\ AnsweredBeforeGone /\ DeadLetterEarned

\* Running handlers never outnumber the slots, counting those abandoned by the
\* processing timeout and those of a dead channel (consumer.go:302-315).
HandlersBounded == Cardinality(busy) <= Concurrency

\* Under early ack a message is run at most once (docs/services.md:325).
AtMostOnce == ~LateAck => \A m \in Msg : runs[m] <= 1

\* What process does for that, across lost channels, crashes and redeliveries: a
\* message is run again only if an ack written for it never reached the broker,
\* one such ack for each further run (consumer.go:448-459).
RerunsPaid == ~LateAck => \A m \in Msg : runs[m] <= 1 + unheard[m]

\* A drain that reports success has finished everything received before intake
\* stopped: each delivery is settled and its handler has returned, those the
\* processing timeout abandoned included (bus.go:186-193).
DrainCompletes ==
    drain = "clean" => \A d \in inHand : pc[d] = "ended" /\ d \notin busy

\* The cancel registry holds only deliveries in process: a handler that reaches
\* its stream after the timeout ended its delivery does not register, so no
\* registration outlives its delivery (consumer.go:36-78).
RegistrationsEnd == listed \subseteq InProcess

\* A delivery's settlement does not wait for a handler that overruns.
OverrunSettles == \A d \in Dlv : []<>(pc[d] # "run" \/ copy[d].m \in Streams)

\* Shutdown ends whatever the handlers do: the drain by its deadline, and Close
\* without waiting for a handler (bus.go:195-228). A crash ends it too.
ShutdownReturns == []<>(bus \in {"closed", "up"})

\* Neither waits for user code.
NothingAwaitsHandlers == OverrunSettles /\ ShutdownReturns

\* If every handler returns in the end, every message is settled or
\* dead-lettered once the faults stop, while the bus is up.
EveryMessageSettles ==
    (<>[](bus = "up") /\ \A d \in Dlv : []<>(d \notin busy))
        => \A m \in Msg : <>[](~Unsettled(m))
=============================================================================
