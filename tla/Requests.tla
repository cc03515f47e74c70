------------------------------ MODULE Requests ------------------------------
(***************************************************************************)
(* One request from its caller to its answer: the registration of          *)
(* services, the clients, the checks a service makes before it runs a      *)
(* method, the classification of what the handler returned, the retry      *)
(* ladder with the headers it carries, and what the caller is told.        *)
(*                                                                         *)
(* The request's journey is sequential. The interleavings, lost            *)
(* confirmations and redeliveries of settlement are in Delivery, those of  *)
(* the calls in Dispatcher, the frames of streams in Stream: here a        *)
(* publish succeeds, a delivery is handled and settled in one step, and a  *)
(* stream answers with one frame.                                          *)
(***************************************************************************)
EXTENDS Wire, Topic, FiniteSets

CONSTANTS
    Schema,        \* contract name -> method -> "unary", "server" or "client"
    Words,         \* the single routing-key words
    Deployments,   \* services that are registered together, by queue
    Calls,         \* calls and messages that are sent
    Outcomes,      \* what a handler may do
    PeerReplies,   \* responses another port's service may send for a method
    Widths         \* the types header integers are written with

VARIABLES
    svcs,          \* the deployment
    call,          \* the call
    tried, up,     \* services Register was called for; those registered and started
    queue,         \* broker: messages ready, by service
    parked,        \* broker: messages on the retry queues
    dlq,           \* broker: messages on the dead-letter queues
    replies,       \* responses on their way to the caller
    seen,          \* what the caller got
    original,      \* the message as it was sent (history)
    runs           \* handlers run (history)

vars == <<svcs, call, tried, up, queue, parked, dlq, replies, seen, original, runs>>

Saw(kind, code, text, data) == [kind |-> kind, code |-> code, text |-> text, data |-> data]
Nothing == Saw("none", "", {}, NoData)

Init ==
    /\ svcs \in Deployments
    /\ call \in Calls
    /\ tried = {} /\ up = {}
    /\ queue = [s \in DOMAIN svcs |-> <<>>]
    /\ parked = <<>> /\ dlq = <<>> /\ replies = <<>>
    /\ seen = Nothing
    /\ original = <<>>
    /\ runs = <<>>

-----------------------------------------------------------------------------
(***************************************************************************)
(* Registration.                                                           *)
(***************************************************************************)
ValidInstance(i) == i = "" \/ i \in Words

ValidOptions(o) ==
    /\ o.concurrency \in 1..65535 /\ o.eventConcurrency \in 1..65535
    /\ o.retries >= 0 /\ (o.retries > 0 => o.delay > 0) /\ o.ttl >= 0
    /\ o.eventRetries >= 0 /\ (o.eventRetries > 0 => o.eventDelay > 0)
    /\ o.timeout >= 0
    /\ ValidInstance(o.instance)
    /\ o.priority # "unset" => o.priority = "some" /\ ~o.earlyAck

\* The runtime name: the contract's, plus the instance.
Name(s) == IF svcs[s].instance = "" THEN svcs[s].service
           ELSE Dot(svcs[s].service, svcs[s].instance)

Binding(s) == <<"REQUEST">> \o Name(s) \o <<"*">>

\* RegisterDynamic: the handlers whose method the contract declares, and then
\* the others, which Register reports.
DynamicDesc(o) ==
    LET declared == DOMAIN Schema[o.service]
    IN  [unary |-> (o.unary \cap declared) \cup (o.unary \ declared),
         streams |-> (o.streams \cap declared) \cup (o.streams \ declared)]

Desc(o) == IF o.dynamic THEN DynamicDesc(o) ELSE [unary |-> o.unary, streams |-> o.streams]

Registers(o) ==
    /\ ValidOptions(o)
    /\ o.service \in DOMAIN Schema
    /\ \A m \in Desc(o).unary : m \in DOMAIN Schema[o.service] /\ Schema[o.service][m] = "unary"
    /\ \A m \in Desc(o).streams : m \in DOMAIN Schema[o.service] /\ Schema[o.service][m] = "server"

Register(s) ==
    /\ s \notin tried
    /\ tried' = tried \cup {s}
    /\ up' = IF Registers(svcs[s]) THEN up \cup {s} ELSE up
    /\ UNCHANGED <<svcs, call, queue, parked, dlq, replies, seen, original, runs>>

-----------------------------------------------------------------------------
(***************************************************************************)
(* The broker (external): a publish on the bus exchange, and a dead-letter *)
(* out of a retry queue, is routed by the message's key and by its CC      *)
(* keys; one on the default exchange goes to the queue its key names.      *)
(***************************************************************************)
Targets(m, exchange) ==
    IF exchange = "" THEN {s \in up : Name(s) = m.key}
    ELSE {s \in up : \E k \in {m.key} \cup m.cc : TopicMatch(Binding(s), k)}

Enqueue(m, targets) ==
    [s \in DOMAIN queue |-> IF s \in targets THEN Append(queue[s], m) ELSE queue[s]]

(***************************************************************************)
(* The clients.                                                            *)
(***************************************************************************)
\* NewClient; the instance is checked by every call.
NewClient(c) ==
    [ok |-> ValidInstance(c.instance), contract |-> c.name,
     runtime |-> IF c.instance = "" THEN c.name ELSE Dot(c.name, c.instance)]

\* ResolveClient: the longest prefix of the name that is a service.
ResolveClient(c) ==
    LET services == {p \in Prefixes(c.name) : p \in DOMAIN Schema}
    IN  [ok |-> services # {}, runtime |-> c.name,
         contract |-> IF services = {} THEN c.name
                      ELSE CHOOSE p \in services : \A q \in services : Len(q) <= Len(p)]

\* Call and CallStream check the method and the message's type; Invoke, under
\* generated code, does not.
ChecksMethod(c, contract) ==
    /\ c.method \in DOMAIN Schema[contract]
    /\ (Schema[contract][c.method] = "server") = c.stream
    /\ c.type = Dot(contract, c.method)

ValidateCall(c) == c.id # "blank" /\ c.timeout >= 0

\* Every message leaves with an id.
Message(key, body, id, replyTo, cc) ==
    [key |-> key, body |-> body, id |-> IF id = "" THEN "generated" ELSE id, replyTo |-> replyTo,
     cc |-> cc, retry |-> Absent, first |-> Absent, expires |-> FALSE, last |-> {}, from |-> "caller"]

Routed(m, exchange) ==
    /\ original' = <<m>>
    /\ queue' = Enqueue(m, Targets(m, exchange))
    /\ seen' = IF Targets(m, exchange) = {} THEN Saw("local", "UNROUTABLE", {}, NoData)
               ELSE IF ~m.replyTo THEN Saw("sent", "", {}, NoData) ELSE seen

Invoke ==
    /\ call.via \in {"client", "dynamic"}
    /\ LET c == IF call.via = "client" THEN NewClient(call) ELSE ResolveClient(call)
           body == AppendRequest(Dot(c.contract, call.method), call.actor, call.data)
           ok == /\ c.ok
                 /\ call.via = "dynamic" => ChecksMethod(call, c.contract)
                 /\ Marshals(call.data)
                 /\ ValidateCall(call)
       IN  \/ /\ ok
              /\ Routed(Message(Dot(<<"REQUEST">> \o c.runtime, call.method), body, call.id,
                                ~call.noReply, {}), "bus")
           \/ /\ ~ok
              /\ seen' = Saw("local", "INVALID", {}, NoData)
              /\ UNCHANGED <<queue, original>>

\* Another port, or a service that forwards what it received.
PeerSends ==
    /\ call.via = "peer"
    /\ Routed([Message(call.key, call.body, call.id, ~call.noReply, call.cc)
                  EXCEPT !.retry = call.retry, !.first = call.first, !.expires = call.expires],
              call.exchange)

Send ==
    /\ tried = DOMAIN svcs /\ seen = Nothing /\ original = <<>>
    /\ Invoke \/ PeerSends
    /\ UNCHANGED <<svcs, call, tried, up, parked, dlq, replies, runs>>

-----------------------------------------------------------------------------
(***************************************************************************)
(* The service. A result is an error, or none, and the reply for it.       *)
(***************************************************************************)
Error(kind, name, code, text, wraps) ==
    [kind |-> kind, name |-> name, code |-> code, text |-> text, wraps |-> wraps]

\* sanitizeForCaller, as a response.
EncodeError(s, method, e) == AppendError(method, SanitizeForCaller(e, svcs[s].expose))

Rejection(s, label) ==
    [err |-> <<>>,
     reply |-> EncodeError(s, label, Error("handled", "HandledError", "PROTOCOL_ERROR", {"rejected"}, <<>>))]

\* Rejections name the method of the routing key: the body's is in dispute. A
\* message that no key brought (a shovel's) is labelled by its body.
Label(s, d, env) == Dot(svcs[s].service, IF d.key = <<"">> THEN Last(env.method) ELSE Last(d.key))

\* Mutant: the service runs the method of the body, whatever its key.
AcceptsByBody(s, d, env) ==
    /\ RequestDecodes(d.body)
    /\ Splits(env.method) /\ Front(env.method) = svcs[s].service
    /\ Last(env.method) \in DOMAIN Schema[svcs[s].service]

\* The checks before the payload is read: the routing key, if there is one, belongs
\* to the service and names the body's method, which the contract declares.
Accepts(s, d, env) ==
    /\ RequestDecodes(d.body)
    /\ d.key # <<"">> => /\ IsStrictPrefix(<<"REQUEST">> \o Name(s), d.key)
                         /\ Last(d.key) = Last(env.method)
    /\ Splits(env.method) /\ Front(env.method) = svcs[s].service
    /\ Last(env.method) \in DOMAIN Schema[svcs[s].service]

Implements(s, method) ==
    method \in IF Schema[svcs[s].service][method] = "server"
               THEN svcs[s].streams ELSE svcs[s].unary

\* Service.failure: what is answered at once, and what the ladder takes.
Failure(s, method, e) ==
    IF OfKind(e, "payload") # <<>> \/ OfKind(e, "unimplemented") # <<>> THEN Rejection(s, method)
    ELSE [err |-> IF AsAnswerable(e) # {} THEN <<>> ELSE <<e>>, reply |-> EncodeError(s, method, e)]

\* serveStream: whatever the handler returned is the stream's last frame.
ServeStream(s, method, e) ==
    IF OfKind(e, "payload") # <<>> \/ OfKind(e, "unimplemented") # <<>> THEN Rejection(s, method)
    ELSE [err |-> <<>>, reply |-> EncodeError(s, method, e)]

\* A panic and an overrun processing time fail the attempt; a stream has no
\* processing time.
Broken(s, d, e) == [err |-> <<e>>, reply |-> EncodeError(s, Dot(svcs[s].service, Last(d.key)), e)]
Panic == Error("other", "Error", "", {"secret"}, <<>>)
Overrun == Error("timeout", "TimeoutError", "PROCESSING_TIMEOUT", {"overran"}, <<>>)
Undecodable == Error("payload", "payloadError", "", {"secret"}, <<>>)
Unencodable == Error("other", "Error", "", {"secret"}, <<Error("other", "Error", "", {"range"}, <<>>)>>)

Fails(s, env, e) ==
    IF Schema[svcs[s].service][Last(env.method)] = "server" THEN ServeStream(s, env.method, e)
    ELSE Failure(s, env.method, e)

\* Service.handle, once the payload is decoded.
Result(s, d, env, o) ==
    CASE o.kind = "panic" -> Broken(s, d, Panic)
      [] o.kind = "overrun" -> Broken(s, d, Overrun)
      [] o.kind = "err" -> Fails(s, env, o.err)
      [] OTHER -> IF ~Marshals(o.data) THEN Fails(s, env, Unencodable)
                  ELSE [err |-> <<>>, reply |-> AppendResult(env.method, o.data)]

-----------------------------------------------------------------------------
(***************************************************************************)
(* Settlement and the retry ladder.                                        *)
(***************************************************************************)
\* The time of the first failure is carried on as it arrived.
FirstFailure(d) == IF HeaderInt(d.first) \ {0} # {} THEN d.first ELSE IntHeader(Len(runs) + 1)

\* The properties a copy keeps; an expiration would race the retry queue's.
CarriedProperties(d) == [d EXCEPT !.expires = FALSE]

\* Mutant: the sender's CC stays on the copy.
RepublishedWithCC(s, d, count, e) ==
    [CarriedProperties(d) EXCEPT !.retry = count, !.first = FirstFailure(d), !.last = SafeErrorSummary(e), !.from = s]

\* A retry or dead-letter copy: the delivery without the sender's CC.
Republished(s, d, count, e) ==
    [CarriedProperties(d) EXCEPT !.cc = {}, !.retry = count, !.first = FirstFailure(d),
                                 !.last = SafeErrorSummary(e), !.from = s]

Reply(d, body) == replies' = IF d.replyTo THEN Append(replies, body) ELSE replies

\* consumer.settle. Replicas of a service may run in other ports, which write
\* the count with a width of their own.
Settle(s, d, attempt, res, width) ==
    LET ladder == ~svcs[s].earlyAck /\ svcs[s].retries > 0
        e == res.err[1]
    IN  IF res.err # <<>> /\ ladder /\ attempt < svcs[s].retries
        THEN /\ parked' = Append(parked, Republished(s, d, [IntHeader(attempt + 1) EXCEPT !.typ = width], e))
             /\ UNCHANGED <<dlq, replies>>
        ELSE /\ Reply(d, res.reply)
             /\ dlq' = IF res.err # <<>> /\ ladder
                       THEN Append(dlq, [Republished(s, d, IntHeader(attempt), e) EXCEPT !.replyTo = FALSE])
                       ELSE dlq
             /\ UNCHANGED parked

Handle(s) ==
    /\ queue[s] # <<>> /\ ~svcs[s].peer
    /\ queue' = [queue EXCEPT ![s] = Tail(@)]
    /\ LET d == Head(queue[s])
           env == DecodeRequest(d.body)
       IN  \E attempt \in RetryCount(d.retry) :
             \/ /\ ~RequestDecodes(d.body)
                /\ Settle(s, d, attempt,
                          Rejection(s, IF d.key = <<"">> THEN <<"unknown">> ELSE d.key), "int32")
                /\ UNCHANGED runs
             \/ /\ RequestDecodes(d.body) /\ ~Accepts(s, d, env)
                /\ Settle(s, d, attempt, Rejection(s, Label(s, d, env)), "int32")
                /\ UNCHANGED runs
             \/ /\ Accepts(s, d, env) /\ ~Implements(s, Last(env.method))
                /\ Settle(s, d, attempt, Rejection(s, env.method), "int32")
                /\ UNCHANGED runs
             \/ /\ Accepts(s, d, env) /\ Implements(s, Last(env.method)) /\ ~Unmarshals(env.data)
                /\ Settle(s, d, attempt, Fails(s, env, Undecodable), "int32")
                /\ UNCHANGED runs
             \/ /\ Accepts(s, d, env) /\ Implements(s, Last(env.method)) /\ Unmarshals(env.data)
                /\ \E o \in Outcomes, width \in Widths :
                     /\ o.kind = "overrun" => Schema[svcs[s].service][Last(env.method)] = "unary"
                     /\ Settle(s, d, attempt, Result(s, d, env, o), width)
                     /\ runs' = Append(runs, [svc |-> s, key |-> d.key, method |-> env.method,
                                              data |-> env.data, attempt |-> attempt, from |-> d.from,
                                              outcome |-> o, res |-> Result(s, d, env, o)])
    /\ UNCHANGED <<svcs, call, tried, up, seen, original>>

\* A service in another port (external) answers with any response it may send.
PeerAnswers(s) ==
    /\ queue[s] # <<>> /\ svcs[s].peer
    /\ queue' = [queue EXCEPT ![s] = Tail(@)]
    /\ \E b \in PeerReplies : Reply(Head(queue[s]), b)
    /\ UNCHANGED <<svcs, call, tried, up, parked, dlq, seen, original, runs>>

\* The retry queue's time to live (external): the broker dead-letters the
\* message to the bus exchange under its own key.
Expire ==
    /\ parked # <<>>
    /\ parked' = Tail(parked)
    /\ queue' = Enqueue(Head(parked), Targets(Head(parked), "bus"))
    /\ UNCHANGED <<svcs, call, tried, up, dlq, replies, seen, original, runs>>

\* decodeReply.
DecodeReply(b, method) ==
    LET r == DecodeResponse(b)
    IN  CASE r.kind = "error" -> Saw("remote", r.code, r.text, NoData)
          [] r.kind = "result" /\ r.method = method /\ Unmarshals(r.data) -> Saw("ok", "", {}, r.data)
          [] OTHER -> Saw("local", "INVALID_RESPONSE", {}, NoData)

\* The caller's reply consumer hands it the response.
Receive ==
    /\ replies # <<>> /\ seen = Nothing /\ call.via # "peer"
    /\ LET c == IF call.via = "client" THEN NewClient(call) ELSE ResolveClient(call)
       IN  seen' = DecodeReply(Head(replies), Dot(c.contract, call.method))
    /\ UNCHANGED <<svcs, call, tried, up, queue, parked, dlq, replies, original, runs>>

Next ==
    \/ Send \/ Expire \/ Receive
    \/ \E s \in DOMAIN svcs : Register(s) \/ Handle(s) \/ PeerAnswers(s)

Spec == Init /\ [][Next]_vars

-----------------------------------------------------------------------------
(***************************************************************************)
(* Properties.                                                             *)
(***************************************************************************)
\* A payload and every message in it.
RECURSIVE Messages(_)
Messages(v) == {v} \cup UNION {Messages(v.kids[i]) : i \in DOMAIN v.kids}

\* Dispatch is bound to the routing key the message was sent under, however the body
\* was encoded, whichever key or CC brought it and however often it was copied
\* (service.go, handle): a handler runs only for a key below its own service's name
\* that ends in its method, or for a message without a key, which is "served if, and
\* only if, its body names a method of this contract" (parity_test.go:381-382). A
\* client's call runs the method it called, with the data it sent, on the instance it
\* addressed. No handler is given a bigint wider than the other ports read, however
\* deep in the payload (customtypes.go).
RoutedMethodRuns ==
    \A i \in DOMAIN runs :
        LET r == runs[i]
            key == original[1].key
        IN  /\ r.method = Dot(svcs[r.svc].service,
                              IF key = <<"">> THEN Last(DecodeRequest(original[1].body).method) ELSE Last(key))
            /\ key # <<"">> => IsStrictPrefix(<<"REQUEST">> \o Name(r.svc), key)
            /\ \A v \in Messages(r.data) : ~v.wide
            /\ call.via # "peer" =>
                 /\ Name(r.svc) = (IF call.via = "client" /\ call.instance # ""
                                   THEN Dot(call.name, call.instance) ELSE call.name)
                 /\ Last(r.method) = call.method
                 /\ r.data = call.data

\* What a handled error says to its caller: its own code and message.
Says(e) == LET h == OfKind(e, "handled")[1] IN Saw("remote", h.code, h.text, NoData)

\* The caller gets the handler's own answer (client.go, decodeReply; errors.go,
\* HandledError: "the caller then receives the HandledError's own Code and
\* Message, not the wrapping text"): success means the last run returned that
\* value for the method called, a handled error crosses as it was raised however
\* it was wrapped, and a response of another port is a success only if it holds
\* no error and answers this method, with no bigint too wide.
AnswerCrosses ==
    /\ seen.kind = "ok" => \A v \in Messages(seen.data) : ~v.wide
    /\ seen.kind \in {"ok", "remote"} =>
           IF runs # <<>>
           THEN LET o == Last(runs).outcome IN
                /\ seen.kind = "ok" => o.kind = "ok" /\ o.data = seen.data /\ Last(runs).method = Dot(
                       IF call.via = "client" THEN call.name ELSE ResolveClient(call).contract, call.method)
                /\ o.kind = "ok" /\ Marshals(o.data) => seen.kind = "ok"
                /\ o.kind = "err" /\ OfKind(o.err, "handled") # <<>> /\ OfKind(o.err, "unimplemented") = <<>>
                     => seen = Says(o.err)
           ELSE seen.kind = "ok" => /\ ~Has(replies[1], 2)
                                    /\ \E s \in up : svcs[s].peer

\* The texts a response carries.
Quoted(b) == Get(Merged(b, 2), 2, {})

\* An unhandled error's text stays in the service's own log (errors.go,
\* sanitizeForCaller and safeErrorSummary): it crosses to a caller only when
\* exposure is on, and is on no copy on a retry or dead-letter queue.
UnhandledTextStays ==
    /\ \A i \in DOMAIN replies :
          "secret" \in Quoted(replies[i]) => \E s \in up : svcs[s].expose
    /\ \A i \in DOMAIN parked : "secret" \notin parked[i].last
    /\ \A i \in DOMAIN dlq : "secret" \notin dlq[i].last

\* The services whose queues the broker put the message itself on.
Addressed == Targets(original[1], IF call.via = "peer" THEN call.exchange ELSE "bus")

\* The retry ladder is climbed a rung at a time, whatever type the count is written
\* with (headers.go, headerInt): the message itself is run once by each service it was
\* sent to, a copy only after an attempt of its own that failed in infrastructure one
\* rung below, never above MaxRetries, so that each queue the message was sent to is
\* good for MaxRetries attempts more than one; and it is dead-lettered only from the
\* last rung. (A settlement whose publish fails runs the attempt again: Delivery.)
LadderBounded ==
    \A s \in up :
        LET mine == {i \in DOMAIN runs : runs[i].svc = s}
            failed == {i \in mine : runs[i].res.err # <<>>}
            ladder == ~svcs[s].earlyAck /\ svcs[s].retries > 0
        IN  /\ Cardinality({i \in mine : runs[i].from = "caller"}) <= 1
            /\ mine # {} => Cardinality(mine) <=
                   Cardinality(Addressed) * (1 + IF ladder THEN svcs[s].retries ELSE 0)
            /\ \A i \in DOMAIN runs : runs[i].from = s =>
                   /\ ladder /\ runs[i].attempt <= svcs[s].retries
                   /\ Cardinality({j \in DOMAIN runs : runs[j].from = s /\ runs[j].attempt = runs[i].attempt})
                        <= Cardinality({j \in failed : j < i /\ runs[j].attempt = runs[i].attempt - 1})
            /\ Cardinality({i \in DOMAIN dlq : dlq[i].from = s}) <=
                   Cardinality({i \in failed : ladder /\ runs[i].attempt >= svcs[s].retries})

\* A retry or dead-letter copy is the same message (consumer.go, publishRetry,
\* republishedHeaders): its id, key and body are the original's. It comes back where
\* the original's own key leads and nowhere its CC did, and so to the service that
\* failed it if that key is its own. The time of the first failure is the sender's, or
\* that of the first attempt, and no later attempt overwrites it, in whichever service;
\* no expiration of the sender's ends a copy early, and nothing answers from a
\* dead-letter queue.
CopiesFaithful ==
    LET same(m) == /\ m.key = original[1].key /\ m.body = original[1].body /\ m.id = original[1].id
                   /\ m.from # "caller" =>
                        /\ ~m.expires
                        /\ IF HeaderInt(original[1].first) \ {0} # {} THEN m.first = original[1].first
                           ELSE \E i \in DOMAIN runs : /\ m.first = IntHeader(i)
                                                       /\ runs[i].from = "caller" /\ runs[i].res.err # <<>>
        returns(m, s) == /\ TopicMatch(Binding(s), original[1].key)
                         /\ TopicMatch(Binding(m.from), original[1].key) => m.from = s
    IN  /\ \A s \in DOMAIN queue : \A i \in DOMAIN queue[s] :
              same(queue[s][i]) /\ (queue[s][i].from # "caller" => returns(queue[s][i], s))
        /\ \A i \in DOMAIN parked : same(parked[i]) /\ parked[i].replyTo = original[1].replyTo
        /\ \A i \in DOMAIN dlq : same(dlq[i]) /\ ~dlq[i].replyTo
=============================================================================
