------------------------------- MODULE Broker -------------------------------
(***************************************************************************)
(* The in-memory AMQP broker of internal/fakebroker: exchanges, bindings,  *)
(* queues with TTL, dead-lettering and priority, consumers with prefetch,  *)
(* publisher confirms and returns, connection kills and broker restarts.   *)
(* The other modules assume of a broker what this one is checked for.      *)
(*                                                                         *)
(* Every operation runs under the broker's mutex and is one action; only   *)
(* the pumps that feed listeners, the timers, and the two halves of a      *)
(* restart interleave with them. The state is a record s that the          *)
(* operators transform as the locked helpers do. Where the code walks a Go *)
(* map the order is a parameter, unless no outcome depends on it.          *)
(***************************************************************************)
EXTENDS Integers, SequencesExt, Topic

CONSTANTS
    Conns,        \* connections, each dialled once
    Channels,     \* channels, each opened once
    ConnOf,       \* the connection a channel is opened on
    Queues,       \* queue name |-> [durable, autoDelete, exclusive, ttl, dlx, dlxKey, maxPriority]
    Exchanges,    \* declared exchange |-> [kind, durable]
    BindKeys,     \* routing keys queues are bound with
    Policies,     \* confirm policies in use: "ack", "late", "nack", "drop", "hold"
    Tags,         \* consumer tags
    Profiles,     \* client profiles, see Init
    MaxCopies, MaxTags, MaxFaults   \* bounds

VARIABLES
    s,            \* the broker's state
    restarting,   \* between the two critical sections of Restart
    profile,      \* what the clients do in this behaviour
    pubs,         \* publishes made
    faults        \* injected faults so far

vars == <<s, restarting, profile, pubs, faults>>

NoQueue == [exists |-> FALSE]
NewQueue(owner) ==
    [exists |-> TRUE, owner |-> owner, msgs |-> <<>>, consumers |-> <<>>, rr |-> 0]

NewChannel ==
    [st |-> "open", confirm |-> FALSE, listening |-> FALSE, publishSeq |-> 0, prefetch |-> 0,
     nextTag |-> 0, unacked |-> {}, held |-> <<>>, late |-> {}, events |-> <<>>,
     heard |-> <<>>, seen |-> {}]

\* What an earlier client leaves behind: the durable, shared queues and the exchanges.
Left(q) == Queues[q].durable /\ ~Queues[q].autoDelete /\ ~Queues[q].exclusive

\* A profile keeps a behaviour to some of the operations: which ones its clients
\* call (does), on how many channels, how they consume (modes, prefetches), what they
\* publish (sends: [ex, key, mandatory, persistent, priority]), how many consumers and
\* publishes there may be (cons, pubs), and whether an earlier client has declared the
\* topology.
\* gone and deletedByHand are history: how each copy left the broker, and which
\* queues an operator deleted.
Init ==
    /\ profile \in Profiles
    /\ s = [exchanges |-> {""} \cup (IF profile.declared THEN DOMAIN Exchanges ELSE {}),
            bindings |-> <<>>,
            queues |-> [q \in DOMAIN Queues |->
                           IF profile.declared /\ Left(q) THEN NewQueue("none") ELSE NoQueue],
            consumers |-> <<>>,
            channels |-> [c \in Channels |-> [NewChannel EXCEPT !.st = "new"]],
            conns |-> [n \in Conns |-> "new"],
            copies |-> 0, gone |-> {}, deletedByHand |-> {}]
    /\ restarting = FALSE
    /\ pubs = 0
    /\ faults = 0

IsOpen(c) == s.channels[c].st = "open"

\* A copy leaves: settled (acknowledged, rejected or expired), or dropped.
Gone(b, m, q, how) ==
    [b EXCEPT !.gone = @ \cup {[id |-> m.id, q |-> q, how |-> how, persistent |-> m.persistent]}]
Drop(b, q, ms) == FoldLeft(LAMBDA acc, m : Gone(acc, m, q, "dropped"), b, ms)

-----------------------------------------------------------------------------
(***************************************************************************)
(* Delivery to consumers.                                                  *)
(***************************************************************************)
HasCapacityOffByOne(k) == k.autoAck \/ k.prefetch = 0 \/ k.unacked <= k.prefetch
HasCapacity(k) == k.autoAck \/ k.prefetch = 0 \/ k.unacked < k.prefetch

Deliver(b, q, k, m) ==
    LET c == b.consumers[k].ch
        tag == b.channels[c].nextTag + 1
        pushed == [b EXCEPT !.channels[c].nextTag = tag,
                            !.consumers[k].items = Append(@, tag)]
    IN  IF b.consumers[k].autoAck THEN Gone(pushed, m, q, "settled")
        ELSE [pushed EXCEPT
                 !.channels[c].unacked =
                     @ \cup {[tag |-> tag, m |-> m, q |-> q, cons |-> k, orphan |-> FALSE]},
                 !.consumers[k].unacked = @ + 1]

\* next: the highest priority, first in first out within one.
NextIndex(q, msgs) ==
    LET prio(i) == IF msgs[i].priority > Queues[q].maxPriority THEN Queues[q].maxPriority
                   ELSE msgs[i].priority
    IN  CHOOSE i \in DOMAIN msgs :
            /\ \A j \in DOMAIN msgs : prio(j) <= prio(i)
            /\ \A j \in 1..(i - 1) : prio(j) < prio(i)

\* One round of dispatch's loop: the round robin starts at rr and takes the first
\* consumer with spare prefetch.
DispatchOne(b, q) ==
    LET qu == b.queues[q]
        n == Len(qu.consumers)
        at(i) == ((qu.rr + i) % n) + 1
        able == {i \in 0..(n - 1) : HasCapacity(b.consumers[qu.consumers[at(i)]])}
    IN  IF qu.msgs = <<>> \/ able = {} THEN b
        ELSE LET i == CHOOSE i \in able : \A j \in able : i <= j
                 x == NextIndex(q, qu.msgs)
             IN  Deliver([b EXCEPT !.queues[q].rr = (qu.rr + i + 1) % n,
                                   !.queues[q].msgs = RemoveAt(@, x)],
                         q, qu.consumers[at(i)], qu.msgs[x])

DispatchOnce(b, q) == IF ~b.queues[q].exists THEN b ELSE DispatchOne(b, q)
Dispatch(b, q) ==
    IF ~b.queues[q].exists THEN b
    ELSE FoldLeft(LAMBDA acc, m : DispatchOne(acc, q), b, b.queues[q].msgs)

Enqueue(b, q, m, front) ==
    Dispatch([b EXCEPT !.queues[q].msgs = IF front THEN <<m>> \o @ ELSE Append(@, m)], q)

-----------------------------------------------------------------------------
(***************************************************************************)
(* Routing and dead-lettering.                                             *)
(***************************************************************************)
Targets(b, ex, key) ==
    LET hit(bd) ==
            /\ bd.ex = ex
            /\ CASE Exchanges[ex].kind = "fanout" -> TRUE
                 [] Exchanges[ex].kind = "direct" -> bd.key = key
                 [] Exchanges[ex].kind = "topic"  -> TopicMatch(bd.key, key)
        add(qs, bd) == IF Contains(qs, bd.q) THEN qs ELSE Append(qs, bd.q)
        named == {q \in DOMAIN Queues : b.queues[q].exists /\ key = <<q>>}
    IN  IF ex = "" THEN SetToSeq(named)
        ELSE FoldLeft(add, <<>>, SelectSeq(b.bindings, hit))

\* Each target queue gets a copy of its own.
Route(b, ex, key, pub) ==
    FoldLeft(LAMBDA acc, q :
                 Enqueue([acc EXCEPT !.copies = @ + 1], q,
                         [id |-> acc.copies + 1, key |-> key, persistent |-> pub.persistent,
                          priority |-> pub.priority, redelivered |-> FALSE], FALSE),
             b, Targets(b, ex, key))

DeadLetter(b, q, m) ==
    LET def == Queues[q]
        left == Gone(b, m, q, "settled")
    IN  IF def.dlx \notin b.exchanges THEN left
        ELSE Route(left, def.dlx, IF def.dlxKey = <<>> THEN m.key ELSE def.dlxKey, m)

-----------------------------------------------------------------------------
(***************************************************************************)
(* Removal. A delivery of a deleted queue is orphaned: it still refers to  *)
(* the old queue even if one of the same name is declared again.           *)
(***************************************************************************)
DeleteQueueKeepsBindings(b, q) ==
    Drop([b EXCEPT !.queues[q] = NoQueue,
                   !.consumers = [k \in DOMAIN @ |->
                       IF @[k].q = q THEN [@[k] EXCEPT !.live = FALSE] ELSE @[k]]],
         q, b.queues[q].msgs)

DeleteQueueOf(b, q) ==
    Drop([b EXCEPT
             !.queues[q] = NoQueue,
             !.bindings = SelectSeq(@, LAMBDA bd : bd.q # q),
             !.consumers = [k \in DOMAIN @ |->
                 IF @[k].q = q THEN [@[k] EXCEPT !.live = FALSE] ELSE @[k]],
             !.channels = [c \in Channels |->
                 [@[c] EXCEPT !.unacked =
                     {[e EXCEPT !.orphan = e.orphan \/ e.q = q] : e \in @}]]],
         q, b.queues[q].msgs)

RemoveConsumerDeletes(b, k) ==
    LET q == b.consumers[k].q
        removed == [b EXCEPT !.consumers[k].live = FALSE,
                             !.queues[q].consumers = SelectSeq(@, LAMBDA x : x # k)]
    IN  IF removed.queues[q].consumers = <<>> THEN DeleteQueueOf(removed, q) ELSE removed

RemoveConsumer(b, k) ==
    LET q == b.consumers[k].q
        removed == [b EXCEPT !.consumers[k].live = FALSE,
                             !.queues[q].consumers = SelectSeq(@, LAMBDA x : x # k)]
    IN  IF Queues[q].autoDelete /\ removed.queues[q].consumers = <<>>
        THEN DeleteQueueOf(removed, q) ELSE removed

RequeueForgets(b, e) == b
Requeue(b, e) ==
    IF e.orphan THEN Gone(b, e.m, e.q, "dropped")
    ELSE Enqueue(b, e.q, [e.m EXCEPT !.redelivered = TRUE], TRUE)

LiveOn(b, c) == {k \in DOMAIN b.consumers : b.consumers[k].ch = c /\ b.consumers[k].live}

\* channel.shutdown: consumers first, then the unacknowledged deliveries back to
\* the head of their queues, the highest tag first. All a closed channel is still
\* good for is the events already pushed.
ChannelShutdown(b, c) ==
    LET ch == b.channels[c]
        closed == [b EXCEPT !.channels[c] =
                      [NewChannel EXCEPT !.st = "closed", !.listening = ch.listening,
                                         !.events = ch.events, !.heard = ch.heard]]
        alone == FoldLeft(RemoveConsumer, closed, SetToSeq(LiveOn(b, c)))
        orphaned(e) == [e EXCEPT !.orphan = e.orphan \/ ~alone.queues[e.q].exists]
    IN  IF ch.st # "open" THEN b
        ELSE FoldLeft(LAMBDA acc, e : Requeue(acc, orphaned(e)), alone,
                      SetToSortSeq(ch.unacked, LAMBDA x, y : x.tag > y.tag))

\* conn.shutdown: its channels in the given order, then the queues it owns.
OpenOn(ns) == {c \in Channels : s.channels[c].st = "open" /\ ConnOf[c] \in ns}
ConnShutdown(b, n, order) ==
    LET mine == SelectSeq(order, LAMBDA c : ConnOf[c] = n)
        gone == FoldLeft(ChannelShutdown, [b EXCEPT !.conns[n] = "closed"], mine)
        owned == {q \in DOMAIN Queues : gone.queues[q].exists /\ gone.queues[q].owner = n}
    IN  FoldLeft(DeleteQueueOf, gone, SetToSeq(owned))

-----------------------------------------------------------------------------
(***************************************************************************)
(* Connections and channels.                                               *)
(***************************************************************************)
Fault == faults < MaxFaults /\ faults' = faults + 1
Admin == UNCHANGED <<restarting, pubs, faults>>

Dial(n) ==
    /\ s.conns[n] = "new"
    /\ s' = [s EXCEPT !.conns[n] = "open"]
    /\ Admin

OpenChannel(c) ==
    /\ s.conns[ConnOf[c]] = "open" /\ s.channels[c].st = "new"
    /\ Cardinality({x \in Channels : s.channels[x].st # "new"}) < profile.channels
    /\ s' = [s EXCEPT !.channels[c] = NewChannel]
    /\ Admin

\* NotifyPublish and NotifyReturn, which a publisher calls together.
Listen(c) ==
    /\ IsOpen(c) /\ ~s.channels[c].listening
    /\ s' = [s EXCEPT !.channels[c].listening = TRUE]
    /\ Admin

Confirm(c) ==
    /\ IsOpen(c) /\ ~s.channels[c].confirm
    /\ s' = [s EXCEPT !.channels[c].confirm = TRUE]
    /\ Admin

Qos(c, n) ==
    /\ IsOpen(c) /\ s.channels[c].prefetch # n
    /\ s' = [s EXCEPT !.channels[c].prefetch = n]
    /\ Admin

CloseChannel(c) ==
    /\ IsOpen(c)
    /\ s' = ChannelShutdown(s, c)
    /\ Admin

ConnClose(n) ==
    /\ s.conns[n] = "open"
    /\ \E order \in SetToSeqs(OpenOn({n})) : s' = ConnShutdown(s, n, order)
    /\ Admin

KillAll ==
    LET up == {n \in Conns : s.conns[n] = "open"}
    IN  \E ns \in SetToSeqs(up), order \in SetToSeqs(OpenOn(up)) :
            s' = FoldLeft(LAMBDA acc, n : ConnShutdown(acc, n, order), s, ns)

KillConnections ==
    /\ Fault
    /\ KillAll
    /\ UNCHANGED <<restarting, pubs>>

\* Restart kills the connections, lets go of the mutex, and takes it again to drop
\* what does not survive: clients may come back in between.
RestartKill ==
    /\ Fault
    /\ ~restarting
    /\ KillAll
    /\ restarting' = TRUE
    /\ UNCHANGED pubs

RestartSweep ==
    LET kept(ms) == SelectSeq(ms, LAMBDA m : m.persistent)
        sweep(b, q) ==
            IF ~Queues[q].durable THEN DeleteQueueOf(b, q)
            ELSE Drop([b EXCEPT !.queues[q].msgs = kept(@)],
                      q, SelectSeq(b.queues[q].msgs, LAMBDA m : ~m.persistent))
        swept == FoldLeft(sweep, s, SetToSeq({q \in DOMAIN Queues : s.queues[q].exists}))
        stay == {e \in s.exchanges : e = "" \/ Exchanges[e].durable}
    IN  /\ restarting
        /\ s' = [swept EXCEPT !.exchanges = stay,
                              !.bindings = SelectSeq(@, LAMBDA bd : bd.ex \in stay)]
        /\ restarting' = FALSE
        /\ UNCHANGED <<pubs, faults>>

-----------------------------------------------------------------------------
(***************************************************************************)
(* Topology. same is FALSE for arguments other than the declared ones, or  *)
(* malformed: the channel is closed with an exception.                     *)
(***************************************************************************)
ExchangeDeclare(c, ex, same) ==
    /\ IsOpen(c)
    /\ IF same THEN s' = [s EXCEPT !.exchanges = @ \cup {ex}] /\ UNCHANGED faults
       ELSE s' = ChannelShutdown(s, c) /\ Fault
    /\ UNCHANGED <<restarting, pubs>>

Locked(q, c) == Queues[q].exclusive /\ s.queues[q].owner # ConnOf[c]

QueueDeclare(c, q, same) ==
    LET new == NewQueue(IF Queues[q].exclusive THEN ConnOf[c] ELSE "none")
    IN  /\ IsOpen(c)
        /\ IF ~same \/ (s.queues[q].exists /\ Locked(q, c))
           THEN s' = ChannelShutdown(s, c) /\ Fault
           ELSE /\ s' = IF s.queues[q].exists THEN s ELSE [s EXCEPT !.queues[q] = new]
                /\ UNCHANGED faults
        /\ UNCHANGED <<restarting, pubs>>

QueueBind(c, q, key, ex) ==
    LET bd == [ex |-> ex, q |-> q, key |-> key]
    IN  /\ IsOpen(c)
        /\ IF ex \notin s.exchanges \ {""} \/ ~s.queues[q].exists
           THEN s' = ChannelShutdown(s, c) /\ Fault
           ELSE /\ s' = IF Contains(s.bindings, bd) THEN s
                        ELSE [s EXCEPT !.bindings = Append(@, bd)]
                /\ UNCHANGED faults
        /\ UNCHANGED <<restarting, pubs>>

Consume(c, q, tag, autoAck, exclusive) ==
    LET k == Len(s.consumers) + 1
        cons == [ch |-> c, q |-> q, tag |-> tag, autoAck |-> autoAck, exclusive |-> exclusive,
                 prefetch |-> s.channels[c].prefetch, unacked |-> 0, live |-> TRUE,
                 items |-> <<>>]
        refused == \/ ~s.queues[q].exists
                   \/ Locked(q, c)
                   \/ \E x \in ToSet(s.queues[q].consumers) :
                          exclusive \/ s.consumers[x].exclusive
                   \/ \E x \in LiveOn(s, c) : s.consumers[x].tag = tag
    IN  /\ IsOpen(c)
        /\ IF refused THEN s' = ChannelShutdown(s, c) /\ Fault
           ELSE /\ k <= profile.cons
                /\ s' = Dispatch([s EXCEPT !.consumers = Append(@, cons),
                                           !.queues[q].consumers = Append(@, k)], q)
                /\ UNCHANGED faults
        /\ UNCHANGED <<restarting, pubs>>

Cancel(c, tag) ==
    /\ IsOpen(c)
    /\ \E k \in LiveOn(s, c) : s.consumers[k].tag = tag /\ s' = RemoveConsumer(s, k)
    /\ Admin

DeleteQueue(q) ==
    /\ s.queues[q].exists
    /\ Fault
    /\ s' = [DeleteQueueOf(s, q) EXCEPT !.deletedByHand = @ \cup {q}]
    /\ UNCHANGED <<restarting, pubs>>

-----------------------------------------------------------------------------
(***************************************************************************)
(* Publishing. Events are pushed for the listeners in order: the return of *)
(* an unroutable mandatory message, then its confirm.                      *)
(***************************************************************************)
PushInFront(b, c, evs) ==
    [b EXCEPT !.channels[c].events = IF b.channels[c].listening THEN evs \o @ ELSE @]

Push(b, c, evs) ==
    [b EXCEPT !.channels[c].events = IF b.channels[c].listening THEN @ \o evs ELSE @]

Returned(tag, p, routed) ==
    IF p.mandatory /\ ~routed THEN <<[kind |-> "return", tag |-> tag]>> ELSE <<>>
Confirmed(c, tag, kind) ==
    IF s.channels[c].confirm THEN <<[kind |-> kind, tag |-> tag]>> ELSE <<>>

Publish(c, p, policy) ==
    LET tag == s.channels[c].publishSeq + (IF s.channels[c].confirm THEN 1 ELSE 0)
        numbered == [s EXCEPT !.channels[c].publishSeq = tag]
        routed == Route(numbered, p.ex, p.key, p)
        ret == Returned(tag, p, Targets(s, p.ex, p.key) # <<>>)
        ack == Confirmed(c, tag, "ack")
    IN  /\ IsOpen(c) /\ pubs < profile.pubs
        /\ pubs' = pubs + 1
        /\ s' = CASE p.ex \notin s.exchanges -> ChannelShutdown(numbered, c)
                  [] OTHER ->
                       CASE policy = "nack" -> Push(numbered, c, Confirmed(c, tag, "nack"))
                         [] policy = "drop" -> numbered
                         [] policy = "hold" ->
                                [routed EXCEPT !.channels[c].held = Append(@, ret \o ack)]
                         [] policy = "late" ->
                                [Push(routed, c, ret) EXCEPT
                                    !.channels[c].late = @ \cup ToSet(ack)]
                         [] policy = "ack" -> Push(routed, c, ret \o ack)
        /\ UNCHANGED <<restarting, faults>>

\* The delayed confirm's timer; confirms of later publishes may have overtaken it.
ConfirmLate(c, e) ==
    /\ e \in s.channels[c].late
    /\ s' = [Push(s, c, <<e>>) EXCEPT !.channels[c].late = @ \ {e}]
    /\ Admin

ReleaseHeld ==
    LET release(b, c) == [Push(b, c, FlattenSeq(b.channels[c].held)) EXCEPT
                             !.channels[c].held = <<>>]
    IN  /\ \E c \in Channels : s.channels[c].held # <<>>
        /\ s' = FoldLeft(release, s, SetToSeq(Channels))
        /\ Admin

\* A message injected from outside any connection.
Inject(p) ==
    /\ p.ex \in s.exchanges /\ pubs < profile.pubs
    /\ pubs' = pubs + 1
    /\ s' = Route(s, p.ex, p.key, p)
    /\ UNCHANGED <<restarting, faults>>

\* eventPump: in order, and once the channel is closed at most the event in hand.
EventPump(c) ==
    LET ch == s.channels[c]
    IN  /\ ch.events # <<>>
        /\ s' = [s EXCEPT !.channels[c].events = IF ch.st = "closed" THEN <<>> ELSE Tail(@),
                          !.channels[c].heard = Append(@, Head(ch.events))]
        /\ Admin

EventStop(c) ==
    /\ s.channels[c].st = "closed" /\ s.channels[c].events # <<>>
    /\ s' = [s EXCEPT !.channels[c].events = <<>>]
    /\ Admin

-----------------------------------------------------------------------------
(***************************************************************************)
(* Consuming: the delivery pump, expiry and settlement.                    *)
(***************************************************************************)
DeliveryPump(k) ==
    LET cons == s.consumers[k]
    IN  /\ cons.items # <<>>
        /\ s' = [s EXCEPT !.consumers[k].items = Tail(@),
                          !.channels[cons.ch].seen = @ \cup {Head(cons.items)}]
        /\ Admin

DeliveryStop(k) ==
    /\ ~s.consumers[k].live /\ s.consumers[k].items # <<>>
    /\ s' = [s EXCEPT !.consumers[k].items = <<>>]
    /\ Admin

\* The timer of a message that waits; one that fires late finds it and no other.
Expire(q, i) ==
    /\ s.queues[q].exists /\ Queues[q].ttl
    /\ i \in DOMAIN s.queues[q].msgs
    /\ s' = DeadLetter([s EXCEPT !.queues[q].msgs = RemoveAt(@, i)],
                       q, s.queues[q].msgs[i])
    /\ Admin

\* settle: ack, nack with requeue, or reject, of one delivery or of all up to tag;
\* then the queues it touched are dispatched, in any order.
SettleOne(b, c, e, kind) ==
    LET taken == [b EXCEPT !.channels[c].unacked = @ \ {e}, !.consumers[e.cons].unacked = @ - 1]
    IN  CASE kind = "ack"     -> Gone(taken, e.m, e.q, "settled")
          [] kind = "requeue" -> Requeue(taken, e)
          [] kind = "reject"  -> DeadLetter(taken, e.q, e.m)

Settle(c, tag, kind, multiple) ==
    LET es == {e \in s.channels[c].unacked : e.tag = tag \/ (multiple /\ e.tag <= tag)}
        touched == {e.q : e \in {x \in es : ~x.orphan}}
        settled == FoldLeft(LAMBDA acc, e : SettleOne(acc, c, e, kind), s,
                            SetToSortSeq(es, LAMBDA x, y : x.tag < y.tag))
    IN  /\ IsOpen(c) /\ tag \in s.channels[c].seen
        /\ IF es = {} THEN s' = ChannelShutdown(s, c) /\ Fault
           ELSE /\ \E order \in SetToSeqs(touched) : s' = FoldLeft(Dispatch, settled, order)
                /\ UNCHANGED faults
        /\ UNCHANGED <<restarting, pubs>>

-----------------------------------------------------------------------------
ConnectionStep ==
    \/ \E n \in Conns : Dial(n) \/ ("hangup" \in profile.does /\ ConnClose(n))
    \/ \E c \in Channels : OpenChannel(c) \/ CloseChannel(c)
    \/ KillConnections \/ RestartKill \/ RestartSweep

TopologyStep ==
    /\ "declare" \in profile.does
    /\ \E c \in Channels, q \in DOMAIN Queues, ex \in DOMAIN Exchanges, same \in BOOLEAN :
          \/ ExchangeDeclare(c, ex, same)
          \/ QueueDeclare(c, q, same)
          \/ \E key \in BindKeys : QueueBind(c, q, key, ex)

PublisherStep ==
    /\ "publish" \in profile.does
    /\ \E c \in Channels :
          \/ Confirm(c) \/ Listen(c)
          \/ \E p \in profile.sends, policy \in Policies : Publish(c, p, policy)
          \/ \E e \in s.channels[c].late : ConfirmLate(c, e)
          \/ EventPump(c) \/ EventStop(c)
          \/ ReleaseHeld

ConsumerStep ==
    /\ "consume" \in profile.does
    /\ \/ \E c \in Channels, n \in profile.prefetches : Qos(c, n)
       \/ \E c \in Channels, q \in DOMAIN Queues, tag \in Tags, m \in profile.modes :
              Consume(c, q, tag, m.autoAck, m.exclusive)
       \/ \E c \in Channels, tag \in Tags : Cancel(c, tag)
       \/ \E k \in DOMAIN s.consumers : DeliveryPump(k) \/ DeliveryStop(k)
       \/ \E c \in Channels, multiple \in BOOLEAN, kind \in {"ack", "requeue", "reject"} :
              \E tag \in s.channels[c].seen : Settle(c, tag, kind, multiple)
       \/ \E p \in profile.sends : Inject(p)

Next ==
    /\ \/ ConnectionStep \/ TopologyStep \/ PublisherStep \/ ConsumerStep
       \/ \E q \in DOMAIN Queues : DeleteQueue(q)
       \/ \E q \in DOMAIN Queues, i \in 1..MaxCopies : Expire(q, i)
    /\ UNCHANGED profile
    /\ s'.copies <= MaxCopies
    /\ \A c \in Channels : s'.channels[c].nextTag <= MaxTags

Spec == Init /\ [][Next]_vars

-----------------------------------------------------------------------------
Waiting(q) == IF s.queues[q].exists THEN s.queues[q].msgs ELSE <<>>
Unacked == UNION {s.channels[c].unacked : c \in Channels}

\* A copy is always in exactly one place: once in one queue, or out on one
\* unsettled delivery, or gone for one recorded reason. No requeue, dead-letter,
\* shutdown or restart loses or doubles it.
Conserved ==
    LET waiting == UNION {{m.id : m \in ToSet(Waiting(q))} : q \in DOMAIN Queues}
        ids == waiting \cup {e.m.id : e \in Unacked} \cup {g.id : g \in s.gone}
        places == MapThenSumSet(LAMBDA q : Len(Waiting(q)), DOMAIN Queues)
                      + Cardinality(Unacked) + Cardinality(s.gone)
    IN  ids = 1..s.copies /\ places = s.copies

\* A persistent message in a durable, shared queue goes only by being settled,
\* expiring, or with a queue an operator deleted: not with a channel, a connection
\* or a restart.
DurableKept ==
    \A g \in s.gone :
        g.how = "dropped" /\ g.persistent /\ Queues[g.q].durable
        => \/ Queues[g.q].autoDelete \/ Queues[g.q].exclusive
           \/ g.q \in s.deletedByHand

\* Nothing the broker accepted is lost or doubled.
NothingLost == Conserved /\ DurableKept

\* No message waits while a consumer of its queue has spare capacity: every
\* operation that frees capacity or adds a message dispatches before it unlocks.
NoIdle ==
    \A q \in DOMAIN Queues :
        Waiting(q) # <<>> =>
            \A k \in ToSet(s.queues[q].consumers) : ~HasCapacity(s.consumers[k])

\* Prefetch bounds the unsettled deliveries of every consumer, through requeues,
\* cancels and deletions of its queue: its counter is the number of them.
PrefetchHeld ==
    \A k \in DOMAIN s.consumers :
        LET cons == s.consumers[k]
        IN  s.channels[cons.ch].st = "open" =>
               /\ cons.unacked = Cardinality({e \in s.channels[cons.ch].unacked : e.cons = k})
               /\ cons.prefetch = 0 \/ cons.unacked <= cons.prefetch

\* A publisher hears the return of a message before its confirm, and at most one
\* confirm of it, whether the answer was immediate, delayed or held back.
ReturnThenConfirm ==
    \A c \in Channels :
        LET ch == s.channels[c]
            all == ch.heard \o ch.events \o FlattenSeq(ch.held)
        IN  \A i, j \in DOMAIN all :
                i < j /\ all[i].tag = all[j].tag /\ all[i].tag # 0
                => all[i].kind = "return" /\ all[j].kind # "return"

\* Nothing refers to what is gone: bindings join a queue and an exchange that
\* exist, a queue's consumers are live on open channels, and an exclusive queue
\* exists only while the connection that owns it does, and serves it alone.
NothingDangles ==
    /\ \A bd \in ToSet(s.bindings) : bd.ex \in s.exchanges /\ s.queues[bd.q].exists
    /\ \A q \in DOMAIN Queues : s.queues[q].exists =>
        LET of == s.queues[q]
        IN  /\ \A k \in ToSet(of.consumers) :
                  s.consumers[k].live /\ s.channels[s.consumers[k].ch].st = "open"
            /\ Queues[q].exclusive =>
                  /\ s.conns[of.owner] = "open"
                  /\ \A k \in ToSet(of.consumers) : ConnOf[s.consumers[k].ch] = of.owner
=============================================================================
