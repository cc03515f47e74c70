------------------------------- MODULE Events -------------------------------
(***************************************************************************)
(* Events: the listeners' subscriptions and queues, how their bindings are *)
(* kept in step with the subscriptions over starts, reconnections and      *)
(* rebuilt channels, the publisher's channel, and the retries of a failed  *)
(* event. A listener is its own (NewEventListener) or a service's, made by *)
(* Service.Events and started by Service.Start or by its first             *)
(* subscription after it.                                                  *)
(*                                                                         *)
(* The session, the publishing channel and the settlement of a delivery    *)
(* have modules of their own; here a reconnection restores the components  *)
(* one by one under the restore lock, a publish is confirmed or ambiguous, *)
(* and a delivery is handled and settled in one step, or the settlement    *)
(* fails and the event comes back.                                         *)
(***************************************************************************)
EXTENDS Integers, Topic

CONSTANTS
    Listeners,
    Owned,        \* the listeners that are a service's own
    Private,      \* the listeners on a private queue, gone with its connection
    Retrying,     \* the listeners with a retry policy
    Subs,         \* Subscribe and SubscribeAll calls
    On,           \* the listener a subscription is made on
    Plans,        \* possible patterns of the subscriptions and forms of the events
    All,          \* the SubscribeAll calls
    Evs,          \* PublishEvent calls
    TopicOf,      \* the topics in their bodies
    TypeOf,       \* the types of events, and those subscriptions take
    Results,      \* what handlers return: "ok", "fail", "handled"
    Topics,       \* topics the routing is examined on
    MaxRetries, MaxFaults

ASSUME EventsAssumption ==
    /\ Owned \subseteq Listeners /\ \A k, l \in Owned : k = l
    /\ Private \subseteq Listeners \ Owned /\ Retrying \subseteq Listeners
    /\ All \subseteq Subs /\ Subs \cap {"nobody", "app", "svc"} = {}

\* An event is whole; or refused by the publisher's own checks; or not an event
\* envelope, of a type the bus does not know, with data not of its type, or sent
\* under an empty routing key. The last four are other publishers', which are
\* taken to send as PublishEvent does.
ASSUME FormsAssumption ==
    \A p \in Plans, e \in Evs :
        p[e] \in {"whole", "refused", "noise", "unknown", "garbled", "keyless"}

VARIABLES
    plan,         \* the patterns of the subscriptions and the forms of the events
    made,         \* listeners that exist
    router,       \* EventListener.router
    all,          \* EventListener.all
    log,          \* a listener's subscriptions, in the order they were made (history)
    patterns,     \* EventListener.patterns
    started,      \* EventListener.started
    lazy,         \* EventListener.lazy
    starting,     \* who a listener's Start is running for, or "nobody"
    sub,          \* progress of each subscription call
    svc,          \* Service.Start: its progress, and the listener it found
    raced,        \* owned listeners first asked for while Service.Start ran (history)
    stopped,      \* listeners a failed Service.Start stopped (history)
    conn,         \* the connection is up
    ready,        \* the session is ready
    todo,         \* components the supervisor has yet to restore
    enlisted,     \* listeners enrolled in restoration
    lock,         \* the restore lock: who holds it, for which listener, the bindings read
    ch,           \* a consumer's channel: "none", "open" or "dead"
    consuming,    \* consumer.consuming
    bound,        \* broker: patterns a listener's queue is bound with
    queue,        \* broker: events waiting, [e, attempt]
    home,         \* broker: the queue is bound to its redelivery exchange
    parked,       \* broker: events on the retry queue
    pub,          \* the publisher's channel
    ev,           \* progress of each PublishEvent call
    handled,      \* events and the listeners that acknowledged them (history)
    doubled,      \* events and the listeners whose retry copy was stored though the
                  \* event itself came back (history)
    faults

lists == <<plan, made, router, all, log, patterns, lazy, raced>>
subVars == <<lists, sub>>
consVars == <<started, starting, svc, stopped, enlisted, consuming>>
waiting == <<queue, parked, handled, doubled>>
brokerVars == <<bound, home, waiting>>
sessVars == <<conn, ready, todo>>
pubVars == <<pub, ev>>
vars == <<subVars, consVars, brokerVars, sessVars, pubVars, lock, ch, faults>>

Free == [who |-> "nobody", l |-> "none", snap |-> {}]
Held(who, l) == [who |-> who, l |-> l, snap |-> patterns[l]]
Each(x) == [l \in Listeners |-> x]

\* NewEventListener refuses retries on a queue that goes with its connection.
NewEventListener(l) == l \notin Owned /\ (l \in Retrying => l \notin Private)

Init ==
    /\ plan \in Plans
    /\ made = {l \in Listeners : NewEventListener(l)}
    /\ router = Each(EmptyTrie) /\ all = Each(<<>>) /\ log = Each(<<>>) /\ patterns = Each({})
    /\ started = Each(FALSE) /\ lazy = Each(FALSE) /\ starting = Each("nobody")
    /\ sub = [s \in Subs |-> "idle"]
    /\ svc = [pc |-> "idle", seen |-> {}] /\ raced = {} /\ stopped = {}
    /\ conn = TRUE /\ ready = TRUE /\ todo = {} /\ enlisted = {}
    /\ lock = Free
    /\ ch = Each("none") /\ consuming = Each(FALSE)
    /\ bound = Each({}) /\ home = {} /\ queue = Each(<<>>) /\ parked = Each(<<>>)
    /\ pub = "open" /\ ev = [e \in Evs |-> "idle"]
    /\ handled = {} /\ doubled = {} /\ faults = 0

Fault == faults < MaxFaults /\ faults' = faults + 1

-----------------------------------------------------------------------------
(***************************************************************************)
(* Subscribing.                                                            *)
(***************************************************************************)
\* Mutant: a listener made after the start waits for a Start.
GetEventsNeverLazy(l) ==
    /\ l \in Owned \ made
    /\ made' = made \cup {l}
    /\ raced' = IF svc.pc \notin {"idle", "started"} THEN raced \cup {l} ELSE raced
    /\ UNCHANGED <<plan, router, all, log, patterns, sub, lazy>>
    /\ UNCHANGED <<consVars, brokerVars, sessVars, pubVars, lock, ch, faults>>

\* Service.Events makes the listener; once the service has started, its first
\* subscription will start it.
GetEvents(l) ==
    /\ l \in Owned \ made
    /\ made' = made \cup {l}
    /\ lazy' = [lazy EXCEPT ![l] = svc.pc = "started"]
    /\ raced' = IF svc.pc \notin {"idle", "started"} THEN raced \cup {l} ELSE raced
    /\ UNCHANGED <<plan, router, all, log, patterns, sub>>
    /\ UNCHANGED <<consVars, brokerVars, sessVars, pubVars, lock, ch, faults>>

\* The locked part of add: what happens next is decided here, on what it reads.
Subscribe(s) ==
    LET l == On[s]
        p == plan[s]
        fresh == p \notin patterns[l]
    IN  /\ sub[s] = "idle" /\ l \in made
        /\ IF s \in All
           THEN all' = [all EXCEPT ![l] = Append(@, s)] /\ UNCHANGED router
           ELSE /\ router' = [router EXCEPT ![l] =
                      Add(@, p, s, Len(log[l]) + 1)]
                /\ UNCHANGED all
        /\ log' = [log EXCEPT ![l] = Append(@, s)]
        /\ patterns' = [patterns EXCEPT ![l] = @ \cup {p}]
        /\ sub' = [sub EXCEPT ![s] = IF lazy[l] /\ ~started[l] THEN "start"
                                     ELSE IF fresh /\ started[l] THEN "bind" ELSE "ok"]
        /\ UNCHANGED <<plan, made, lazy, raced>>
        /\ UNCHANGED <<consVars, brokerVars, sessVars, pubVars, lock, ch, faults>>

\* consumer.bind, under the restore lock. A refused bind closes the channel.
BindWith(s, mayLock) ==
    LET l == On[s]
    IN  /\ sub[s] = "bind" /\ mayLock
        /\ \/ /\ sub' = [sub EXCEPT ![s] = "ok"]
              /\ bound' = IF ch[l] = "open" THEN [bound EXCEPT ![l] = @ \cup {plan[s]}] ELSE bound
              /\ UNCHANGED <<ch, faults>>
           \/ /\ ch[l] = "open" /\ Fault
              /\ sub' = [sub EXCEPT ![s] = "err"]
              /\ ch' = [ch EXCEPT ![l] = "dead"]
              /\ UNCHANGED bound
        /\ UNCHANGED <<lists, home, waiting, consVars, sessVars, pubVars, lock>>

\* Mutant: without the restore lock.
BindUnlocked(s) == BindWith(s, TRUE)
Bind(s) == BindWith(s, lock = Free)

-----------------------------------------------------------------------------
(***************************************************************************)
(* Starting. EventListener.Start marks the listener started, then attaches *)
(* its consumer; whoever calls it meanwhile returns at once.               *)
(***************************************************************************)
Begin(l, who) ==
    IF started[l] THEN UNCHANGED <<started, starting, consuming>>
    ELSE /\ started' = [started EXCEPT ![l] = TRUE]
         /\ starting' = [starting EXCEPT ![l] = who]
         /\ consuming' = [consuming EXCEPT ![l] = TRUE]

\* Start, by the application (a standalone listener) or a lazy subscription.
StartListener(l) ==
    /\ l \in made \ Owned
    /\ ~started[l] /\ Begin(l, "app")
    /\ UNCHANGED <<svc, stopped, enlisted>>
    /\ UNCHANGED <<subVars, brokerVars, sessVars, pubVars, lock, ch, faults>>

SubscribeStarts(s) ==
    LET l == On[s]
    IN  /\ sub[s] = "start"
        /\ Begin(l, s)
        /\ sub' = [sub EXCEPT ![s] = IF started[l] THEN "ok" ELSE "starting"]
        /\ UNCHANGED <<lists, svc, stopped, enlisted>>
        /\ UNCHANGED <<brokerVars, sessVars, pubVars, lock, ch, faults>>

\* Service.Start: it reads which listener there is, starts the request consumer,
\* then that listener, and is started once the cancel listener is up.
At(pc) == [svc EXCEPT !.pc = pc]

ServiceStart ==
    /\ svc.pc = "idle"
    /\ svc' = [pc |-> "requests", seen |-> Owned \cap made]
    /\ UNCHANGED <<started, starting, stopped, enlisted, consuming>>
    /\ UNCHANGED <<subVars, brokerVars, sessVars, pubVars, lock, ch, faults>>

ServiceStartsEvents ==
    /\ svc.pc = "requests"
    /\ \/ /\ svc.seen = {} /\ svc' = At("cancels")
          /\ UNCHANGED <<started, starting, consuming, faults>>
       \/ /\ \E l \in svc.seen : /\ Begin(l, "svc")
                                /\ svc' = At(IF started[l] THEN "cancels" ELSE "starting")
          /\ UNCHANGED faults
       \/ /\ Fault /\ svc' = At("idle")   \* the request consumer did not start
          /\ UNCHANGED <<started, starting, consuming>>
    /\ UNCHANGED <<stopped, enlisted>>
    /\ UNCHANGED <<subVars, brokerVars, sessVars, pubVars, lock, ch>>

\* ensureCancelListener fails: the request consumer and the listener stop.
ServiceStarted ==
    /\ svc.pc = "cancels"
    /\ \/ svc' = At("started") /\ UNCHANGED <<consuming, stopped, faults>>
       \/ /\ Fault /\ svc' = At("idle")
          /\ consuming' = [l \in Listeners |-> consuming[l] /\ l \notin svc.seen]
          /\ stopped' = stopped \cup svc.seen
    /\ UNCHANGED <<started, starting, enlisted>>
    /\ UNCHANGED <<subVars, brokerVars, sessVars, pubVars, lock, ch>>

\* The end of a Start: its caller learns, and a failed one can be repeated.
Ends(l, ok) ==
    LET who == starting[l]
    IN  /\ starting' = [starting EXCEPT ![l] = "nobody"]
        /\ started' = [started EXCEPT ![l] = ok]
        /\ consuming' = [consuming EXCEPT ![l] = @ /\ ok]
        /\ enlisted' = IF ok THEN enlisted \cup {l} ELSE enlisted
        /\ sub' = IF who \in Subs THEN [sub EXCEPT ![who] = IF ok THEN "ok" ELSE "err"] ELSE sub
        /\ svc' = IF who = "svc" THEN At(IF ok THEN "cancels" ELSE "idle") ELSE svc
        /\ UNCHANGED stopped

\* attach gives up waiting for the connection.
AttachGivesUp(l) ==
    /\ starting[l] # "nobody" /\ ~(lock.who = "start" /\ lock.l = l)
    /\ Fault
    /\ Ends(l, FALSE)
    /\ UNCHANGED <<lists, brokerVars, sessVars, pubVars, lock, ch>>

-----------------------------------------------------------------------------
(***************************************************************************)
(* consumer.restoreTopology, under the restore lock: it reads the patterns *)
(* (bindings), declares the queue and binds it, then installs the channel  *)
(* and consumes. It runs for a Start, for the supervisor after a           *)
(* reconnection, and to rebuild a channel that died alone.                 *)
(***************************************************************************)
TakesLock(who, l) ==
    /\ lock = Free /\ conn
    /\ CASE who = "start"   -> ready /\ starting[l] # "nobody"
         [] who = "sup"     -> l \in todo
         [] who = "recover" -> ready /\ consuming[l] /\ ch[l] = "dead" /\ l \in enlisted
    /\ lock' = Held(who, l)
    /\ UNCHANGED <<subVars, consVars, brokerVars, sessVars, pubVars, ch, faults>>

\* declareRetryTopology, and the redelivery exchange of this queue.
DeclareRetryTopology(l) == home' = home \cup ({l} \cap Retrying)

Restored ==
    LET l == lock.l
    IN  /\ lock # Free /\ conn
        /\ bound' = [bound EXCEPT ![l] = @ \cup lock.snap]
        /\ ch' = [ch EXCEPT ![l] = "open"]
        /\ lock' = Free
        /\ IF lock.who = "start" THEN Ends(l, TRUE) ELSE UNCHANGED <<consVars, sub>>
        /\ todo' = IF lock.who = "sup" THEN todo \ {l} ELSE todo
        /\ DeclareRetryTopology(l)
        /\ UNCHANGED <<lists, waiting, conn, ready, pubVars, faults>>

\* It fails part of the way, on a live connection or because the connection went:
\* a Start fails or waits again, the supervisor drops the connection, a rebuild may
\* be tried again (Session has the one that is not).
RestoreFails ==
    LET l == lock.l
    IN  /\ lock # Free
        /\ lock' = Free
        /\ \E part \in SUBSET lock.snap :
              bound' = IF conn /\ l \notin Private THEN [bound EXCEPT ![l] = @ \cup part] ELSE bound
        /\ IF conn THEN Fault ELSE UNCHANGED faults
        /\ IF conn /\ lock.who = "start" THEN Ends(l, FALSE) ELSE UNCHANGED <<consVars, sub>>
        /\ conn' = (conn /\ lock.who # "sup")
        /\ UNCHANGED <<lists, home, waiting, ready, todo, pubVars, ch>>

\* The connection goes, with every channel and the private queues; the supervisor
\* restores what is enlisted on the next one, the publisher last to matter, and
\* announces it.
ConnLost ==
    /\ conn /\ Fault
    /\ conn' = FALSE /\ ready' = FALSE
    /\ ch' = [l \in Listeners |-> IF ch[l] = "open" THEN "dead" ELSE ch[l]]
    /\ bound' = [l \in Listeners |-> IF l \in Private THEN {} ELSE bound[l]]
    /\ queue' = [l \in Listeners |-> IF l \in Private THEN <<>> ELSE queue[l]]
    /\ pub' = "dead"
    /\ UNCHANGED <<todo, home, parked, handled, doubled, ev, lock, subVars, consVars>>

Reconnects ==
    /\ ~conn /\ lock = Free
    /\ conn' = TRUE /\ ready' = FALSE
    /\ todo' = enlisted
    /\ ch' = [l \in Listeners |-> IF ch[l] = "open" THEN "dead" ELSE ch[l]]
    /\ pub' = "dead"
    /\ UNCHANGED <<ev, lock, faults, subVars, consVars, brokerVars>>

Announces ==
    /\ conn /\ ~ready /\ todo = {} /\ lock = Free
    /\ ready' = TRUE /\ pub' = "open"
    /\ UNCHANGED <<conn, todo, ev, lock, ch, faults, subVars, consVars, brokerVars>>

\* A channel dies on a live connection; an operator deletes a queue, which ends its
\* consumer.
ChannelDies(l) ==
    /\ ch[l] = "open" /\ Fault
    /\ ch' = [ch EXCEPT ![l] = "dead"]
    /\ \/ UNCHANGED <<bound, home, queue>>
       \/ /\ bound' = [bound EXCEPT ![l] = {}] /\ home' = home \ {l}
          /\ queue' = [queue EXCEPT ![l] = <<>>]
    /\ UNCHANGED <<parked, handled, doubled, lock, sessVars, pubVars, subVars, consVars>>

-----------------------------------------------------------------------------
(***************************************************************************)
(* Publishing, and what becomes of an event.                               *)
(***************************************************************************)
Delivered(Q, c, L) == [l \in Listeners |-> IF l \in L THEN Append(Q[l], c) ELSE Q[l]]
RoutingKey(e) == IF plan[e] = "keyless" THEN <<"">> ELSE TopicOf[e]
Routes(e) == {l \in Listeners : \E p \in bound[l] : TopicMatch(p, RoutingKey(e))}

\* eventPublisher.publish waits until the session is ready and sends on a live
\* channel. What the channel did not take is sent again; what it may have taken is
\* an error.
Publish(e) ==
    /\ ready /\ pub = "open"
    /\ \/ /\ ev' = [ev EXCEPT ![e] = "ok"]
          /\ queue' = Delivered(queue, [e |-> e, n |-> 0], Routes(e))
          /\ UNCHANGED <<pub, faults>>
       \/ Fault /\ pub' = "dead" /\ UNCHANGED <<ev, queue>>
       \/ /\ Fault /\ pub' = "dead"
          /\ ev' = [ev EXCEPT ![e] = "err"]
          /\ \E L \in {{}, Routes(e)} : queue' = Delivered(queue, [e |-> e, n |-> 0], L)
    /\ UNCHANGED <<bound, home, parked, handled, doubled, lock, ch, sessVars, subVars, consVars>>

\* repair: under the restore lock, a publisher renews a dead channel, or fails to.
Repair(e) ==
    /\ ready /\ pub = "dead" /\ lock = Free
    /\ \/ pub' = "open" /\ UNCHANGED <<ev, faults>>
       \/ Fault /\ ev' = [ev EXCEPT ![e] = "err"] /\ UNCHANGED pub
    /\ UNCHANGED <<lock, ch, sessVars, subVars, consVars, brokerVars>>

\* PublishEvent checks the event before it takes a channel.
PublishEvent(e) ==
    /\ ev[e] = "idle"
    /\ \/ /\ plan[e] = "refused"
          /\ ev' = [ev EXCEPT ![e] = "err"]
          /\ UNCHANGED <<pub, faults, lock, ch, sessVars, subVars, consVars, brokerVars>>
       \/ plan[e] # "refused" /\ (Publish(e) \/ Repair(e))

\* The handlers an event runs, in order: those of every event, then those whose
\* pattern matches its routing key, or without one the topic in its body, of its
\* type.
Handlers(l, e) ==
    LET matchOn == IF RoutingKey(e) = <<"">> THEN TopicOf[e] ELSE RoutingKey(e)
    IN  all[l] \o SelectSeq(Match(router[l], matchOn), LAMBDA s : TypeOf[s] = TypeOf[e])

\* Mutant: data that does not decode is an ordinary failure.
SubscribeTypeRetries(e) == IF plan[e] = "garbled" THEN {"fail"} ELSE Results

\* What a subscription may return. An event it cannot decode will never decode:
\* that failure is a handled one (eventDecodeError).
EventDecodeError == {"handled"}
SubscribeType(e) == IF plan[e] = "garbled" THEN EventDecodeError ELSE Results
SubscribeAll(e)  == IF plan[e] \in {"garbled", "unknown"} THEN EventDecodeError ELSE Results
Returns(s, e)    == IF s \in All THEN SubscribeAll(e) ELSE SubscribeType(e)

\* The handlers run until one fails, and its failure is the event's.
Outcomes(hs, e) ==
    LET passed(i) == \A j \in 1..i : "ok" \in Returns(hs[j], e)
    IN  {r \in {"ok"} : passed(Len(hs))}
        \cup UNION {Returns(hs[i], e) \ {"ok"} : i \in {n \in DOMAIN hs : passed(n - 1)}}

Decodes(e) == plan[e] # "noise"

Handled(l, e) == IF Decodes(e) THEN Outcomes(Handlers(l, e), e) ELSE EventDecodeError
MayRetry(l, c, res) == res = "fail" /\ l \in Retrying /\ c.n < MaxRetries
Park(l, c) == Delivered(parked, [c EXCEPT !.n = @ + 1], {l})

\* The event is acknowledged, parked for a retry, dead-lettered, or, without a retry
\* policy, dropped.
Handle(l) ==
    LET c == Head(queue[l])
    IN  /\ ch[l] = "open" /\ consuming[l] /\ queue[l] # <<>>
        /\ \E res \in Handled(l, c.e) :
              /\ handled' = IF res = "ok" THEN handled \cup {<<c.e, l>>} ELSE handled
              /\ parked' = IF MayRetry(l, c, res) THEN Park(l, c) ELSE parked
        /\ queue' = [queue EXCEPT ![l] = Tail(@)]
        /\ UNCHANGED <<bound, home, doubled, lock, ch, faults, sessVars, pubVars, subVars, consVars>>

\* The event comes back: its retry copy or dead letter could not be confirmed, so
\* that it is requeued (requeueLater), or its channel died before its settlement
\* arrived. Either way the broker may have stored the retry copy.
SettleFails(l) ==
    LET c == Head(queue[l])
    IN  /\ ch[l] = "open" /\ consuming[l] /\ queue[l] # <<>> /\ Fault
        /\ \E res \in Handled(l, c.e) :
              /\ \/ UNCHANGED <<parked, doubled>>
                 \/ /\ MayRetry(l, c, res) /\ parked' = Park(l, c)
                    /\ doubled' = doubled \cup {<<c.e, l>>}
              /\ \/ ch' = [ch EXCEPT ![l] = "dead"]
                 \/ res # "ok" /\ l \in Retrying /\ UNCHANGED ch
        /\ UNCHANGED <<bound, home, queue, handled, lock, sessVars, pubVars, subVars, consVars>>

\* Mutant: the retry queue dead-letters to the events exchange.
RedeliverToAll(l) ==
    /\ parked[l] # <<>>
    /\ parked' = [parked EXCEPT ![l] = Tail(@)]
    /\ queue' = Delivered(queue, Head(parked[l]), Routes(Head(parked[l]).e))
    /\ UNCHANGED <<bound, home, handled, doubled, lock, ch, faults, sessVars, pubVars, subVars, consVars>>

\* The retry delay ends: the redelivery exchange reaches this listener's queue alone.
Redeliver(l) ==
    /\ parked[l] # <<>>
    /\ parked' = [parked EXCEPT ![l] = Tail(@)]
    /\ queue' = Delivered(queue, Head(parked[l]), {l} \cap home)
    /\ UNCHANGED <<bound, home, handled, doubled, lock, ch, faults, sessVars, pubVars, subVars, consVars>>

-----------------------------------------------------------------------------
Next ==
    \/ \E s \in Subs : Subscribe(s) \/ Bind(s) \/ SubscribeStarts(s)
    \/ ServiceStart \/ ServiceStartsEvents \/ ServiceStarted
    \/ \E l \in Listeners : \/ GetEvents(l) \/ StartListener(l) \/ AttachGivesUp(l)
                            \/ \E who \in {"start", "sup", "recover"} : TakesLock(who, l)
                            \/ ChannelDies(l) \/ Handle(l) \/ SettleFails(l) \/ Redeliver(l)
    \/ Restored \/ RestoreFails \/ ConnLost \/ Reconnects \/ Announces
    \/ \E e \in Evs : PublishEvent(e)

Spec == Init /\ [][Next]_vars

-----------------------------------------------------------------------------
\* Whatever the order of a subscription, a start, a reconnection and a rebuild, a
\* live channel's queue is bound with every recorded pattern, or the binding is still
\* on its way: bind waits for the restore lock so that it cannot fall between a
\* restore's reading of the bindings and its channel (consumer.go:427-429), and a
\* pattern recorded while there is no channel is left to the restore.
SubscribedIsBound ==
    \A l \in Listeners : ch[l] = "open" =>
        \A p \in patterns[l] \ bound[l] :
            \E s \in Subs : On[s] = l /\ plan[s] = p /\ sub[s] = "bind"

\* The trie finds, for every topic, the subscriptions whose pattern matches it, each
\* once and in the order they were made (topic/trie.go).
RoutesInOrder ==
    [][\A l \in Listeners : router'[l] # router[l] => \A t \in Topics :
          Match(router'[l], t) =
              SelectSeq(log'[l], LAMBDA s : s \notin All /\ TopicMatch(plan[s], t))]_vars

\* A retry is of an event that this listener failed and may yet handle: once it has
\* acknowledged an event it gets it again only if a retry copy was stored while the
\* event itself came back, which is why handlers deduplicate (docs/events.md:255),
\* and never for another listener's failure (eventlistener.go:115-119); one that cannot be
\* read "fails the same way on every redelivery, so it is not retried"
\* (eventlistener.go:249-252); and none waits for a queue that has gone with its
\* connection.
RetriesEarned ==
    \A l \in Listeners :
        /\ \A i \in DOMAIN queue[l] : <<queue[l][i].e, l>> \notin handled \ doubled
        /\ \A i \in DOMAIN parked[l] :
              /\ <<parked[l][i].e, l>> \notin handled \ doubled
              /\ plan[parked[l][i].e] \notin {"noise", "garbled"}
              /\ l \notin Private

\* "Subscribe to it before or after Start" (service.go:387): once the service has
\* started, a subscription on its listener that reported success is served, or its
\* start is under way, except where somebody was told of a failed start, or where
\* Events was first called while Start ran.
SubscriptionServed ==
    \A s \in Subs : LET l == On[s] IN
        svc.pc = "started" /\ l \in Owned \ (raced \cup stopped) /\ sub[s] = "ok" =>
            \/ consuming[l] /\ started[l]
            \/ \E x \in Subs : On[x] = l /\ sub[x] = "err"

\* A start that failed can be retried (service.go:317): once Start has succeeded, the
\* listener it found is consuming.
StartServesEvents ==
    svc.pc = "started" => \A l \in svc.seen : consuming[l]
=============================================================================
