---------------------------- MODULE EventsProofs ----------------------------
(***************************************************************************)
(* Proofs about event listeners, for any listeners, subscriptions, events, *)
(* retries and faults: bindings follow subscriptions, a subscription that  *)
(* reported success on a started service is served, and a retry is earned. *)
(***************************************************************************)
EXTENDS Events, TLAPS

\* The state of a listener, a call or a queue, as far as the proofs read it.
Copy == [e : Evs, n : Nat]
TypeOK ==
    /\ made \subseteq Listeners /\ enlisted \subseteq Listeners
    /\ started \in [Listeners -> BOOLEAN] /\ consuming \in [Listeners -> BOOLEAN]
    /\ lazy \in [Listeners -> BOOLEAN]
    /\ DOMAIN patterns = Listeners /\ DOMAIN bound = Listeners
    /\ DOMAIN starting = Listeners /\ DOMAIN ch = Listeners
    /\ DOMAIN sub = Subs /\ DOMAIN ev = Evs
    /\ DOMAIN svc = {"pc", "seen"} /\ svc.seen \subseteq Owned
    /\ queue \in [Listeners -> Seq(Copy)] /\ parked \in [Listeners -> Seq(Copy)]
    /\ lock # Free => lock.l \in Listeners /\ lock.who \in {"start", "sup", "recover"}

\* A Start runs on a listener that exists and is marked started; only once it
\* has ended well is the listener enrolled, restored and on a channel.
Lifecycle ==
    /\ \A l \in Listeners : /\ starting[l] # "nobody" => started[l]
                            /\ started[l] => l \in made
                            /\ ch[l] = "open" => l \in enlisted
    /\ \A l \in enlisted : started[l] /\ starting[l] = "nobody"
    /\ todo \subseteq enlisted
    /\ lock # Free => IF lock.who = "start" THEN starting[lock.l] # "nobody"
                      ELSE lock.l \in enlisted

\* A pattern that a restore under way has not read is bound after it.
OnItsWay(l, p) == \E s \in Subs : On[s] = l /\ plan[s] = p /\ sub[s] = "bind"
ReadOrComing == lock # Free => \A p \in patterns[lock.l] \ lock.snap : OnItsWay(lock.l, p)

\* Who runs a Start, and what a service's listener knows of the service.
Told(l) == \E x \in Subs : On[x] = l /\ sub[x] = "err"
Starters ==
    /\ \A l \in Listeners :
           starting[l] \in Subs => On[starting[l]] = l /\ sub[starting[l]] = "starting"
    /\ \A l \in Listeners : starting[l] = "svc" => l \in svc.seen /\ svc.pc = "starting"
    /\ \A l \in Owned : starting[l] \in Subs \cup {"nobody", "svc"}
    /\ \A l \in Listeners \ stopped : consuming[l] <=> started[l]
    /\ \A s \in Subs : sub[s] # "idle" => On[s] \in made
    /\ \A s \in Subs : sub[s] \in {"start", "starting"} => lazy[On[s]]
Known ==
    /\ svc.seen \subseteq made
    /\ svc.pc \in {"cancels", "started"} => \A l \in svc.seen : started[l]
    /\ \A l \in Listeners : lazy[l] => /\ svc.pc = "started"
                                       /\ l \in (Owned \cap made) \ svc.seen
    /\ svc.pc # "idle" => \A l \in (Owned \cap made) \ (raced \cup svc.seen) : lazy[l]
    /\ \A s \in Subs : sub[s] \in {"bind", "ok"} /\ On[s] \in Listeners /\ lazy[On[s]] =>
                           started[On[s]] \/ Told(On[s])

\* A listener has at most one copy of an event, until it acknowledges it; the events
\* exempt (dbl) are those that came back though their retry copy was stored.
Done(l)  == {e \in Evs : <<e, l>> \in handled}
Twice(l) == {e \in Evs : <<e, l>> \in doubled}
Absent(q, e) == \A i \in DOMAIN q : q[i].e # e
Lone(q, dbl) == \A i, j \in DOMAIN q : q[i].e = q[j].e => i = j \/ q[i].e \in dbl
Single(q, p, done, dbl) ==
    /\ Lone(q, dbl) /\ Lone(p, dbl)
    /\ \A i \in DOMAIN q : q[i].e \in dbl \/ (Absent(p, q[i].e) /\ q[i].e \notin done)
    /\ \A i \in DOMAIN p : p[i].e \in dbl \/ p[i].e \notin done
Copies ==
    /\ \A l \in Listeners : Single(queue[l], parked[l], Done(l), Twice(l))
    /\ \A e \in Evs, l \in Listeners : ev[e] = "idle" =>
           Absent(queue[l], e) /\ Absent(parked[l], e) /\ e \notin Done(l)
Parked ==
    /\ made \cap Private \cap Retrying = {}
    /\ \A l \in Listeners : \A i \in DOMAIN parked[l] :
           l \notin Private /\ plan[parked[l][i].e] \notin {"noise", "garbled"}

EInv ==
    /\ TypeOK /\ Lifecycle /\ ReadOrComing /\ SubscribedIsBound
    /\ Starters /\ Known /\ Copies /\ Parked

-----------------------------------------------------------------------------
USE DEF lists, subVars, consVars, waiting, brokerVars, sessVars, pubVars

\* A fresh bus has listeners without subscriptions, channels or events.
LEMMA InitEInv == Init => EInv
<1> SUFFICES ASSUME Init PROVE EInv
  BY Zenon
<1>1. TypeOK
  BY EventsAssumption DEF Init, TypeOK, Each, Free, Copy
<1>2. Lifecycle /\ ReadOrComing /\ SubscribedIsBound
  BY Zenon DEF Init, Lifecycle, ReadOrComing, SubscribedIsBound, Each, Free
<1>3. Starters /\ Known
  BY EventsAssumption DEF Init, Starters, Known, Each
<1>4. Copies
  BY DEF Init, Copies, Each, Single, Lone, Absent, Done, Twice
<1>5. Parked
  BY EventsAssumption DEF Init, Parked, Each, NewEventListener
<1> QED
  BY <1>1, <1>2, <1>3, <1>4, <1>5, Zenon DEF EInv

-----------------------------------------------------------------------------
\* Service.Start moves on and keeps the listener it found.
LEMMA AtKeeps ==
    ASSUME TypeOK, NEW pc
    PROVE  At(pc).pc = pc /\ At(pc).seen = svc.seen /\ DOMAIN At(pc) = {"pc", "seen"}
BY DEF TypeOK, At

\* EventListener.Start marks a listener that is not started, or leaves all alone.
LEMMA BeginMarks ==
    ASSUME TypeOK, NEW l \in Listeners, NEW who, Begin(l, who)
    PROVE  /\ started' \in [Listeners -> BOOLEAN] /\ consuming' \in [Listeners -> BOOLEAN]
           /\ DOMAIN starting' = Listeners
           /\ \A k \in Listeners \ {l} : /\ started'[k] = started[k]
                                         /\ starting'[k] = starting[k]
                                         /\ consuming'[k] = consuming[k]
           /\ IF started[l] THEN UNCHANGED <<started, starting, consuming>>
              ELSE started'[l] /\ starting'[l] = who /\ consuming'[l]
<1>1. /\ started \in [Listeners -> BOOLEAN] /\ consuming \in [Listeners -> BOOLEAN]
      /\ DOMAIN starting = Listeners
  BY Zenon DEF TypeOK
<1>2. CASE started[l]
  BY <1>1, <1>2, Zenon DEF Begin
<1>3. CASE ~started[l]
  <2>1. /\ started' = [started EXCEPT ![l] = TRUE]
        /\ starting' = [starting EXCEPT ![l] = who]
        /\ consuming' = [consuming EXCEPT ![l] = TRUE]
    BY <1>3, Zenon DEF Begin
  <2> QED
    BY <1>1, <1>3, <2>1, Zenon
<1> QED
  BY <1>2, <1>3, Zenon

\* The end of a Start changes nothing of another listener, and tells its caller.
LEMMA EndsMarks ==
    ASSUME TypeOK, NEW l \in Listeners, NEW ok \in BOOLEAN, Ends(l, ok)
    PROVE  /\ started' \in [Listeners -> BOOLEAN] /\ consuming' \in [Listeners -> BOOLEAN]
           /\ DOMAIN starting' = Listeners
           /\ \A k \in Listeners \ {l} : /\ started'[k] = started[k]
                                         /\ starting'[k] = starting[k]
                                         /\ consuming'[k] = consuming[k]
           /\ started'[l] = ok /\ starting'[l] = "nobody" /\ (consuming'[l] <=> consuming[l] /\ ok)
           /\ enlisted' = IF ok THEN enlisted \cup {l} ELSE enlisted
           /\ DOMAIN sub' = Subs /\ \A s \in Subs \ {starting[l]} : sub'[s] = sub[s]
           /\ starting[l] \in Subs => sub'[starting[l]] = IF ok THEN "ok" ELSE "err"
           /\ DOMAIN svc' = {"pc", "seen"} /\ svc'.seen = svc.seen
           /\ svc'.pc = IF starting[l] = "svc" THEN IF ok THEN "cancels" ELSE "idle" ELSE svc.pc
           /\ UNCHANGED stopped
<1>1. /\ starting' = [starting EXCEPT ![l] = "nobody"]
      /\ started' = [started EXCEPT ![l] = ok]
      /\ consuming' = [consuming EXCEPT ![l] = @ /\ ok]
      /\ enlisted' = IF ok THEN enlisted \cup {l} ELSE enlisted
      /\ sub' = IF starting[l] \in Subs
                THEN [sub EXCEPT ![starting[l]] = IF ok THEN "ok" ELSE "err"] ELSE sub
      /\ svc' = IF starting[l] = "svc" THEN At(IF ok THEN "cancels" ELSE "idle") ELSE svc
      /\ UNCHANGED stopped
  BY Zenon DEF Ends
<1>2. /\ started' \in [Listeners -> BOOLEAN] /\ consuming' \in [Listeners -> BOOLEAN]
      /\ DOMAIN starting' = Listeners
      /\ \A k \in Listeners \ {l} : /\ started'[k] = started[k]
                                    /\ starting'[k] = starting[k]
                                    /\ consuming'[k] = consuming[k]
      /\ started'[l] = ok /\ starting'[l] = "nobody" /\ (consuming'[l] <=> consuming[l] /\ ok)
  BY <1>1 DEF TypeOK
<1>3. /\ DOMAIN sub' = Subs /\ \A s \in Subs \ {starting[l]} : sub'[s] = sub[s]
      /\ starting[l] \in Subs => sub'[starting[l]] = IF ok THEN "ok" ELSE "err"
  BY <1>1, Zenon DEF TypeOK
<1>4. /\ DOMAIN svc' = {"pc", "seen"} /\ svc'.seen = svc.seen
      /\ svc'.pc = IF starting[l] = "svc" THEN IF ok THEN "cancels" ELSE "idle" ELSE svc.pc
  <2>1. CASE starting[l] = "svc"
    BY <1>1, <2>1, AtKeeps, Zenon
  <2>2. CASE starting[l] # "svc"
    BY <1>1, <2>2, Zenon DEF TypeOK
  <2> QED
    BY <2>1, <2>2, Zenon
<1> QED
  BY <1>1, <1>2, <1>3, <1>4, Zenon

\* The types of what a listener is and does survive each step on it.
LEMMA ListenerTypes ==
    ASSUME TypeOK, Lifecycle,
           \/ \E s \in Subs : Subscribe(s) \/ Bind(s)
           \/ ServiceStart \/ ServiceStarted
           \/ \E l \in Listeners : \/ GetEvents(l) \/ ChannelDies(l)
                                   \/ \E who \in {"start", "sup", "recover"} : TakesLock(who, l)
           \/ ConnLost \/ Reconnects \/ Announces
    PROVE  TypeOK'
<1>1. ASSUME NEW s \in Subs, Subscribe(s) PROVE TypeOK'
  BY <1>1, Zenon DEF Subscribe, TypeOK, Free, Copy
<1>2. ASSUME NEW s \in Subs, Bind(s) PROVE TypeOK'
  BY <1>2, Zenon DEF Bind, BindWith, TypeOK, Free, Copy
<1>3. CASE ServiceStart
  <2>1. DOMAIN svc' = {"pc", "seen"} /\ svc'.seen \subseteq Owned
    BY <1>3 DEF ServiceStart
  <2> QED
    BY <1>3, <2>1, Zenon DEF ServiceStart, TypeOK, Free
<1>4. CASE ServiceStarted
  <2>1. DOMAIN svc' = {"pc", "seen"} /\ svc'.seen = svc.seen
    BY <1>4, AtKeeps, Zenon DEF ServiceStarted
  <2>2. consuming' \in [Listeners -> BOOLEAN]
    BY <1>4, Zenon DEF ServiceStarted, TypeOK
  <2> QED
    BY <1>4, <2>1, <2>2, Zenon DEF ServiceStarted, TypeOK, Free
<1>5. ASSUME NEW l \in Listeners, GetEvents(l) PROVE TypeOK'
  BY <1>5, Zenon DEF GetEvents, TypeOK, Free, Copy
<1>6. ASSUME NEW l \in Listeners, ChannelDies(l) PROVE TypeOK'
  <2>1. queue' \in [Listeners -> Seq(Copy)]
    <3>1. queue' = queue \/ queue' = [queue EXCEPT ![l] = <<>>]
      BY <1>6, Zenon DEF ChannelDies
    <3>2. <<>> \in Seq(Copy) /\ queue \in [Listeners -> Seq(Copy)]
      BY DEF TypeOK
    <3> QED
      BY <3>1, <3>2, Zenon
  <2>2. DOMAIN ch' = Listeners /\ DOMAIN bound' = Listeners
    BY <1>6, Zenon DEF ChannelDies, TypeOK
  <2> QED
    BY <1>6, <2>1, <2>2, Zenon DEF ChannelDies, TypeOK, Free
<1>7. ASSUME NEW l \in Listeners, NEW who \in {"start", "sup", "recover"}, TakesLock(who, l)
      PROVE  TypeOK'
  <2>1. lock'.l = l /\ lock'.who = who
    BY <1>7 DEF TakesLock, Held
  <2> QED
    BY <1>7, <2>1, Zenon DEF TakesLock, TypeOK
<1>8. CASE ConnLost
  <2>1. queue' \in [Listeners -> Seq(Copy)]
    BY <1>8 DEF ConnLost, TypeOK
  <2>2. DOMAIN ch' = Listeners /\ DOMAIN bound' = Listeners
    BY <1>8, Zenon DEF ConnLost
  <2> QED
    BY <1>8, <2>1, <2>2, Zenon DEF ConnLost, TypeOK, Free
<1>9. CASE Reconnects
  BY <1>9, Zenon DEF Reconnects, TypeOK, Free, Copy
<1>10. CASE Announces
  BY <1>10, Zenon DEF Announces, TypeOK, Free, Copy
<1> QED
  BY <1>1, <1>2, <1>3, <1>4, <1>5, <1>6, <1>7, <1>8, <1>9, <1>10, Zenon

\* So do the steps that begin or end a Start.
LEMMA StartTypes ==
    ASSUME TypeOK, Lifecycle, Starters,
           \/ \E s \in Subs : SubscribeStarts(s)
           \/ ServiceStartsEvents
           \/ \E l \in Listeners : StartListener(l) \/ AttachGivesUp(l)
           \/ Restored \/ RestoreFails
    PROVE  TypeOK'
<1>1. ASSUME NEW s \in Subs, SubscribeStarts(s) PROVE TypeOK'
  <2>1. On[s] \in Listeners
    BY <1>1, Zenon DEF SubscribeStarts, Starters, TypeOK
  <2>2. DOMAIN sub' = Subs
    BY <1>1, Zenon DEF SubscribeStarts, TypeOK
  <2> QED
    BY <1>1, <2>1, <2>2, BeginMarks, Zenon DEF SubscribeStarts, TypeOK, Free
<1>2. CASE ServiceStartsEvents
  <2>1. DOMAIN svc' = {"pc", "seen"} /\ svc'.seen = svc.seen
    BY <1>2, AtKeeps, Zenon DEF ServiceStartsEvents
  <2>2. \/ UNCHANGED <<started, starting, consuming>>
        \/ \E l \in Listeners : Begin(l, "svc")
    BY <1>2, EventsAssumption, Zenon DEF ServiceStartsEvents, TypeOK
  <2>3. /\ started' \in [Listeners -> BOOLEAN] /\ consuming' \in [Listeners -> BOOLEAN]
        /\ DOMAIN starting' = Listeners
    BY <2>2, BeginMarks, Zenon DEF TypeOK
  <2> QED
    BY <1>2, <2>1, <2>3, Zenon DEF ServiceStartsEvents, TypeOK, Free
<1>3. ASSUME NEW l \in Listeners, StartListener(l) PROVE TypeOK'
  BY <1>3, BeginMarks, Zenon DEF StartListener, TypeOK, Free
<1>4. ASSUME NEW l \in Listeners, AttachGivesUp(l) PROVE TypeOK'
  BY <1>4, EndsMarks, Zenon DEF AttachGivesUp, TypeOK, Free
<1>5. ASSUME Restored \/ RestoreFails PROVE TypeOK'
  <2>1. lock.l \in Listeners /\ lock' = Free
    BY <1>5, Zenon DEF Restored, RestoreFails, TypeOK
  <2>2. \/ \E ok \in BOOLEAN : Ends(lock.l, ok)
        \/ UNCHANGED <<started, starting, consuming, enlisted, sub, svc>>
    BY <1>5, Zenon DEF Restored, RestoreFails
  <2>3. /\ started' \in [Listeners -> BOOLEAN] /\ consuming' \in [Listeners -> BOOLEAN]
        /\ DOMAIN starting' = Listeners /\ DOMAIN sub' = Subs /\ DOMAIN svc' = {"pc", "seen"}
        /\ svc'.seen \subseteq Owned /\ enlisted' \subseteq Listeners
    <3>1. CASE \E ok \in BOOLEAN : Ends(lock.l, ok)
      <4>1. PICK ok \in BOOLEAN : Ends(lock.l, ok)
        BY <3>1, Zenon
      <4>2. enlisted' \subseteq Listeners
        BY <2>1, <4>1, Zenon DEF Ends, TypeOK
      <4>3. svc.seen \subseteq Owned
        BY Zenon DEF TypeOK
      <4> QED
        BY <2>1, <4>1, <4>2, <4>3, EndsMarks
    <3>2. CASE UNCHANGED <<started, starting, consuming, enlisted, sub, svc>>
      BY <3>2, Zenon DEF TypeOK
    <3> QED
      BY <2>2, <3>1, <3>2, Zenon
  <2>4. DOMAIN bound' = Listeners /\ DOMAIN ch' = Listeners
    BY <1>5, Zenon DEF Restored, RestoreFails, TypeOK
  <2> QED
    BY <1>5, <2>1, <2>3, <2>4, Zenon DEF Restored, RestoreFails, TypeOK
<1> QED
  BY <1>1, <1>2, <1>3, <1>4, <1>5, Zenon

-----------------------------------------------------------------------------
\* Steps that start nothing, end no Start and open no channel.
LEMMA QuietLifecycle ==
    ASSUME TypeOK, Lifecycle, UNCHANGED <<started, starting, enlisted, lock>>,
           made \subseteq made', todo' \subseteq enlisted,
           \A l \in Listeners : ch'[l] = "open" => ch[l] = "open"
    PROVE  Lifecycle'
BY Zenon DEF Lifecycle, TypeOK

\* Subscriptions, binds, the service, the connection and the channels.
LEMMA OtherLifecycle ==
    ASSUME TypeOK, Lifecycle,
           \/ \E s \in Subs : Subscribe(s) \/ Bind(s)
           \/ ServiceStart \/ ServiceStarted
           \/ \E l \in Listeners : GetEvents(l) \/ ChannelDies(l)
           \/ ConnLost \/ Reconnects \/ Announces
    PROVE  Lifecycle'
<1>1. UNCHANGED <<started, starting, enlisted, lock>> /\ made \subseteq made'
  BY Zenon DEF Subscribe, Bind, BindWith, ServiceStart, ServiceStarted, GetEvents, ChannelDies,
     ConnLost, Reconnects, Announces
<1>2. todo' \subseteq enlisted
  BY Zenon DEF Subscribe, Bind, BindWith, ServiceStart, ServiceStarted, GetEvents, ChannelDies,
     ConnLost, Reconnects, Announces, Lifecycle
<1>3. \A l \in Listeners : ch'[l] = "open" => ch[l] = "open"
  <2>1. CASE \E s \in Subs : Bind(s)
    BY <2>1 DEF Bind, BindWith, TypeOK
  <2>2. CASE \E l \in Listeners : ChannelDies(l)
    BY <2>2 DEF ChannelDies, TypeOK
  <2>3. CASE ConnLost \/ Reconnects
    BY <2>3 DEF ConnLost, Reconnects, TypeOK
  <2>4. CASE \/ \E s \in Subs : Subscribe(s)
             \/ ServiceStart \/ ServiceStarted \/ Announces
             \/ \E l \in Listeners : GetEvents(l)
    BY <2>4, Zenon DEF Subscribe, ServiceStart, ServiceStarted, GetEvents, Announces
  <2> QED
    BY <2>1, <2>2, <2>3, <2>4, Zenon
<1> QED
  BY <1>1, <1>2, <1>3, QuietLifecycle, Zenon

\* A Start begins on a listener that exists.
LEMMA BeginLifecycle ==
    ASSUME TypeOK, Lifecycle, NEW l \in made, NEW who, who # "nobody", Begin(l, who),
           UNCHANGED <<enlisted, lock, made, todo, ch>>
    PROVE  Lifecycle'
<1>1. l \in Listeners
  BY Zenon DEF TypeOK
<1>2. \A k \in Listeners : /\ starting[k] # "nobody" => starting'[k] # "nobody"
                           /\ starting'[k] # "nobody" => started'[k]
                           /\ started[k] => started'[k] /\ starting'[k] = starting[k]
                           /\ started'[k] => k \in made
  <2> SUFFICES ASSUME NEW k \in Listeners
               PROVE  /\ starting[k] # "nobody" => starting'[k] # "nobody"
                      /\ starting'[k] # "nobody" => started'[k]
                      /\ started[k] => started'[k] /\ starting'[k] = starting[k]
                      /\ started'[k] => k \in made
    BY Zenon
  <2>1. CASE k = l /\ ~started[l]
    BY <1>1, <2>1, BeginMarks, Zenon DEF Lifecycle
  <2>2. CASE k # l \/ started[l]
    <3>1. started'[k] = started[k] /\ starting'[k] = starting[k]
      BY <1>1, <2>2, BeginMarks, Zenon
    <3> QED
      BY <3>1, Zenon DEF Lifecycle
  <2> QED
    BY <2>1, <2>2, Zenon
<1> QED
  BY <1>2, Zenon DEF Lifecycle, TypeOK

\* Who begins one: the application, a subscription, the service.
LEMMA StartsLifecycle ==
    ASSUME TypeOK, Lifecycle, Starters, Known,
           \/ \E s \in Subs : SubscribeStarts(s)
           \/ ServiceStartsEvents
           \/ \E l \in Listeners : StartListener(l)
    PROVE  Lifecycle'
<1>1. UNCHANGED <<enlisted, lock, made, todo, ch>>
  BY Zenon DEF SubscribeStarts, ServiceStartsEvents, StartListener
<1>2. \/ UNCHANGED <<started, starting>>
      \/ \E l \in made : \E who : who # "nobody" /\ Begin(l, who)
  <2>1. ASSUME NEW s \in Subs, SubscribeStarts(s) PROVE On[s] \in made /\ Begin(On[s], s)
    BY <2>1, Zenon DEF SubscribeStarts, Starters
  <2>2. CASE ServiceStartsEvents
    BY <2>2, Zenon DEF ServiceStartsEvents, Known
  <2>3. ASSUME NEW l \in Listeners, StartListener(l) PROVE l \in made /\ Begin(l, "app")
    BY <2>3, Zenon DEF StartListener
  <2>4. \A s \in Subs : s # "nobody"
    BY EventsAssumption, Zenon
  <2> QED
    BY <2>1, <2>2, <2>3, <2>4, Zenon
<1> QED
  BY <1>1, <1>2, BeginLifecycle, QuietLifecycle, Zenon DEF Lifecycle

\* A Start ends: only a good end enrolls the listener and may open its channel.
LEMMA EndsLifecycle ==
    ASSUME TypeOK, Lifecycle, NEW l \in Listeners, NEW ok \in BOOLEAN, Ends(l, ok),
           starting[l] # "nobody", made' = made, todo' \subseteq enlisted,
           lock' = Free \/ (lock' = lock /\ ~(lock.who = "start" /\ lock.l = l)),
           \A k \in Listeners : ch'[k] = "open" => ch[k] = "open" \/ (k = l /\ ok)
    PROVE  Lifecycle'
<1>1. l \notin enlisted /\ started[l] /\ l \in made
  BY Zenon DEF Lifecycle
<1>2. \A k \in Listeners \ {l} : started'[k] = started[k] /\ starting'[k] = starting[k]
  BY EndsMarks
<1>3. started'[l] = ok /\ starting'[l] = "nobody"
  BY EndsMarks
<1>4. enlisted' = IF ok THEN enlisted \cup {l} ELSE enlisted
  BY EndsMarks
<1>5. \A k \in Listeners : /\ starting'[k] # "nobody" => started'[k]
                           /\ started'[k] => k \in made
                           /\ ch'[k] = "open" => k \in enlisted'
  <2> SUFFICES ASSUME NEW k \in Listeners
               PROVE  /\ starting'[k] # "nobody" => started'[k]
                      /\ started'[k] => k \in made
                      /\ ch'[k] = "open" => k \in enlisted'
    BY Zenon
  <2>1. CASE k = l
    BY <1>1, <1>3, <1>4, <2>1, Zenon DEF Lifecycle
  <2>2. CASE k # l
    BY <1>2, <1>4, <2>2, Zenon DEF Lifecycle
  <2> QED
    BY <2>1, <2>2, Zenon
<1>6. \A k \in enlisted' : started'[k] /\ starting'[k] = "nobody"
  <2> SUFFICES ASSUME NEW k \in enlisted' PROVE started'[k] /\ starting'[k] = "nobody"
    BY Zenon
  <2>1. CASE k = l
    BY <1>1, <1>3, <1>4, <2>1
  <2>2. CASE k # l
    <3>1. k \in enlisted /\ k \in Listeners \ {l}
      BY <1>4, <2>2 DEF TypeOK
    <3> QED
      BY <1>2, <3>1, Zenon DEF Lifecycle
  <2> QED
    BY <2>1, <2>2, Zenon
<1>7. todo' \subseteq enlisted'
  BY <1>4, Zenon
<1>8. lock' # Free => IF lock'.who = "start" THEN starting'[lock'.l] # "nobody"
                      ELSE lock'.l \in enlisted'
  <2> SUFFICES ASSUME lock # Free, lock' = lock, ~(lock.who = "start" /\ lock.l = l)
               PROVE  IF lock.who = "start" THEN starting'[lock.l] # "nobody"
                      ELSE lock.l \in enlisted'
    BY Zenon
  <2>1. /\ lock.l \in Listeners
        /\ IF lock.who = "start" THEN starting[lock.l] # "nobody" ELSE lock.l \in enlisted
    BY Zenon DEF Lifecycle, TypeOK
  <2> QED
    BY <1>2, <1>4, <2>1, Zenon
<1> QED
  BY <1>5, <1>6, <1>7, <1>8, Zenon DEF Lifecycle

\* The restore lock is taken for a Start that runs or a listener enrolled.
LEMMA TakesLifecycle ==
    ASSUME TypeOK, Lifecycle, NEW l \in Listeners, NEW who \in {"start", "sup", "recover"},
           TakesLock(who, l)
    PROVE  Lifecycle'
<1>1. lock'.l = l /\ lock'.who = who
  BY DEF TakesLock, Held
<1>2. IF who = "start" THEN starting[l] # "nobody" ELSE l \in enlisted
  <2>1. CASE who = "start"
    BY <2>1, Zenon DEF TakesLock
  <2>2. CASE who = "sup"
    BY <2>2, Zenon DEF TakesLock, Lifecycle
  <2>3. CASE who = "recover"
    BY <2>3, Zenon DEF TakesLock
  <2> QED
    BY <2>1, <2>2, <2>3, Zenon
<1> QED
  BY <1>1, <1>2, Zenon DEF TakesLock, Lifecycle

\* A restore ends, or a Start gives up.
LEMMA RestoreLifecycle ==
    ASSUME TypeOK, Lifecycle,
           Restored \/ RestoreFails \/ \E l \in Listeners : AttachGivesUp(l)
    PROVE  Lifecycle'
<1>1. ASSUME NEW l \in Listeners, AttachGivesUp(l) PROVE Lifecycle'
  <2>1. /\ starting[l] # "nobody" /\ ~(lock.who = "start" /\ lock.l = l) /\ Ends(l, FALSE)
        /\ UNCHANGED <<made, todo, lock, ch>>
    BY <1>1, Zenon DEF AttachGivesUp
  <2>2. todo' \subseteq enlisted
    BY <2>1, Zenon DEF Lifecycle
  <2> QED
    BY <2>1, <2>2, EndsLifecycle, Zenon
<1>2. CASE RestoreFails
  <2>1. /\ lock # Free /\ lock.l \in Listeners /\ lock' = Free
        /\ UNCHANGED <<made, todo, ch>>
    BY <1>2, Zenon DEF RestoreFails, TypeOK
  <2>2. todo' \subseteq enlisted
    BY <2>1, Zenon DEF Lifecycle
  <2>3. CASE lock.who = "start" /\ Ends(lock.l, FALSE)
    <3>1. starting[lock.l] # "nobody"
      BY <2>1, <2>3, Zenon DEF Lifecycle
    <3> QED
      BY <2>1, <2>2, <2>3, <3>1, EndsLifecycle, Zenon
  <2>4. CASE UNCHANGED <<started, starting, enlisted>>
    BY <2>1, <2>2, <2>4, Zenon DEF Lifecycle
  <2> QED
    BY <1>2, <2>3, <2>4, Zenon DEF RestoreFails
<1>3. CASE Restored
  <2>1. /\ lock # Free /\ lock.l \in Listeners /\ lock' = Free
        /\ ch' = [ch EXCEPT ![lock.l] = "open"] /\ UNCHANGED made
    BY <1>3, Zenon DEF Restored, TypeOK
  <2>2. todo' \subseteq enlisted
    BY <1>3, Zenon DEF Restored, Lifecycle
  <2>3. \A k \in Listeners : ch'[k] = "open" => ch[k] = "open" \/ k = lock.l
    BY <2>1, Zenon DEF TypeOK
  <2>4. CASE lock.who = "start"
    <3>1. starting[lock.l] # "nobody" /\ Ends(lock.l, TRUE)
      BY <1>3, <2>1, <2>4, Zenon DEF Lifecycle, Restored
    <3> QED
      BY <2>1, <2>2, <2>3, <3>1, EndsLifecycle, Zenon
  <2>5. CASE lock.who # "start"
    <3>1. lock.l \in enlisted /\ UNCHANGED <<started, starting, enlisted>>
      BY <1>3, <2>1, <2>5, Zenon DEF Lifecycle, Restored
    <3> QED
      BY <2>1, <2>2, <2>3, <3>1, Zenon DEF Lifecycle
  <2> QED
    BY <2>4, <2>5, Zenon
<1> QED
  BY <1>1, <1>2, <1>3, Zenon

-----------------------------------------------------------------------------
\* SubscribedIsBound, pattern by pattern.
LEMMA BoundOrComing ==
    /\ SubscribedIsBound <=> \A l \in Listeners : \A p \in patterns[l] :
           ch[l] = "open" => p \in bound[l] \/ OnItsWay(l, p)
    /\ SubscribedIsBound' <=> \A l \in Listeners : \A p \in patterns'[l] :
           ch'[l] = "open" => p \in bound'[l] \/ OnItsWay(l, p)'
<1>1. SubscribedIsBound <=> \A l \in Listeners : ch[l] = "open" =>
          \A p \in patterns[l] \ bound[l] : OnItsWay(l, p)
  BY Zenon DEF SubscribedIsBound, OnItsWay
<1>2. SubscribedIsBound' <=> \A l \in Listeners : ch'[l] = "open" =>
          \A p \in patterns'[l] \ bound'[l] : OnItsWay(l, p)'
  BY Zenon DEF SubscribedIsBound, OnItsWay
<1> QED
  BY <1>1, <1>2

\* Steps that record no pattern, bring no bind to an end, open no channel and
\* unbind only what has lost its channel.
LEMMA QuietBindings ==
    ASSUME ReadOrComing, SubscribedIsBound, UNCHANGED <<patterns, plan>>,
           \A s \in Subs : sub[s] = "bind" => sub'[s] = "bind",
           lock' \in {lock, Free},
           \A l \in Listeners : ch'[l] = "open" => ch[l] = "open" /\ bound[l] \subseteq bound'[l]
    PROVE  ReadOrComing' /\ SubscribedIsBound'
<1>1. \A l, p : OnItsWay(l, p) => OnItsWay(l, p)'
  BY Zenon DEF OnItsWay
<1>2. ReadOrComing'
  BY <1>1, Zenon DEF ReadOrComing
<1>3. SubscribedIsBound'
  <2> SUFFICES ASSUME NEW l \in Listeners, NEW p \in patterns'[l], ch'[l] = "open"
               PROVE  p \in bound'[l] \/ OnItsWay(l, p)'
    BY BoundOrComing, Zenon
  <2>1. p \in bound[l] \/ OnItsWay(l, p)
    BY BoundOrComing, Zenon
  <2> QED
    BY <1>1, <2>1, Zenon
<1> QED
  BY <1>2, <1>3, Zenon

\* A Start that begins or ends answers no bind.
LEMMA StartsKeepBinds ==
    ASSUME TypeOK, Starters, NEW l \in Listeners, NEW ok \in BOOLEAN, Ends(l, ok)
    PROVE  \A s \in Subs : sub[s] = "bind" => sub'[s] = "bind"
<1>1. \A s \in Subs \ {starting[l]} : sub'[s] = sub[s]
  BY EndsMarks
<1>2. starting[l] \in Subs => sub[starting[l]] = "starting"
  BY Zenon DEF Starters
<1> QED
  BY <1>1, <1>2, Zenon

\* The service, the Starts, the connection and the channels.
LEMMA OtherBindings ==
    ASSUME TypeOK, Starters, ReadOrComing, SubscribedIsBound,
           \/ \E s \in Subs : SubscribeStarts(s)
           \/ ServiceStart \/ ServiceStartsEvents \/ ServiceStarted
           \/ \E l \in Listeners : \/ GetEvents(l) \/ StartListener(l) \/ AttachGivesUp(l)
                                   \/ ChannelDies(l)
           \/ RestoreFails \/ ConnLost \/ Reconnects \/ Announces
    PROVE  ReadOrComing' /\ SubscribedIsBound'
<1>1. UNCHANGED <<patterns, plan>> /\ lock' \in {lock, Free}
  BY Zenon DEF SubscribeStarts, ServiceStart, ServiceStartsEvents, ServiceStarted, GetEvents,
     StartListener, AttachGivesUp, ChannelDies, RestoreFails, ConnLost, Reconnects, Announces
<1>2. \A s \in Subs : sub[s] = "bind" => sub'[s] = "bind"
  <2>1. ASSUME NEW x \in Subs, SubscribeStarts(x), NEW s \in Subs, sub[s] = "bind"
        PROVE  sub'[s] = "bind"
    BY <2>1, Zenon DEF SubscribeStarts, TypeOK
  <2>2. ASSUME NEW l \in Listeners, AttachGivesUp(l)
        PROVE  \A s \in Subs : sub[s] = "bind" => sub'[s] = "bind"
    BY <2>2, StartsKeepBinds, Zenon DEF AttachGivesUp
  <2>3. CASE RestoreFails
    <3>1. lock.l \in Listeners /\ (Ends(lock.l, FALSE) \/ UNCHANGED sub)
      BY <2>3, Zenon DEF RestoreFails, TypeOK
    <3> QED
      BY <3>1, StartsKeepBinds, Zenon
  <2>4. CASE \/ ServiceStart \/ ServiceStartsEvents \/ ServiceStarted
             \/ \E l \in Listeners : GetEvents(l) \/ StartListener(l) \/ ChannelDies(l)
             \/ ConnLost \/ Reconnects \/ Announces
    BY <2>4, Zenon DEF ServiceStart, ServiceStartsEvents, ServiceStarted, GetEvents,
       StartListener, ChannelDies, ConnLost, Reconnects, Announces
  <2> QED
    BY <2>1, <2>2, <2>3, <2>4, Zenon
<1>3. \A l \in Listeners : ch'[l] = "open" => ch[l] = "open" /\ bound[l] \subseteq bound'[l]
  <2>1. ASSUME NEW k \in Listeners, ChannelDies(k), NEW l \in Listeners, ch'[l] = "open"
        PROVE  ch[l] = "open" /\ bound'[l] = bound[l]
    <3>1. l # k /\ ch[l] = "open"
      BY <2>1, Zenon DEF ChannelDies, TypeOK
    <3> QED
      BY <2>1, <3>1, Zenon DEF ChannelDies, TypeOK
  <2>2. CASE ConnLost
    BY <2>2 DEF ConnLost, TypeOK
  <2>3. CASE Reconnects
    BY <2>3 DEF Reconnects, TypeOK
  <2>4. CASE RestoreFails
    <3>1. \/ UNCHANGED bound
          \/ \E part : bound' = [bound EXCEPT ![lock.l] = @ \cup part]
      BY <2>4, Zenon DEF RestoreFails
    <3>2. \A l \in Listeners : bound[l] \subseteq bound'[l]
      BY <3>1 DEF TypeOK
    <3> QED
      BY <2>4, <3>2, Zenon DEF RestoreFails
  <2>5. CASE \/ \E s \in Subs : SubscribeStarts(s)
             \/ ServiceStart \/ ServiceStartsEvents \/ ServiceStarted \/ Announces
             \/ \E l \in Listeners : GetEvents(l) \/ StartListener(l) \/ AttachGivesUp(l)
    BY <2>5, Zenon DEF SubscribeStarts, ServiceStart, ServiceStartsEvents, ServiceStarted,
       GetEvents, StartListener, AttachGivesUp, Announces
  <2> QED
    BY <2>1, <2>2, <2>3, <2>4, <2>5, Zenon
<1> QED
  BY <1>1, <1>2, <1>3, QuietBindings, Zenon

\* add: a listener on a channel, or being restored, is started, so a pattern
\* new to it is bound by the call.
LEMMA SubscribeBindings ==
    ASSUME TypeOK, Lifecycle, ReadOrComing, SubscribedIsBound, NEW s \in Subs, Subscribe(s)
    PROVE  ReadOrComing' /\ SubscribedIsBound'
<1>1. /\ UNCHANGED <<plan, started, ch, bound, lock>> /\ sub[s] = "idle" /\ On[s] \in Listeners
      /\ patterns' = [patterns EXCEPT ![On[s]] = @ \cup {plan[s]}]
      /\ sub' = [sub EXCEPT ![s] =
                     IF lazy[On[s]] /\ ~started[On[s]] THEN "start"
                     ELSE IF plan[s] \notin patterns[On[s]] /\ started[On[s]] THEN "bind" ELSE "ok"]
  BY Zenon DEF Subscribe, TypeOK
<1>2. \A l, p : OnItsWay(l, p) => OnItsWay(l, p)'
  BY <1>1, Zenon DEF OnItsWay, TypeOK
<1>3. ASSUME NEW l \in Listeners, started[l], NEW p \in patterns'[l]
      PROVE  p \in patterns[l] \/ OnItsWay(l, p)'
  <2>1. CASE p \notin patterns[l]
    <3>1. l = On[s] /\ p = plan[s]
      BY <1>1, <1>3, <2>1 DEF TypeOK
    <3>2. sub'[s] = "bind"
      BY <1>1, <1>3, <2>1, <3>1, Zenon DEF TypeOK
    <3> QED
      BY <1>1, <3>1, <3>2, Zenon DEF OnItsWay
  <2> QED
    BY <2>1, Zenon
<1>4. ReadOrComing'
  <2>1. lock # Free => lock.l \in Listeners /\ started[lock.l]
    BY Zenon DEF Lifecycle, TypeOK
  <2> QED
    BY <1>1, <1>2, <1>3, <2>1, Zenon DEF ReadOrComing
<1>5. SubscribedIsBound'
  <2>1. \A l \in Listeners : ch[l] = "open" => started[l]
    BY Zenon DEF Lifecycle
  <2> SUFFICES ASSUME NEW l \in Listeners, NEW p \in patterns'[l], ch'[l] = "open"
               PROVE  p \in bound'[l] \/ OnItsWay(l, p)'
    BY BoundOrComing, Zenon
  <2>2. p \in patterns[l] \/ OnItsWay(l, p)'
    BY <1>1, <1>3, <2>1, Zenon
  <2> QED
    BY <1>1, <1>2, <2>2, BoundOrComing, Zenon
<1> QED
  BY <1>4, <1>5, Zenon

\* bind: no restore is under way, and what it was on its way to bind is bound,
\* or there is no channel.
LEMMA BindBindings ==
    ASSUME TypeOK, ReadOrComing, SubscribedIsBound, NEW s \in Subs, Bind(s)
    PROVE  ReadOrComing' /\ SubscribedIsBound'
<1>1. lock = Free /\ UNCHANGED <<plan, patterns, lock>> /\ sub[s] = "bind"
  BY Zenon DEF Bind, BindWith
<1>2. ReadOrComing'
  BY <1>1, Zenon DEF ReadOrComing
<1>3. ASSUME NEW l \in Listeners, NEW p \in patterns'[l], ch'[l] = "open"
      PROVE  p \in bound'[l] \/ OnItsWay(l, p)'
  <2>1. ch[l] = "open" /\ bound[l] \subseteq bound'[l]
    <3>1. \/ UNCHANGED ch /\ bound' \in {bound, [bound EXCEPT ![On[s]] = @ \cup {plan[s]}]}
          \/ ch' = [ch EXCEPT ![On[s]] = "dead"] /\ UNCHANGED bound
      BY Zenon DEF Bind, BindWith
    <3>2. l \in DOMAIN bound /\ l \in DOMAIN ch
      BY Zenon DEF TypeOK
    <3>3. bound[l] \subseteq bound'[l]
      BY <3>1, <3>2, Zenon
    <3>4. ch[l] = "open"
      BY <1>3, <3>1, <3>2, Zenon
    <3> QED
      BY <3>3, <3>4, Zenon
  <2>2. p \in bound[l] \/ OnItsWay(l, p)
    BY <1>1, <1>3, <2>1, BoundOrComing, Zenon
  <2>3. ASSUME NEW x \in Subs, On[x] = l, plan[x] = p, sub[x] = "bind"
        PROVE  p \in bound'[l] \/ OnItsWay(l, p)'
    <3>1. CASE x = s
      <4>1. bound' = [bound EXCEPT ![l] = @ \cup {p}]
        <5>1. ch'[l] # "dead"
          BY <1>3, Zenon
        <5> QED
          BY <2>1, <2>3, <3>1, <5>1, Zenon DEF Bind, BindWith, TypeOK
      <4> QED
        BY <4>1, Zenon DEF TypeOK
    <3>2. CASE x # s
      <4>1. sub'[x] = "bind"
        BY <2>3, <3>2, Zenon DEF Bind, BindWith, TypeOK
      <4> QED
        BY <1>1, <2>3, <4>1, Zenon DEF OnItsWay
    <3> QED
      BY <3>1, <3>2, Zenon
  <2> QED
    BY <2>1, <2>2, <2>3, Zenon DEF OnItsWay
<1> QED
  BY <1>2, <1>3, BoundOrComing, Zenon

\* restoreTopology reads the bindings under the lock, and what is recorded
\* after that is bound after it.
LEMMA RestoreBindings ==
    ASSUME TypeOK, Starters, ReadOrComing, SubscribedIsBound,
           \/ \E l \in Listeners, who \in {"start", "sup", "recover"} : TakesLock(who, l)
           \/ Restored
    PROVE  ReadOrComing' /\ SubscribedIsBound'
<1>1. ASSUME NEW l \in Listeners, NEW who \in {"start", "sup", "recover"}, TakesLock(who, l)
      PROVE  ReadOrComing' /\ SubscribedIsBound'
  <2>1. lock'.l = l /\ lock'.snap = patterns[l]
    BY <1>1 DEF TakesLock, Held
  <2>2. UNCHANGED <<patterns, plan, sub, ch, bound>>
    BY <1>1, Zenon DEF TakesLock
  <2>3. ReadOrComing'
    BY <2>1, <2>2, Zenon DEF ReadOrComing
  <2>4. SubscribedIsBound'
    BY <2>2 DEF SubscribedIsBound
  <2> QED
    BY <2>3, <2>4, Zenon
<1>2. CASE Restored
  <2>1. /\ lock # Free /\ lock.l \in Listeners /\ lock' = Free /\ UNCHANGED <<patterns, plan>>
        /\ ch' = [ch EXCEPT ![lock.l] = "open"]
        /\ bound' = [bound EXCEPT ![lock.l] = @ \cup lock.snap]
        /\ Ends(lock.l, TRUE) \/ UNCHANGED sub
    BY <1>2, Zenon DEF Restored, TypeOK
  <2>2. \A l, p : OnItsWay(l, p) => OnItsWay(l, p)'
    <3>1. \A s \in Subs : sub[s] = "bind" => sub'[s] = "bind"
      BY <2>1, StartsKeepBinds, Zenon
    <3> QED
      BY <2>1, <3>1, Zenon DEF OnItsWay
  <2>3. ASSUME NEW l \in Listeners, NEW p \in patterns'[l], ch'[l] = "open"
        PROVE  p \in bound'[l] \/ OnItsWay(l, p)'
    <3>1. CASE l = lock.l
      <4>1. p \in lock.snap \/ OnItsWay(l, p)
        BY <2>1, <2>3, <3>1, Zenon DEF ReadOrComing
      <4>2. lock.snap \subseteq bound'[l]
        BY <2>1, <3>1, Zenon DEF TypeOK
      <4> QED
        BY <2>2, <4>1, <4>2, Zenon
    <3>2. CASE l # lock.l
      <4>1. ch'[l] = ch[l] /\ bound'[l] = bound[l]
        BY <2>1, <3>2, Zenon DEF TypeOK
      <4> QED
        BY <2>1, <2>2, <2>3, <4>1, BoundOrComing, Zenon
    <3> QED
      BY <3>1, <3>2, Zenon
  <2>4. ReadOrComing'
    BY <2>1, Zenon DEF ReadOrComing
  <2> QED
    BY <2>3, <2>4, BoundOrComing, Zenon
<1> QED
  BY <1>1, <1>2, Zenon

-----------------------------------------------------------------------------
\* Steps that touch no subscription call, Start or service.
LEMMA QuietStarters ==
    ASSUME Starters, Known,
           UNCHANGED <<made, lazy, raced, sub, started, starting, svc, stopped, consuming>>
    PROVE  Starters' /\ Known'
<1>1. Starters'
  BY DEF Starters
<1>2. \A l : Told(l)' <=> Told(l)
  BY Zenon DEF Told
<1>3. Known'
  BY <1>2 DEF Known
<1> QED
  BY <1>1, <1>3, Zenon

\* Service.Events: a listener made before Start reads it is found, one made
\* after Start is lazy, and in between it is raced.
LEMMA GetStarters ==
    ASSUME TypeOK, Lifecycle, Starters, Known, NEW l \in Listeners, GetEvents(l)
    PROVE  Starters' /\ Known'
<1>1. /\ l \in Owned \ made /\ made' = made \cup {l}
      /\ lazy' = [lazy EXCEPT ![l] = svc.pc = "started"]
      /\ raced' = IF svc.pc \notin {"idle", "started"} THEN raced \cup {l} ELSE raced
      /\ UNCHANGED <<sub, started, starting, svc, stopped, consuming>>
  BY Zenon DEF GetEvents
<1>2. \A k \in Listeners : /\ k # l => lazy'[k] = lazy[k]
                           /\ k = l => (lazy'[k] <=> svc.pc = "started")
  BY <1>1, Zenon DEF TypeOK
<1>3. \A s \in Subs : sub[s] # "idle" => On[s] \in made /\ On[s] # l /\ On[s] \in Listeners
  <2>1. \A s \in Subs : sub[s] # "idle" => On[s] \in made
    BY Zenon DEF Starters
  <2> QED
    BY <1>1, <2>1 DEF TypeOK
<1>4. Starters'
  <2>1. \A s \in Subs : sub[s] # "idle" => lazy'[On[s]] = lazy[On[s]] /\ On[s] \in made'
    BY <1>1, <1>2, <1>3, Zenon
  <2>2. \A s \in Subs : sub[s] \in {"start", "starting"} => lazy'[On[s]]
    BY <2>1, Zenon DEF Starters
  <2> QED
    BY <1>1, <2>1, <2>2 DEF Starters
<1>5. Known'
  <2>1. svc.seen \subseteq made
    BY Zenon DEF Known
  <2>2. \A k \in Listeners : lazy'[k] => svc.pc = "started" /\ k \in (Owned \cap made') \ svc.seen
    <3> SUFFICES ASSUME NEW k \in Listeners, lazy'[k]
                 PROVE  svc.pc = "started" /\ k \in (Owned \cap made') \ svc.seen
      BY Zenon
    <3>1. CASE k = l
      BY <1>1, <1>2, <2>1, <3>1, Zenon
    <3>2. CASE k # l
      BY <1>1, <1>2, <3>2, Zenon DEF Known
    <3> QED
      BY <3>1, <3>2, Zenon
  <2>3. svc.pc # "idle" => \A k \in (Owned \cap made') \ (raced' \cup svc.seen) : lazy'[k]
    <3> SUFFICES ASSUME svc.pc # "idle", NEW k \in (Owned \cap made') \ (raced' \cup svc.seen)
                 PROVE  lazy'[k]
      BY Zenon
    <3>1. k \in Listeners /\ k \in Owned
      BY EventsAssumption, Zenon
    <3>2. CASE k = l
      BY <1>1, <1>2, <3>1, <3>2, Zenon
    <3>3. CASE k # l
      <4>1. k \in (Owned \cap made) \ (raced \cup svc.seen)
        BY <1>1, <3>1, <3>3, Zenon
      <4> QED
        BY <1>2, <3>1, <3>3, <4>1, Zenon DEF Known
    <3> QED
      BY <3>2, <3>3, Zenon
  <2>4. \A s \in Subs : sub[s] \in {"bind", "ok"} /\ On[s] \in Listeners /\ lazy'[On[s]] =>
                            started[On[s]] \/ Told(On[s])
    <3> SUFFICES ASSUME NEW s \in Subs, sub[s] \in {"bind", "ok"}, On[s] \in Listeners,
                        lazy'[On[s]]
                 PROVE  started[On[s]] \/ Told(On[s])
      BY Zenon
    <3>1. lazy[On[s]]
      BY <1>2, <1>3
    <3> QED
      BY <3>1, Zenon DEF Known
  <2>5. \A k : Told(k)' <=> Told(k)
    BY <1>1, Zenon DEF Told
  <2> QED
    BY <1>1, <2>1, <2>2, <2>3, <2>4, <2>5, Zenon DEF Known
<1> QED
  BY <1>4, <1>5, Zenon

\* A call on a listener: the others' news stay what they were.
LEMMA CallStarters ==
    ASSUME TypeOK, Starters, Known, NEW s \in Subs, NEW x, sub' = [sub EXCEPT ![s] = x],
           UNCHANGED <<made, lazy, raced, started, starting, svc, stopped, consuming>>,
           sub[s] \notin {"starting", "err"}, On[s] \in made,
           x \in {"start", "starting"} => lazy[On[s]],
           x \in {"bind", "ok"} /\ lazy[On[s]] =>
               started[On[s]] \/ sub[s] \in {"bind", "ok"}
    PROVE  Starters' /\ Known'
<1>1. sub'[s] = x /\ \A r \in Subs : r # s => sub'[r] = sub[r]
  BY Zenon DEF TypeOK
<1>2. Starters'
  <2>1. \A l \in Listeners :
           starting[l] \in Subs => On[starting[l]] = l /\ sub'[starting[l]] = "starting"
    <3>1. \A l \in Listeners :
             starting[l] \in Subs => On[starting[l]] = l /\ sub[starting[l]] = "starting"
      BY Zenon DEF Starters
    <3> QED
      BY <1>1, <3>1
  <2>0. \A r \in Subs : /\ sub[r] # "idle" => On[r] \in made
                        /\ sub[r] \in {"start", "starting"} => lazy[On[r]]
    BY Zenon DEF Starters
  <2>2. \A r \in Subs : sub'[r] # "idle" => On[r] \in made
    BY <1>1, <2>0, Zenon
  <2>3. \A r \in Subs : sub'[r] \in {"start", "starting"} => lazy[On[r]]
    BY <1>1, <2>0, Zenon
  <2> QED
    BY <2>1, <2>2, <2>3 DEF Starters
<1>3. Known'
  <2>1. \A l : Told(l) => Told(l)'
    BY <1>1, Zenon DEF Told
  <2>2. ASSUME NEW r \in Subs, sub'[r] \in {"bind", "ok"}, On[r] \in Listeners, lazy[On[r]]
        PROVE  started[On[r]] \/ Told(On[r])'
    <3>1. started[On[r]] \/ sub[r] \in {"bind", "ok"}
      BY <1>1, <2>2, Zenon
    <3> QED
      BY <2>1, <2>2, <3>1, Zenon DEF Known
  <2> QED
    BY <2>2, Zenon DEF Known
<1> QED
  BY <1>2, <1>3, Zenon

\* add and bind.
LEMMA SubscribeStarters ==
    ASSUME TypeOK, Starters, Known, NEW s \in Subs, Subscribe(s) \/ Bind(s)
    PROVE  Starters' /\ Known'
<1>1. UNCHANGED <<made, lazy, raced, started, starting, svc, stopped, consuming>>
  BY Zenon DEF Subscribe, Bind, BindWith
<1>2. CASE Subscribe(s)
  <2> DEFINE x == IF lazy[On[s]] /\ ~started[On[s]] THEN "start"
                  ELSE IF plan[s] \notin patterns[On[s]] /\ started[On[s]] THEN "bind" ELSE "ok"
  <2>1. sub[s] = "idle" /\ On[s] \in made /\ sub' = [sub EXCEPT ![s] = x]
    BY <1>2, Zenon DEF Subscribe
  <2>2. /\ x \in {"start", "starting"} => lazy[On[s]]
        /\ x \in {"bind", "ok"} /\ lazy[On[s]] => started[On[s]]
    OBVIOUS
  <2> HIDE DEF x
  <2> QED
    BY <1>1, <2>1, <2>2, CallStarters, Zenon
<1>3. CASE Bind(s)
  <2>1. /\ sub[s] = "bind"
        /\ sub' = [sub EXCEPT ![s] = "ok"] \/ sub' = [sub EXCEPT ![s] = "err"]
    BY <1>3, Zenon DEF Bind, BindWith
  <2>2. On[s] \in made
    BY <2>1, Zenon DEF Starters
  <2> QED
    BY <1>1, <2>1, <2>2, CallStarters, Zenon
<1> QED
  BY <1>2, <1>3, Zenon

\* A Start begins: its caller waits for it.
LEMMA BeginStarters ==
    ASSUME TypeOK, Lifecycle, Starters, Known, NEW l \in made, NEW who, Begin(l, who), ~started[l],
           UNCHANGED <<made, lazy, raced, stopped>>,
           DOMAIN sub' = Subs, \A s \in Subs : s # who => sub'[s] = sub[s],
           \/ who = "app" /\ l \notin Owned /\ svc' = svc
           \/ who \in Subs /\ sub[who] = "start" /\ sub'[who] = "starting" /\ On[who] = l
              /\ svc' = svc
           \/ who = "svc" /\ l \in svc.seen /\ svc.pc = "requests"
              /\ svc'.pc = "starting" /\ svc'.seen = svc.seen
    PROVE  Starters' /\ Known'
<1>1. l \in Listeners
  BY Zenon DEF TypeOK
<1>2. /\ \A k \in Listeners \ {l} : /\ started'[k] = started[k] /\ starting'[k] = starting[k]
                                    /\ consuming'[k] = consuming[k]
      /\ started'[l] /\ starting'[l] = who /\ consuming'[l]
  BY <1>1, BeginMarks, Zenon
<1>3. \A s \in Subs : /\ sub'[s] # sub[s] => s = who /\ sub[s] = "start" /\ sub'[s] = "starting"
                      /\ s = who => On[s] = l
  BY EventsAssumption, Zenon
<1>4. Starters'
  <2>1. \A k \in Listeners :
           starting'[k] \in Subs => On[starting'[k]] = k /\ sub'[starting'[k]] = "starting"
    <3> SUFFICES ASSUME NEW k \in Listeners, starting'[k] \in Subs
                 PROVE  On[starting'[k]] = k /\ sub'[starting'[k]] = "starting"
      BY Zenon
    <3>1. CASE k = l
      BY <1>2, <3>1, EventsAssumption, Zenon
    <3>2. CASE k # l
      <4>1. starting'[k] = starting[k] /\ On[starting[k]] = k /\ sub[starting[k]] = "starting"
        BY <1>2, <3>2, Zenon DEF Starters
      <4> QED
        BY <1>3, <4>1, Zenon
    <3> QED
      BY <3>1, <3>2, Zenon
  <2>2. /\ \A k \in Listeners : starting'[k] = "svc" => k \in svc'.seen /\ svc'.pc = "starting"
        /\ \A k \in Owned : starting'[k] \in Subs \cup {"nobody", "svc"}
    <3> SUFFICES ASSUME NEW k \in Listeners
                 PROVE  /\ starting'[k] = "svc" => k \in svc'.seen /\ svc'.pc = "starting"
                        /\ k \in Owned => starting'[k] \in Subs \cup {"nobody", "svc"}
      BY EventsAssumption, Zenon
    <3>1. CASE k = l
      BY <1>2, <3>1, EventsAssumption, Zenon
    <3>2. CASE k # l
      <4>1. starting'[k] = starting[k]
        BY <1>2, <3>2, Zenon
      <4>2. svc'.seen = svc.seen /\ (svc.pc = "starting" => svc'.pc = "starting")
        BY Zenon
      <4> QED
        BY <4>1, <4>2, Zenon DEF Starters
    <3> QED
      BY <3>1, <3>2, Zenon
  <2>3. \A k \in Listeners \ stopped : consuming'[k] <=> started'[k]
    <3> SUFFICES ASSUME NEW k \in Listeners \ stopped PROVE consuming'[k] <=> started'[k]
      BY Zenon
    <3>1. CASE k = l
      BY <1>2, <3>1, Zenon
    <3>2. CASE k # l
      BY <1>2, <3>2, Zenon DEF Starters
    <3> QED
      BY <3>1, <3>2, Zenon
  <2>4. \A s \in Subs : sub'[s] # "idle" => On[s] \in made
    <3>1. \A s \in Subs : sub[s] # "idle" => On[s] \in made
      BY Zenon DEF Starters
    <3> QED
      BY <1>3, <3>1
  <2>5. \A s \in Subs : sub'[s] \in {"start", "starting"} => lazy[On[s]]
    BY <1>3, Zenon DEF Starters
  <2> QED
    BY <2>1, <2>2, <2>3, <2>4, <2>5, Zenon DEF Starters
<1>5. Known'
  <2>1. \A k \in Listeners : started[k] => started'[k]
    BY <1>2, Zenon
  <2>2. /\ svc'.seen = svc.seen
        /\ svc'.pc \in {"cancels", "started"} => svc.pc = svc'.pc
        /\ svc.pc = "started" => svc'.pc = "started"
        /\ svc'.pc # "idle" => svc.pc # "idle"
    BY Zenon
  <2>3. svc'.pc \in {"cancels", "started"} => \A k \in svc'.seen : started'[k]
    <3>1. \A k \in svc.seen : k \in Listeners
      BY EventsAssumption, Zenon DEF TypeOK
    <3> QED
      BY <2>1, <2>2, <3>1, Zenon DEF Known
  <2>4. \A k : Told(k) => Told(k)'
    BY <1>3, Zenon DEF Told
  <2>5. \A s \in Subs : sub'[s] \in {"bind", "ok"} /\ On[s] \in Listeners /\ lazy[On[s]] =>
                            started'[On[s]] \/ Told(On[s])'
    <3> SUFFICES ASSUME NEW s \in Subs, sub'[s] \in {"bind", "ok"}, On[s] \in Listeners,
                        lazy[On[s]]
                 PROVE  started'[On[s]] \/ Told(On[s])'
      BY Zenon
    <3>1. sub[s] \in {"bind", "ok"}
      BY <1>3, Zenon
    <3> QED
      BY <2>1, <2>4, <3>1, Zenon DEF Known
  <2> QED
    BY <2>2, <2>3, <2>5, Zenon DEF Known
<1> QED
  BY <1>4, <1>5, Zenon

\* The three who begin one.
LEMMA StartsStarters ==
    ASSUME TypeOK, Lifecycle, Starters, Known,
           \/ \E s \in Subs : SubscribeStarts(s)
           \/ \E l \in Listeners : StartListener(l)
           \/ svc.pc = "requests" /\ ServiceStartsEvents /\ \E l \in svc.seen : Begin(l, "svc")
              /\ ~started[l] /\ svc' = At("starting")
    PROVE  Starters' /\ Known'
<1>1. UNCHANGED <<made, lazy, raced, stopped>>
  BY Zenon DEF SubscribeStarts, StartListener, ServiceStartsEvents
<1>2. ASSUME NEW s \in Subs, SubscribeStarts(s) PROVE Starters' /\ Known'
  <2>1. /\ sub[s] = "start" /\ Begin(On[s], s) /\ UNCHANGED svc
        /\ sub' = [sub EXCEPT ![s] = IF started[On[s]] THEN "ok" ELSE "starting"]
    BY <1>2, Zenon DEF SubscribeStarts
  <2>2. On[s] \in made /\ lazy[On[s]]
    BY <2>1, Zenon DEF Starters
  <2>3. CASE started[On[s]]
    <3>1. UNCHANGED <<started, starting, consuming>> /\ sub' = [sub EXCEPT ![s] = "ok"]
      BY <2>1, <2>3, Zenon DEF Begin
    <3> QED
      BY <1>1, <2>1, <2>2, <2>3, <3>1, CallStarters, Zenon
  <2>4. CASE ~started[On[s]]
    <3>1. /\ DOMAIN sub' = Subs /\ sub'[s] = "starting"
          /\ \A r \in Subs : r # s => sub'[r] = sub[r]
      BY <2>1, <2>4, Zenon DEF TypeOK
    <3> QED
      BY <1>1, <2>1, <2>2, <2>4, <3>1, BeginStarters, Zenon
  <2> QED
    BY <2>3, <2>4, Zenon
<1>3. ASSUME NEW l \in Listeners, StartListener(l) PROVE Starters' /\ Known'
  <2>1. /\ l \in made \ Owned /\ ~started[l] /\ Begin(l, "app") /\ UNCHANGED <<svc, sub>>
        /\ DOMAIN sub' = Subs
    BY <1>3, Zenon DEF StartListener, TypeOK
  <2> QED
    BY <1>1, <2>1, BeginStarters, Zenon
<1>4. ASSUME svc.pc = "requests", ServiceStartsEvents, NEW l \in svc.seen, Begin(l, "svc"),
             ~started[l], svc' = At("starting")
      PROVE  Starters' /\ Known'
  <2>1. svc'.pc = "starting" /\ svc'.seen = svc.seen
    BY <1>4, AtKeeps, Zenon
  <2>2. UNCHANGED sub /\ DOMAIN sub' = Subs
    BY <1>4, Zenon DEF ServiceStartsEvents, TypeOK
  <2>3. l \in made
    BY <1>4, Zenon DEF Known
  <2> QED
    BY <1>1, <1>4, <2>1, <2>2, <2>3, BeginStarters, Zenon
<1> QED
  BY <1>2, <1>3, <1>4, Zenon

\* Service.Start moves on without starting a listener: what it found is started
\* when it passes it, and is in stopped when it has stopped it.
LEMMA ServiceStarters ==
    ASSUME TypeOK, Lifecycle, Starters, Known,
           UNCHANGED <<made, lazy, raced, sub, started, starting>>, svc.pc # "started",
           svc'.pc # "starting", svc.pc # "starting",
           \/ /\ svc'.seen = svc.seen
              /\ svc'.pc # "idle" => svc.pc # "idle" /\ svc'.pc \in {"cancels", "started"}
              /\ svc'.pc # "idle" => \A l \in svc.seen : started[l]
           \/ svc'.seen = Owned \cap made /\ svc'.pc = "requests",
           stopped \subseteq stopped',
           \A l \in Listeners \ stopped' : consuming'[l] <=> consuming[l]
    PROVE  Starters' /\ Known'
<1>1. Starters'
  <2>1. /\ \A l \in Listeners : starting[l] # "svc"
        /\ \A l \in Owned : starting[l] \in Subs \cup {"nobody", "svc"}
    BY Zenon DEF Starters
  <2>2. \A l \in Listeners \ stopped' : consuming'[l] <=> started'[l]
    BY Zenon DEF Starters
  <2>3. \A s \in Subs : /\ sub'[s] # "idle" => On[s] \in made
                        /\ sub'[s] \in {"start", "starting"} => lazy[On[s]]
    BY Zenon DEF Starters
  <2>4. \A l \in Listeners :
           starting'[l] \in Subs => On[starting'[l]] = l /\ sub'[starting'[l]] = "starting"
    BY Zenon DEF Starters
  <2> QED
    BY <2>1, <2>2, <2>3, <2>4, Zenon DEF Starters
<1>2. \A l \in Listeners : ~lazy[l]
  BY Zenon DEF Known
<1>3. svc'.seen \subseteq made
  BY Zenon DEF Known
<1>4. svc'.pc \in {"cancels", "started"} => \A l \in svc'.seen : started[l]
  BY Zenon
<1>5. svc'.pc # "idle" => \A l \in (Owned \cap made) \ (raced \cup svc'.seen) : lazy[l]
  BY Zenon DEF Known
<1>6. Known'
  BY <1>2, <1>3, <1>4, <1>5, Zenon DEF Known
<1> QED
  BY <1>1, <1>6, Zenon

\* Service.Start, step by step.
LEMMA ServiceKnown ==
    ASSUME TypeOK, Lifecycle, Starters, Known,
           ServiceStart \/ ServiceStartsEvents \/ ServiceStarted
    PROVE  Starters' /\ Known'
<1>1. UNCHANGED <<made, lazy, raced, sub>>
  BY Zenon DEF ServiceStart, ServiceStartsEvents, ServiceStarted
<1>2. CASE ServiceStart
  <2>1. /\ UNCHANGED <<started, starting, stopped, consuming>> /\ svc.pc = "idle"
        /\ svc' = [pc |-> "requests", seen |-> Owned \cap made]
    BY <1>2, Zenon DEF ServiceStart
  <2>2. svc'.pc = "requests" /\ svc'.seen = Owned \cap made
    BY <2>1, Zenon
  <2> QED
    BY <1>1, <2>1, <2>2, ServiceStarters, Zenon
<1>3. CASE ServiceStartsEvents
  <2>1. svc.pc = "requests" /\ UNCHANGED stopped
    BY <1>3, Zenon DEF ServiceStartsEvents
  <2>2. CASE /\ UNCHANGED <<started, starting, consuming>>
             /\ \/ svc.seen = {} /\ svc' = At("cancels")
                \/ svc' = At("idle")
                \/ svc' = At("cancels") /\ \E l \in svc.seen : started[l]
    <3>1. svc'.seen = svc.seen /\ svc'.pc \in {"cancels", "idle"}
      BY <2>2, AtKeeps, Zenon
    <3>2. svc'.pc # "idle" => svc' = At("cancels")
      BY <2>2, AtKeeps, Zenon
    <3>3. svc' = At("cancels") => svc'.pc = "cancels"
      BY AtKeeps, Zenon
    <3>4. svc' = At("idle") => svc'.pc = "idle"
      BY AtKeeps, Zenon
    <3>5. \A k, l \in svc.seen : k = l
      BY EventsAssumption, Zenon DEF TypeOK
    <3>6. svc'.pc # "idle" => \A l \in svc.seen : started[l]
      BY <2>2, <3>4, <3>5, Zenon
    <3> QED
      BY <1>1, <2>1, <2>2, <3>1, <3>6, ServiceStarters, Zenon
  <2>3. CASE \E l \in svc.seen : Begin(l, "svc") /\ ~started[l] /\ svc' = At("starting")
    BY <1>3, <2>1, <2>3, StartsStarters, Zenon
  <2>4. ASSUME NEW l \in svc.seen, Begin(l, "svc"),
               svc' = At(IF started[l] THEN "cancels" ELSE "starting")
        PROVE  Starters' /\ Known'
    <3>1. CASE started[l]
      BY <2>2, <2>4, <3>1, Zenon DEF Begin
    <3>2. CASE ~started[l]
      BY <2>3, <2>4, <3>2, Zenon
    <3> QED
      BY <3>1, <3>2, Zenon
  <2> QED
    BY <1>3, <2>2, <2>4, Zenon DEF ServiceStartsEvents
<1>4. CASE ServiceStarted
  <2>1. svc.pc = "cancels" /\ UNCHANGED <<started, starting>>
    BY <1>4, Zenon DEF ServiceStarted
  <2>2. \/ svc' = At("started") /\ UNCHANGED <<consuming, stopped>>
        \/ /\ svc' = At("idle") /\ stopped' = stopped \cup svc.seen
           /\ consuming' = [l \in Listeners |-> consuming[l] /\ l \notin svc.seen]
    BY <1>4, Zenon DEF ServiceStarted
  <2>3. svc'.seen = svc.seen /\ svc'.pc \in {"idle", "started"}
    BY <2>2, AtKeeps, Zenon
  <2>4. stopped \subseteq stopped' /\ \A l \in Listeners \ stopped' : consuming'[l] <=> consuming[l]
    BY <2>2, Zenon
  <2>5. \A l \in svc.seen : started[l]
    BY <2>1, Zenon DEF Known
  <2>6. /\ svc.pc \notin {"started", "starting", "idle"} /\ svc'.pc # "starting"
        /\ svc'.pc # "idle" => svc'.pc \in {"cancels", "started"}
    BY <2>1, <2>3, Zenon
  <2> QED
    BY <1>1, <2>1, <2>3, <2>4, <2>5, <2>6, ServiceStarters
<1> QED
  BY <1>2, <1>3, <1>4, Zenon

\* A Start ends: a listener that is lazy was started by a subscription, and a
\* failure is that call's; one that Service.Start found was started by it.
LEMMA EndsStarters ==
    ASSUME TypeOK, Lifecycle, Starters, Known, NEW l \in Listeners, NEW ok \in BOOLEAN,
           Ends(l, ok), starting[l] # "nobody", UNCHANGED <<made, lazy, raced>>
    PROVE  Starters' /\ Known'
<1>1. /\ \A k \in Listeners : k # l => /\ started'[k] = started[k]
                                       /\ starting'[k] = starting[k]
                                       /\ consuming'[k] = consuming[k]
      /\ started'[l] = ok /\ starting'[l] = "nobody" /\ (consuming'[l] <=> consuming[l] /\ ok)
      /\ UNCHANGED stopped
  BY EndsMarks
<1>2. /\ \A s \in Subs : s # starting[l] => sub'[s] = sub[s]
      /\ starting[l] \in Subs => sub'[starting[l]] = IF ok THEN "ok" ELSE "err"
  BY EndsMarks
<1>3. /\ svc'.seen = svc.seen
      /\ svc'.pc = IF starting[l] = "svc" THEN IF ok THEN "cancels" ELSE "idle" ELSE svc.pc
  BY EndsMarks
<1>4. starting[l] \in Subs => On[starting[l]] = l /\ sub[starting[l]] = "starting" /\ lazy[l]
  <2>1. starting[l] \in Subs => On[starting[l]] = l /\ sub[starting[l]] = "starting"
    BY Zenon DEF Starters
  <2>2. \A s \in Subs : sub[s] = "starting" => lazy[On[s]]
    BY Zenon DEF Starters
  <2> QED
    BY <2>1, <2>2
<1>5. started[l]
  BY Zenon DEF Lifecycle
<1>6. starting[l] = "svc" => l \in svc.seen /\ svc.pc = "starting"
  BY Zenon DEF Starters
<1>7. \A k \in Listeners : lazy[k] => svc.pc = "started" /\ k \in (Owned \cap made) \ svc.seen
  BY Zenon DEF Known
<1>8. \A s \in Subs : sub'[s] # sub[s] => /\ s = starting[l] /\ On[s] = l /\ sub[s] = "starting"
                                         /\ sub'[s] = IF ok THEN "ok" ELSE "err"
  BY <1>2, <1>4, Zenon
<1>9. Starters'
  <2>1. \A k \in Listeners :
           starting'[k] \in Subs => On[starting'[k]] = k /\ sub'[starting'[k]] = "starting"
    <3> SUFFICES ASSUME NEW k \in Listeners, starting'[k] \in Subs
                 PROVE  On[starting'[k]] = k /\ sub'[starting'[k]] = "starting"
      BY Zenon
    <3>1. k # l /\ starting'[k] = starting[k]
      BY <1>1, EventsAssumption, Zenon
    <3>2. On[starting[k]] = k /\ sub[starting[k]] = "starting"
      BY <3>1, Zenon DEF Starters
    <3> QED
      BY <1>8, <3>1, <3>2, Zenon
  <2>2. \A k \in Listeners : starting'[k] = "svc" => k \in svc'.seen /\ svc'.pc = "starting"
    <3> SUFFICES ASSUME NEW k \in Listeners, starting'[k] = "svc"
                 PROVE  k \in svc'.seen /\ svc'.pc = "starting"
      BY Zenon
    <3>1. k # l /\ starting[k] = "svc"
      BY <1>1, Zenon
    <3>2. k \in svc.seen /\ svc.pc = "starting"
      BY <3>1, Zenon DEF Starters
    <3>3. starting[l] # "svc"
      BY <1>6, <3>1, <3>2, EventsAssumption, Zenon DEF TypeOK
    <3> QED
      BY <1>3, <3>2, <3>3
  <2>3. \A k \in Owned : starting'[k] \in Subs \cup {"nobody", "svc"}
    <3>1. \A k \in Owned : starting'[k] \in {"nobody", starting[k]}
      BY <1>1, EventsAssumption, Zenon
    <3> QED
      BY <3>1, Zenon DEF Starters
  <2>4. \A k \in Listeners \ stopped : consuming'[k] <=> started'[k]
    <3> SUFFICES ASSUME NEW k \in Listeners \ stopped PROVE consuming'[k] <=> started'[k]
      BY Zenon
    <3>1. consuming[k] <=> started[k]
      BY Zenon DEF Starters
    <3>2. CASE k = l
      BY <1>1, <1>5, <3>1, <3>2, Zenon
    <3>3. CASE k # l
      BY <1>1, <3>1, <3>3, Zenon
    <3> QED
      BY <3>2, <3>3, Zenon
  <2>5. \A s \in Subs : sub'[s] # "idle" => On[s] \in made
    <3>1. \A s \in Subs : sub[s] # "idle" => On[s] \in made
      BY Zenon DEF Starters
    <3> QED
      BY <1>8, <3>1
  <2>6. \A s \in Subs : sub'[s] \in {"start", "starting"} => lazy[On[s]]
    <3>1. \A s \in Subs : sub[s] \in {"start", "starting"} => lazy[On[s]]
      BY Zenon DEF Starters
    <3> QED
      BY <1>8, <3>1
  <2> QED
    BY <1>1, <2>1, <2>2, <2>3, <2>4, <2>5, <2>6, Zenon DEF Starters
<1>10. Known'
  <2>1. svc.pc = "started" => svc'.pc = "started"
    BY <1>3, <1>6
  <2>2. svc'.pc \in {"cancels", "started"} => \A k \in svc.seen : started'[k]
    <3> SUFFICES ASSUME svc'.pc \in {"cancels", "started"}, NEW k \in svc.seen PROVE started'[k]
      BY Zenon
    <3>1. k \in Owned /\ k \in Listeners
      BY EventsAssumption, Zenon DEF TypeOK
    <3>2. CASE starting[l] = "svc"
      <4>1. ok
        BY <1>3, <3>2
      <4>2. k = l
        BY <1>6, <3>1, <3>2, EventsAssumption, Zenon DEF TypeOK
      <4> QED
        BY <1>1, <4>1, <4>2, Zenon
    <3>3. CASE starting[l] # "svc"
      <4>1. svc.pc \in {"cancels", "started"}
        BY <1>3, <3>3
      <4>2. k # l
        <5>1. CASE starting[l] \in Subs
          BY <1>4, <1>7, <5>1, Zenon
        <5>2. CASE starting[l] \notin Subs
          BY <3>1, <3>3, <5>2, Zenon DEF Starters
        <5> QED
          BY <5>1, <5>2, Zenon
      <4> QED
        BY <1>1, <3>1, <4>1, <4>2, Zenon DEF Known
    <3> QED
      BY <3>2, <3>3, Zenon
  <2>3. svc'.pc # "idle" => \A k \in (Owned \cap made) \ (raced \cup svc.seen) : lazy[k]
    <3>1. svc'.pc # "idle" => svc.pc # "idle"
      BY <1>3, <1>6
    <3> QED
      BY <3>1, Zenon DEF Known
  <2>4. ASSUME NEW s \in Subs, sub'[s] \in {"bind", "ok"}, On[s] \in Listeners, lazy[On[s]]
        PROVE  started'[On[s]] \/ Told(On[s])'
    <3>1. \A k : Told(k) => Told(k)'
      BY <1>8, Zenon DEF Told
    <3>2. CASE On[s] = l /\ ~ok
      <4>1. starting[l] \in Subs
        <5>1. starting[l] # "svc" /\ l \in Owned
          BY <1>6, <1>7, <2>4, <3>2, Zenon
        <5> QED
          BY <5>1, Zenon DEF Starters
      <4>2. sub'[starting[l]] = "err" /\ On[starting[l]] = l
        BY <1>2, <1>4, <3>2, <4>1, Zenon
      <4> QED
        BY <3>2, <4>1, <4>2, Zenon DEF Told
    <3>3. CASE On[s] = l /\ ok
      BY <1>1, <3>3, Zenon
    <3>4. CASE On[s] # l
      <4>1. sub[s] \in {"bind", "ok"}
        BY <1>8, <2>4, <3>4, Zenon
      <4> QED
        BY <1>1, <2>4, <3>1, <3>4, <4>1, Zenon DEF Known
    <3> QED
      BY <3>2, <3>3, <3>4, Zenon
  <2>5. svc.seen \subseteq made
    BY Zenon DEF Known
  <2> QED
    BY <1>3, <1>7, <2>1, <2>2, <2>3, <2>4, <2>5, Zenon DEF Known
<1> QED
  BY <1>9, <1>10, Zenon

-----------------------------------------------------------------------------
\* A copy at the end of a queue.
LEMMA Appended ==
    ASSUME NEW q \in Seq(Copy), NEW c \in Copy
    PROVE  /\ Append(q, c) \in Seq(Copy)
           /\ Len(q) + 1 \in DOMAIN Append(q, c) /\ Append(q, c)[Len(q) + 1] = c
           /\ \A i \in DOMAIN q : i # Len(q) + 1 /\ Append(q, c)[i] = q[i]
           /\ \A i \in DOMAIN Append(q, c) : i \in DOMAIN q \/ i = Len(q) + 1
OBVIOUS

\* A copy of an event that is nowhere, or exempt, joins a queue, of either kind.
LEMMA Joins ==
    ASSUME NEW q \in Seq(Copy), NEW p \in Seq(Copy), NEW done, NEW dbl, NEW c \in Copy,
           Single(q, p, done, dbl),
           c.e \in dbl \/ (Absent(q, c.e) /\ Absent(p, c.e) /\ c.e \notin done)
    PROVE  Single(Append(q, c), p, done, dbl) /\ Single(q, Append(p, c), done, dbl)
<1>1. ASSUME NEW s \in Seq(Copy), c.e \in dbl \/ Absent(s, c.e), Lone(s, dbl)
      PROVE  Lone(Append(s, c), dbl)
  <2> DEFINE t == Append(s, c)
  <2>1. /\ \A i \in DOMAIN s : t[i] = s[i]
        /\ \A i \in DOMAIN t : i \in DOMAIN s \/ (i = Len(s) + 1 /\ t[i] = c)
    BY <1>1, Appended
  <2> HIDE DEF t
  <2>2. ASSUME NEW i \in DOMAIN t, NEW j \in DOMAIN t, t[i].e = t[j].e
        PROVE  i = j \/ t[i].e \in dbl
    BY <1>1, <2>1, <2>2 DEF Absent, Lone
  <2> QED
    BY <2>2, Zenon DEF t, Lone
<1>2. ASSUME NEW s \in Seq(Copy), NEW e, e # c.e, Absent(s, e) PROVE Absent(Append(s, c), e)
  BY <1>2, Appended DEF Absent
<1>3. Single(Append(q, c), p, done, dbl)
  <2> DEFINE t == Append(q, c)
  <2>1. /\ \A i \in DOMAIN q : t[i] = q[i]
        /\ \A i \in DOMAIN t : i \in DOMAIN q \/ (i = Len(q) + 1 /\ t[i] = c)
    BY Appended, Zenon
  <2>2. Lone(t, dbl)
    BY <1>1, Zenon DEF Single
  <2> HIDE DEF t
  <2>3. \A i \in DOMAIN t : t[i].e \in dbl \/ (Absent(p, t[i].e) /\ t[i].e \notin done)
    BY <2>1 DEF Single
  <2> QED
    BY <2>2, <2>3, Zenon DEF Single, t
<1>4. Single(q, Append(p, c), done, dbl)
  <2> DEFINE t == Append(p, c)
  <2>1. /\ \A i \in DOMAIN p : t[i] = p[i]
        /\ \A i \in DOMAIN t : i \in DOMAIN p \/ (i = Len(p) + 1 /\ t[i] = c)
    BY Appended, Zenon
  <2>2. Lone(t, dbl)
    BY <1>1, Zenon DEF Single
  <2>3. \A i \in DOMAIN q : q[i].e \in dbl \/ (Absent(t, q[i].e) /\ q[i].e \notin done)
    <3>1. ASSUME NEW i \in DOMAIN q, q[i].e \notin dbl
          PROVE  Absent(t, q[i].e) /\ q[i].e \notin done
      <4>1. q[i].e # c.e
        BY <3>1, Zenon DEF Absent
      <4>2. Absent(p, q[i].e) /\ q[i].e \notin done
        BY <3>1, Zenon DEF Single
      <4> QED
        BY <1>2, <4>1, <4>2, Zenon
    <3> QED
      BY <3>1, Zenon
  <2> HIDE DEF t
  <2>4. \A i \in DOMAIN t : t[i].e \in dbl \/ t[i].e \notin done
    BY <2>1 DEF Single
  <2> QED
    BY <2>2, <2>3, <2>4, Zenon DEF Single, t
<1> QED
  BY <1>3, <1>4, Zenon

\* Once the event of a copy is exempt, nothing is asked of that copy.
LEMMA Exempted ==
    ASSUME NEW q, NEW p, NEW done, NEW dbl, NEW e, Single(q, p, done, dbl)
    PROVE  Single(q, p, done, dbl \cup {e})
BY Zenon DEF Single, Lone

\* A copy leaves from the front of a queue, and there was no other.
LEMMA Leaves ==
    ASSUME NEW q \in Seq(Copy), q # <<>>
    PROVE  /\ Head(q) \in Copy /\ Tail(q) \in Seq(Copy)
           /\ 1 \in DOMAIN q /\ q[1] = Head(q)
           /\ \A i \in DOMAIN Tail(q) : i + 1 \in DOMAIN q /\ i + 1 # 1 /\ Tail(q)[i] = q[i + 1]
                                        /\ i \in Nat
OBVIOUS

\* What leaves the queue, and what leaves the retry queue.
LEMMA LeavesOne ==
    ASSUME NEW q \in Seq(Copy), q # <<>>, NEW done, NEW dbl, Lone(q, dbl),
           \A i \in DOMAIN q : q[i].e \in dbl \/ q[i].e \notin done
    PROVE  /\ Lone(Tail(q), dbl)
           /\ \A i \in DOMAIN Tail(q) : \/ Tail(q)[i].e \in dbl
                                        \/ Tail(q)[i].e \notin done /\ Tail(q)[i].e # Head(q).e
           /\ Head(q).e \in dbl \/ Head(q).e \notin done
           /\ \A i \in DOMAIN Tail(q) : \E j \in DOMAIN q : Tail(q)[i] = q[j]
<1> DEFINE t == Tail(q)
<1>1. /\ 1 \in DOMAIN q /\ q[1] = Head(q)
      /\ \A i \in DOMAIN t : i + 1 \in DOMAIN q /\ i + 1 # 1 /\ t[i] = q[i + 1] /\ i \in Nat
  BY Leaves, Zenon
<1> HIDE DEF t
<1>2. ASSUME NEW i \in DOMAIN t, NEW j \in DOMAIN t, t[i].e = t[j].e, t[i].e \notin dbl
      PROVE  i = j
  <2>1. q[i + 1].e = q[j + 1].e /\ q[i + 1].e \notin dbl
    BY <1>1, <1>2
  <2>2. i + 1 = j + 1
    BY <1>1, <2>1, Zenon DEF Lone
  <2> QED
    BY <1>1, <2>2
<1>3. ASSUME NEW i \in DOMAIN t, t[i].e \notin dbl PROVE t[i].e \notin done /\ t[i].e # Head(q).e
  <2>1. t[i] = q[i + 1] /\ i + 1 \in DOMAIN q /\ i + 1 # 1 /\ q[i + 1].e \notin dbl
    BY <1>1, <1>3, Zenon
  <2>2. q[i + 1].e # q[1].e
    BY <1>1, <2>1, Zenon DEF Lone
  <2> QED
    BY <1>1, <2>1, <2>2
<1>4. Head(q).e \in dbl \/ Head(q).e \notin done
  BY <1>1
<1> QED
  BY <1>1, <1>2, <1>3, <1>4, Zenon DEF t, Lone

\* Steps that publish and handle nothing: at most a queue is gone.
LEMMA QuietCopies ==
    ASSUME Copies, UNCHANGED <<ev, parked, handled, doubled>>,
           \A l \in Listeners : queue'[l] = queue[l] \/ queue'[l] = <<>>
    PROVE  Copies'
<1>1. \A l \in Listeners : Done(l)' = Done(l) /\ Twice(l)' = Twice(l)
  BY Zenon DEF Done, Twice
<1>2. \A p, done, dbl : Single(<<>>, p, done, dbl) <=>
          Lone(p, dbl) /\ \A i \in DOMAIN p : p[i].e \in dbl \/ p[i].e \notin done
  BY DEF Single, Lone
<1>3. \A e : Absent(<<>>, e)
  BY DEF Absent
<1>4. ASSUME NEW l \in Listeners PROVE Single(queue'[l], parked[l], Done(l), Twice(l))
  <2>1. Single(queue[l], parked[l], Done(l), Twice(l))
    BY Zenon DEF Copies
  <2>2. Single(<<>>, parked[l], Done(l), Twice(l))
    BY <1>2, <2>1, ZenonT(30) DEF Single
  <2> QED
    BY <2>1, <2>2, Zenon
<1>5. ASSUME NEW e \in Evs, NEW l \in Listeners, ev[e] = "idle"
      PROVE  Absent(queue'[l], e) /\ Absent(parked[l], e) /\ e \notin Done(l)
  <2>1. Absent(queue[l], e) /\ Absent(parked[l], e) /\ e \notin Done(l)
    BY <1>5, Zenon DEF Copies
  <2> QED
    BY <1>3, <2>1, Zenon
<1> QED
  BY <1>1, <1>4, <1>5, Zenon DEF Copies

\* The listener side of the system.
LEMMA OtherCopies ==
    ASSUME TypeOK, Copies,
           \/ \E s \in Subs : Subscribe(s) \/ Bind(s) \/ SubscribeStarts(s)
           \/ ServiceStart \/ ServiceStartsEvents \/ ServiceStarted
           \/ \E l \in Listeners : \/ GetEvents(l) \/ StartListener(l) \/ AttachGivesUp(l)
                                   \/ \E who \in {"start", "sup", "recover"} : TakesLock(who, l)
                                   \/ ChannelDies(l)
           \/ Restored \/ RestoreFails \/ ConnLost \/ Reconnects \/ Announces
    PROVE  Copies'
<1>1. UNCHANGED <<ev, parked, handled, doubled>>
  BY Zenon DEF Subscribe, Bind, BindWith, SubscribeStarts, ServiceStart, ServiceStartsEvents,
     ServiceStarted, GetEvents, StartListener, AttachGivesUp, TakesLock, ChannelDies, Restored,
     RestoreFails, ConnLost, Reconnects, Announces
<1>2. \/ UNCHANGED queue
      \/ \E l \in Listeners : queue' = [queue EXCEPT ![l] = <<>>]
      \/ queue' = [l \in Listeners |-> IF l \in Private THEN <<>> ELSE queue[l]]
  BY Zenon DEF Subscribe, Bind, BindWith, SubscribeStarts, ServiceStart, ServiceStartsEvents,
     ServiceStarted, GetEvents, StartListener, AttachGivesUp, TakesLock, ChannelDies, Restored,
     RestoreFails, ConnLost, Reconnects, Announces
<1>3. \A l \in Listeners : queue'[l] = queue[l] \/ queue'[l] = <<>>
  <2>1. DOMAIN queue = Listeners
    BY Zenon DEF TypeOK
  <2> QED
    BY <1>2, <2>1, Zenon
<1> QED
  BY <1>1, <1>3, QuietCopies, Zenon

\* What is delivered joins the queues of some listeners.
LEMMA DeliveredJoins ==
    ASSUME NEW Q \in [Listeners -> Seq(Copy)], NEW c \in Copy, NEW L
    PROVE  /\ Delivered(Q, c, L) \in [Listeners -> Seq(Copy)]
           /\ \A l \in Listeners : Delivered(Q, c, L)[l] = IF l \in L THEN Append(Q[l], c) ELSE Q[l]
<1>1. \A l \in Listeners : Append(Q[l], c) \in Seq(Copy) /\ Q[l] \in Seq(Copy)
  OBVIOUS
<1> QED
  BY <1>1, Zenon DEF Delivered

\* PublishEvent delivers an event once, of which there is no copy yet.
LEMMA PublishCopies ==
    ASSUME TypeOK, Copies, NEW e \in Evs, PublishEvent(e)
    PROVE  TypeOK' /\ Copies'
<1> DEFINE c == [e |-> e, n |-> 0]
<1>1. /\ UNCHANGED <<parked, handled, doubled, made, enlisted, started, consuming, lazy, patterns, bound,
                     starting, ch, sub, svc, lock>>
      /\ ev[e] = "idle"
      /\ ev' = ev \/ \E r \in {"ok", "err"} : ev' = [ev EXCEPT ![e] = r]
      /\ \/ UNCHANGED queue
         \/ ev' # ev /\ \E L : queue' = Delivered(queue, c, L)
  <2>1. \A r \in {"ok", "err"} : ev[e] = "idle" => [ev EXCEPT ![e] = r] # ev
    BY Zenon DEF TypeOK
  <2> QED
    BY <2>1, Zenon DEF PublishEvent, Publish, Repair
<1>2. c \in Copy /\ c.e = e
  BY DEF Copy
<1> HIDE DEF c
<1>3. /\ DOMAIN ev' = Evs /\ \A x \in Evs : x # e => ev'[x] = ev[x]
      /\ ev' # ev => ev'[e] # "idle"
  BY <1>1, Zenon DEF TypeOK
<1>4. queue' \in [Listeners -> Seq(Copy)]
  <2>1. queue \in [Listeners -> Seq(Copy)]
    BY Zenon DEF TypeOK
  <2>2. ASSUME NEW L PROVE Delivered(queue, c, L) \in [Listeners -> Seq(Copy)]
    BY <1>2, <2>1, DeliveredJoins
  <2> QED
    BY <1>1, <2>1, <2>2, Zenon
<1>5. TypeOK'
  BY <1>1, <1>3, <1>4, Zenon DEF TypeOK, Free
<1>6. \A l \in Listeners : Done(l)' = Done(l) /\ Twice(l)' = Twice(l)
  BY <1>1, Zenon DEF Done, Twice
<1>7. CASE UNCHANGED queue
  <2>1. \A x \in Evs : ev'[x] = "idle" => ev[x] = "idle"
    BY <1>1, <1>3, Zenon
  <2>2. Copies'
    BY <1>1, <1>6, <1>7, <2>1 DEF Copies
  <2> QED
    BY <1>5, <2>2, Zenon
<1>8. ASSUME NEW L, queue' = Delivered(queue, c, L), ev' # ev PROVE Copies'
  <2>0. queue \in [Listeners -> Seq(Copy)]
    BY Zenon DEF TypeOK
  <2>1. \A l \in Listeners : queue'[l] = IF l \in L THEN Append(queue[l], c) ELSE queue[l]
    BY <1>2, <1>8, <2>0, DeliveredJoins
  <2>2. \A l \in Listeners : queue[l] \in Seq(Copy) /\ parked[l] \in Seq(Copy)
    BY DEF TypeOK
  <2>3. \A l \in Listeners : /\ Single(queue[l], parked[l], Done(l), Twice(l))
                             /\ Absent(queue[l], e) /\ Absent(parked[l], e) /\ e \notin Done(l)
    BY <1>1, Zenon DEF Copies
  <2>4. ASSUME NEW l \in Listeners PROVE Single(queue'[l], parked[l], Done(l), Twice(l))
    BY <1>2, <2>1, <2>2, <2>3, Joins
  <2>5. ASSUME NEW x \in Evs, NEW l \in Listeners, ev'[x] = "idle"
        PROVE  Absent(queue'[l], x) /\ Absent(parked[l], x) /\ x \notin Done(l)
    <3>1. x # e /\ ev[x] = "idle"
      BY <1>3, <1>8, <2>5, Zenon
    <3>2. Absent(queue[l], x) /\ Absent(parked[l], x) /\ x \notin Done(l)
      BY <3>1, Zenon DEF Copies
    <3>3. Absent(Append(queue[l], c), x)
      BY <1>2, <2>2, <3>1, <3>2, Appended DEF Absent
    <3> QED
      BY <2>1, <3>2, <3>3, Zenon
  <2> QED
    BY <1>1, <1>6, <2>4, <2>5, Zenon DEF Copies
<1> QED
  BY <1>1, <1>5, <1>7, <1>8, Zenon

\* The front of a queue goes and the rest keeps its place.
LEMMA StillAbsent ==
    ASSUME NEW q \in Seq(Copy), NEW e, Absent(q, e)
    PROVE  /\ q # <<>> => Absent(Tail(q), e) /\ Head(q).e # e
           /\ \A d \in Copy : d.e # e => Absent(Append(q, d), e)
<1>1. ASSUME q # <<>> PROVE Absent(Tail(q), e) /\ Head(q).e # e
  BY <1>1, Leaves DEF Absent
<1>2. ASSUME NEW d \in Copy, d.e # e PROVE Absent(Append(q, d), e)
  BY <1>2, Appended DEF Absent
<1> QED
  BY <1>1, <1>2, Zenon

\* A copy taken from the queue is gone, acknowledged or parked.
LEMMA QueueLeaves ==
    ASSUME NEW q \in Seq(Copy), NEW p \in Seq(Copy), NEW done, NEW dbl, q # <<>>,
           Single(q, p, done, dbl)
    PROVE  /\ Single(Tail(q), p, done, dbl)
           /\ Single(Tail(q), p, done \cup {Head(q).e}, dbl)
           /\ \A d \in Copy : d.e = Head(q).e => Single(Tail(q), Append(p, d), done, dbl)
<1> DEFINE t == Tail(q)
<1>1. /\ Head(q) \in Copy /\ t \in Seq(Copy) /\ 1 \in DOMAIN q /\ q[1] = Head(q)
  BY Leaves, Zenon
<1>2. /\ Lone(t, dbl)
      /\ \A i \in DOMAIN t : t[i].e \in dbl \/ (t[i].e \notin done /\ t[i].e # Head(q).e)
      /\ \A i \in DOMAIN t : \E j \in DOMAIN q : t[i] = q[j]
  <2>1. Lone(q, dbl) /\ \A i \in DOMAIN q : q[i].e \in dbl \/ q[i].e \notin done
    BY Zenon DEF Single
  <2> QED
    BY <2>1, LeavesOne, Zenon
<1> HIDE DEF t
<1>3. Head(q).e \in dbl \/ (Absent(p, Head(q).e) /\ Head(q).e \notin done)
  BY <1>1 DEF Single
<1>4. \A i \in DOMAIN t : t[i].e \in dbl \/ Absent(p, t[i].e)
  BY <1>2 DEF Single
<1>5. Single(t, p, done, dbl)
  BY <1>2, <1>4, Zenon DEF Single
<1>6. Single(t, p, done \cup {Head(q).e}, dbl)
  <2>1. \A i \in DOMAIN p : p[i].e \in dbl \/ p[i].e \notin done \cup {Head(q).e}
    BY <1>3 DEF Single, Absent
  <2>2. Lone(p, dbl)
    BY Zenon DEF Single
  <2>3. \A i \in DOMAIN t : \/ t[i].e \in dbl
                            \/ Absent(p, t[i].e) /\ t[i].e \notin done \cup {Head(q).e}
    BY <1>2, <1>4, Zenon
  <2> QED
    BY <1>2, <2>1, <2>2, <2>3, Zenon DEF Single
<1>7. ASSUME NEW d \in Copy, d.e = Head(q).e PROVE Single(t, Append(p, d), done, dbl)
  <2>1. d.e \in dbl \/ (Absent(t, d.e) /\ Absent(p, d.e) /\ d.e \notin done)
    <3>1. ASSUME d.e \notin dbl PROVE Absent(t, d.e)
      BY <1>2, <1>7, <3>1 DEF Absent
    <3> QED
      BY <1>3, <1>7, <3>1, Zenon
  <2> QED
    BY <1>1, <1>5, <2>1, Joins, Zenon DEF t
<1> QED
  BY <1>5, <1>6, <1>7, Zenon DEF t

\* A copy whose retry delay has ended is back on the queue, or gone with it.
LEMMA ParkedLeaves ==
    ASSUME NEW q \in Seq(Copy), NEW p \in Seq(Copy), NEW done, NEW dbl, p # <<>>,
           Single(q, p, done, dbl)
    PROVE  Single(q, Tail(p), done, dbl) /\ Single(Append(q, Head(p)), Tail(p), done, dbl)
<1> DEFINE t == Tail(p)
<1>1. /\ Head(p) \in Copy /\ t \in Seq(Copy) /\ 1 \in DOMAIN p /\ p[1] = Head(p)
  BY Leaves, Zenon
<1>2. /\ Lone(t, dbl)
      /\ \A i \in DOMAIN t : t[i].e \in dbl \/ (t[i].e \notin done /\ t[i].e # Head(p).e)
      /\ \A i \in DOMAIN t : \E j \in DOMAIN p : t[i] = p[j]
  <2>1. Lone(p, dbl) /\ \A i \in DOMAIN p : p[i].e \in dbl \/ p[i].e \notin done
    BY Zenon DEF Single
  <2> QED
    BY <2>1, LeavesOne, Zenon
<1> HIDE DEF t
<1>3. Head(p).e \in dbl \/ Absent(t, Head(p).e)
  BY <1>2 DEF Absent
<1>4. Head(p).e \in dbl \/ (Absent(q, Head(p).e) /\ Head(p).e \notin done)
  BY <1>1 DEF Single, Absent
<1>5. \A i \in DOMAIN q : q[i].e \in dbl \/ Absent(t, q[i].e)
  BY <1>2 DEF Single, Absent
<1>6. Single(q, t, done, dbl)
  BY <1>2, <1>5, Zenon DEF Single
<1>7. Single(Append(q, Head(p)), t, done, dbl)
  <2>1. Head(p).e \in dbl \/ (Absent(q, Head(p).e) /\ Absent(t, Head(p).e) /\ Head(p).e \notin done)
    BY <1>3, <1>4, Zenon
  <2> QED
    BY <1>1, <1>6, <2>1, Joins, Zenon
<1> QED
  BY <1>6, <1>7, Zenon DEF t

\* What cannot be decoded fails as a handled error, which is not retried.
LEMMA FailuresDecode == ASSUME NEW hs, NEW e, "fail" \in Outcomes(hs, e) PROVE plan[e] # "garbled"
<1>1. \E s : "fail" \in Returns(s, e)
  BY Zenon DEF Outcomes
<1> QED
  BY <1>1 DEF Returns, SubscribeType, SubscribeAll, EventDecodeError

\* Steps of one listener's queues leave the others' alone.
LEMMA OneListener ==
    ASSUME Copies, NEW l \in Listeners, ev' = ev,
           \A k \in Listeners \ {l} : /\ queue'[k] = queue[k] /\ parked'[k] = parked[k]
                                      /\ Done(k)' = Done(k) /\ Twice(k)' = Twice(k),
           Single(queue'[l], parked'[l], Done(l)', Twice(l)'),
           \A e \in Evs : ev[e] = "idle" =>
               Absent(queue'[l], e) /\ Absent(parked'[l], e) /\ e \notin Done(l)'
    PROVE  Copies'
<1>1. ASSUME NEW k \in Listeners PROVE Single(queue'[k], parked'[k], Done(k)', Twice(k)')
  BY Zenon DEF Copies
<1>2. ASSUME NEW e \in Evs, NEW k \in Listeners, ev[e] = "idle"
      PROVE  Absent(queue'[k], e) /\ Absent(parked'[k], e) /\ e \notin Done(k)'
  BY <1>2, Zenon DEF Copies
<1> QED
  BY <1>1, <1>2, Zenon DEF Copies

\* What is parked is a copy of the event at the front, on one listener's retry queue.
LEMMA ParkAdds ==
    ASSUME TypeOK, NEW l \in Listeners, queue[l] # <<>>
    PROVE  /\ queue[l] \in Seq(Copy) /\ parked[l] \in Seq(Copy)
           /\ Park(l, Head(queue[l])) \in [Listeners -> Seq(Copy)]
           /\ \A k \in Listeners \ {l} : Park(l, Head(queue[l]))[k] = parked[k]
           /\ \E d \in Copy : /\ d.e = Head(queue[l]).e
                              /\ Park(l, Head(queue[l]))[l] = Append(parked[l], d)
<1> DEFINE c == Head(queue[l])
           d == [c EXCEPT !.n = @ + 1]
<1>1. queue \in [Listeners -> Seq(Copy)] /\ parked \in [Listeners -> Seq(Copy)]
  BY Zenon DEF TypeOK
<1>2. queue[l] \in Seq(Copy) /\ parked[l] \in Seq(Copy)
  BY <1>1
<1>3. c \in Copy
  BY <1>2, Leaves, Zenon
<1>4. d \in Copy /\ d.e = c.e
  BY <1>3 DEF Copy
<1>5. Park(l, c) = Delivered(parked, d, {l})
  BY Zenon DEF Park
<1> HIDE DEF c, d
<1>6. Delivered(parked, d, {l}) \in [Listeners -> Seq(Copy)]
  BY <1>1, <1>4, DeliveredJoins, Zenon
<1>7. \A k \in Listeners :
          Delivered(parked, d, {l})[k] = IF k \in {l} THEN Append(parked[k], d) ELSE parked[k]
  BY Zenon DEF Delivered
<1>8. /\ Delivered(parked, d, {l})[l] = Append(parked[l], d)
      /\ \A k \in Listeners \ {l} : Delivered(parked, d, {l})[k] = parked[k]
  BY <1>7, Zenon
<1> QED
  BY <1>2, <1>4, <1>5, <1>6, <1>8, Zenon DEF c

\* Only a listener with a retry policy retries, and only what it could read.
LEMMA RetriesReadable ==
    ASSUME NEW l, NEW c, NEW res \in Handled(l, c.e), MayRetry(l, c, res)
    PROVE  l \in Retrying /\ plan[c.e] \notin {"noise", "garbled"}
<1>1. res = "fail" /\ l \in Retrying
  BY Zenon DEF MayRetry
<1>2. plan[c.e] # "noise" /\ "fail" \in Outcomes(Handlers(l, c.e), c.e)
  BY <1>1, Zenon DEF Handled, Decodes, EventDecodeError
<1> QED
  BY <1>1, <1>2, FailuresDecode, Zenon

\* Handling takes the front of one listener's queue: acknowledged, parked or gone.
LEMMA HandleTakes ==
    ASSUME TypeOK, NEW l \in Listeners, Handle(l)
    PROVE  /\ queue[l] \in Seq(Copy) /\ parked[l] \in Seq(Copy) /\ queue[l] # <<>>
           /\ queue' \in [Listeners -> Seq(Copy)] /\ parked' \in [Listeners -> Seq(Copy)]
           /\ queue'[l] = Tail(queue[l])
           /\ \A k \in Listeners \ {l} : queue'[k] = queue[k] /\ parked'[k] = parked[k]
           /\ \/ parked'[l] = parked[l] /\ handled' = handled
              \/ parked'[l] = parked[l] /\ handled' = handled \cup {<<Head(queue[l]).e, l>>}
              \/ /\ handled' = handled /\ l \in Retrying
                 /\ plan[Head(queue[l]).e] \notin {"noise", "garbled"}
                 /\ \E d \in Copy : /\ d.e = Head(queue[l]).e
                                    /\ parked'[l] = Append(parked[l], d)
<1> DEFINE c == Head(queue[l])
<1>1. queue \in [Listeners -> Seq(Copy)] /\ parked \in [Listeners -> Seq(Copy)]
  BY Zenon DEF TypeOK
<1>2. queue' = [queue EXCEPT ![l] = Tail(@)] /\ queue[l] # <<>>
  BY Zenon DEF Handle
<1>3. queue[l] \in Seq(Copy) /\ parked[l] \in Seq(Copy)
  BY <1>1
<1>4. Tail(queue[l]) \in Seq(Copy)
  BY <1>2, <1>3, Leaves, Zenon
<1>5. PICK res \in Handled(l, c.e) :
          /\ handled' = IF res = "ok" THEN handled \cup {<<c.e, l>>} ELSE handled
          /\ parked' = IF MayRetry(l, c, res) THEN Park(l, c) ELSE parked
  BY Zenon DEF Handle
<1>6. /\ queue' \in [Listeners -> Seq(Copy)] /\ queue'[l] = Tail(queue[l])
      /\ \A k \in Listeners \ {l} : queue'[k] = queue[k]
  BY <1>1, <1>2, <1>4, Zenon
<1>7. CASE MayRetry(l, c, res)
  <2>1. res = "fail"
    BY <1>7, Zenon DEF MayRetry
  <2>2. parked' = Park(l, c) /\ handled' = handled
    BY <1>5, <1>7, <2>1
  <2>3. l \in Retrying /\ plan[c.e] \notin {"noise", "garbled"}
    BY <1>7, RetriesReadable, Zenon
  <2> QED
    BY <1>2, <1>3, <1>6, <2>2, <2>3, ParkAdds, Zenon
<1>8. CASE ~MayRetry(l, c, res)
  <2>1. parked' = parked /\ handled' \in {handled, handled \cup {<<c.e, l>>}}
    BY <1>5, <1>8, Zenon
  <2> QED
    BY <1>1, <1>2, <1>3, <1>6, <2>1, Zenon
<1> QED
  BY <1>7, <1>8, Zenon

\* A listener with a channel has been created, and so has no retry policy on a
\* private queue (NewEventListener): what it parks is readable and not on one.
LEMMA ParkedJoins ==
    ASSUME TypeOK, Lifecycle, Parked, NEW l \in Listeners, NEW e, ch[l] = "open",
           UNCHANGED <<plan, made>>,
           \A k \in Listeners \ {l} : parked'[k] = parked[k],
           \/ parked'[l] = parked[l]
           \/ /\ l \in Retrying /\ plan[e] \notin {"noise", "garbled"}
              /\ \E d \in Copy : d.e = e /\ parked'[l] = Append(parked[l], d)
    PROVE  Parked'
<1> DEFINE p == parked[l]
<1>0. p \in Seq(Copy)
  BY DEF TypeOK
<1> HIDE DEF p
<1>1. ASSUME l \in Retrying PROVE l \notin Private
  BY <1>1, Zenon DEF Lifecycle, Parked
<1>2. ASSUME NEW k \in Listeners, NEW i \in DOMAIN parked'[k]
      PROVE  k \notin Private /\ plan[parked'[k][i].e] \notin {"noise", "garbled"}
  <2>1. CASE k # l \/ parked'[l] = p
    BY <1>2, <2>1, Zenon DEF Parked, p
  <2>2. ASSUME NEW d \in Copy, k = l, l \in Retrying, plan[e] \notin {"noise", "garbled"}, d.e = e,
               parked'[l] = Append(p, d)
        PROVE  k \notin Private /\ plan[parked'[k][i].e] \notin {"noise", "garbled"}
    <3>1. \/ i \in DOMAIN p /\ parked'[k][i] = p[i]
          \/ parked'[k][i] = d
      BY <1>0, <1>2, <2>2, Appended
    <3>2. \A j \in DOMAIN p : plan[p[j].e] \notin {"noise", "garbled"}
      BY Zenon DEF Parked, p
    <3> QED
      BY <1>1, <2>2, <3>1, <3>2
  <2> QED
    BY <2>1, <2>2, Zenon DEF p
<1> QED
  BY <1>2, Zenon DEF Parked

\* An event is acknowledged, parked or gone: its copy has left the queue.
LEMMA HandleCopies ==
    ASSUME TypeOK, Lifecycle, Copies, Parked, NEW l \in Listeners, Handle(l)
    PROVE  TypeOK' /\ Copies' /\ Parked'
<1> DEFINE q == queue[l]
           p == parked[l]
           e == Head(q).e
<1>1. /\ q \in Seq(Copy) /\ p \in Seq(Copy) /\ q # <<>>
      /\ queue' \in [Listeners -> Seq(Copy)] /\ parked' \in [Listeners -> Seq(Copy)]
      /\ queue'[l] = Tail(q)
      /\ \A k \in Listeners \ {l} : queue'[k] = queue[k] /\ parked'[k] = parked[k]
  BY HandleTakes, Zenon
<1>2. \/ parked'[l] = p /\ handled' = handled
      \/ parked'[l] = p /\ handled' = handled \cup {<<e, l>>}
      \/ /\ handled' = handled /\ l \in Retrying /\ plan[e] \notin {"noise", "garbled"}
         /\ \E d \in Copy : d.e = e /\ parked'[l] = Append(p, d)
  BY HandleTakes, Zenon
<1>3. /\ UNCHANGED <<plan, made, enlisted, started, consuming, lazy, patterns, bound, starting,
                     ch, sub, svc, lock, ev, doubled>>
      /\ ch[l] = "open"
  BY Zenon DEF Handle
<1>4. TypeOK'
  BY <1>1, <1>3, Zenon DEF TypeOK, Free
<1>5. Single(q, p, Done(l), Twice(l))
  BY Zenon DEF Copies
<1>6. /\ Single(Tail(q), p, Done(l), Twice(l)) /\ Single(Tail(q), p, Done(l) \cup {e}, Twice(l))
      /\ \A d \in Copy : d.e = e => Single(Tail(q), Append(p, d), Done(l), Twice(l))
  BY <1>1, <1>5, QueueLeaves, Zenon
<1>7. ASSUME NEW x \in Evs, ev[x] = "idle"
      PROVE  /\ Absent(Tail(q), x) /\ Absent(p, x) /\ x \notin Done(l) /\ e # x
             /\ \A d \in Copy : d.e = e => Absent(Append(p, d), x)
  <2>1. Absent(q, x) /\ Absent(p, x) /\ x \notin Done(l)
    BY <1>7, Zenon DEF Copies
  <2>2. Absent(Tail(q), x) /\ e # x
    BY <1>1, <2>1, StillAbsent, Zenon
  <2> QED
    BY <1>1, <2>1, <2>2, StillAbsent, Zenon
<1>8. e \in Evs
  BY <1>1, Leaves, Zenon DEF Copy
<1>15. Parked'
  BY <1>1, <1>2, <1>3, ParkedJoins, Zenon
<1> HIDE DEF q, p, e
<1>9. /\ handled' = handled => Done(l)' = Done(l)
      /\ handled' = handled \cup {<<e, l>>} => Done(l)' = Done(l) \cup {e}
      /\ \A k \in Listeners \ {l} : Done(k)' = Done(k)
      /\ \A k \in Listeners : Twice(k)' = Twice(k)
  BY <1>2, <1>3, <1>8 DEF Done, Twice
<1>10. Single(queue'[l], parked'[l], Done(l)', Twice(l)')
  BY <1>1, <1>2, <1>6, <1>9, Zenon
<1>11. ASSUME NEW x \in Evs, ev[x] = "idle"
       PROVE  Absent(queue'[l], x) /\ Absent(parked'[l], x) /\ x \notin Done(l)'
  <2>1. Absent(parked'[l], x)
    BY <1>2, <1>7, <1>11, Zenon
  <2>2. x \notin Done(l)'
    BY <1>2, <1>7, <1>9, <1>11, Zenon
  <2> QED
    BY <1>1, <1>7, <1>11, <2>1, <2>2, Zenon
<1>12. Copies'
  BY <1>1, <1>3, <1>9, <1>10, <1>11, OneListener, Zenon
<1> QED
  BY <1>4, <1>12, <1>15, Zenon

\* An event comes back: its copy stays, and a retry copy may have been stored.
LEMMA SettleCopies ==
    ASSUME TypeOK, Lifecycle, Copies, Parked, NEW l \in Listeners, SettleFails(l)
    PROVE  TypeOK' /\ Copies' /\ Parked'
<1> DEFINE q == queue[l]
           p == parked[l]
           e == Head(q).e
<1>1. /\ UNCHANGED <<plan, made, enlisted, started, consuming, lazy, patterns, bound, starting,
                     queue, sub, svc, lock, ev, handled>>
      /\ ch[l] = "open" /\ q # <<>>
      /\ ch' = [ch EXCEPT ![l] = "dead"] \/ ch' = ch
  BY Zenon DEF SettleFails
<1>2. \/ parked' = parked /\ doubled' = doubled
      \/ /\ parked' = Park(l, Head(q)) /\ doubled' = doubled \cup {<<e, l>>}
         /\ \E res \in Handled(l, e) : MayRetry(l, Head(q), res)
  BY Zenon DEF SettleFails
<1>3. /\ q \in Seq(Copy) /\ p \in Seq(Copy)
      /\ parked' \in [Listeners -> Seq(Copy)]
      /\ \A k \in Listeners \ {l} : parked'[k] = parked[k]
      /\ \/ parked'[l] = p /\ doubled' = doubled
         \/ /\ doubled' = doubled \cup {<<e, l>>}
            /\ l \in Retrying /\ plan[e] \notin {"noise", "garbled"}
            /\ \E d \in Copy : d.e = e /\ parked'[l] = Append(p, d)
  <2>1. parked \in [Listeners -> Seq(Copy)]
    BY Zenon DEF TypeOK
  <2>2. q \in Seq(Copy) /\ p \in Seq(Copy)
    BY <1>1, ParkAdds, Zenon
  <2>3. CASE parked' = parked /\ doubled' = doubled
    BY <2>1, <2>2, <2>3, Zenon
  <2>4. ASSUME parked' = Park(l, Head(q)), doubled' = doubled \cup {<<e, l>>},
               NEW res \in Handled(l, e), MayRetry(l, Head(q), res)
        PROVE  /\ parked' \in [Listeners -> Seq(Copy)]
               /\ \A k \in Listeners \ {l} : parked'[k] = parked[k]
               /\ l \in Retrying /\ plan[e] \notin {"noise", "garbled"}
               /\ \E d \in Copy : d.e = e /\ parked'[l] = Append(p, d)
    <3>1. l \in Retrying /\ plan[e] \notin {"noise", "garbled"}
      BY <2>4, RetriesReadable, Zenon
    <3> QED
      BY <1>1, <2>2, <2>4, <3>1, ParkAdds, Zenon
  <2> QED
    BY <1>2, <2>2, <2>3, <2>4, Zenon
<1>4. TypeOK'
  <2>1. DOMAIN ch' = Listeners
    BY <1>1, Zenon DEF TypeOK
  <2> QED
    BY <1>1, <1>3, <2>1, Zenon DEF TypeOK, Free
<1>5. Single(q, p, Done(l), Twice(l))
  BY Zenon DEF Copies
<1>6. e \in Evs /\ \A x \in Evs : ev[x] = "idle" => Absent(q, x) /\ Absent(p, x) /\ x \notin Done(l)
  BY <1>1, <1>3, Leaves, Zenon DEF Copy, Copies
<1>7. \A x \in Evs : ev[x] = "idle" => e # x
  BY <1>1, <1>3, <1>6, StillAbsent, Zenon
<1>8. Parked'
  BY <1>1, <1>3, ParkedJoins, Zenon
<1> HIDE DEF q, p, e
<1>9. /\ doubled' = doubled => Twice(l)' = Twice(l)
      /\ doubled' = doubled \cup {<<e, l>>} => Twice(l)' = Twice(l) \cup {e}
      /\ \A k \in Listeners \ {l} : Twice(k)' = Twice(k)
      /\ \A k \in Listeners : Done(k)' = Done(k)
  BY <1>1, <1>3, <1>6 DEF Done, Twice
<1>10. Single(q, parked'[l], Done(l), Twice(l)')
  <2>1. CASE parked'[l] = p /\ doubled' = doubled
    BY <1>5, <1>9, <2>1, Zenon
  <2>2. ASSUME NEW d \in Copy, d.e = e, parked'[l] = Append(p, d), doubled' = doubled \cup {<<e, l>>}
        PROVE  Single(q, parked'[l], Done(l), Twice(l)')
    <3>1. Single(q, p, Done(l), Twice(l) \cup {e}) /\ d.e \in Twice(l) \cup {e}
      BY <1>5, <2>2, Exempted, Zenon
    <3>2. Single(q, Append(p, d), Done(l), Twice(l) \cup {e})
      BY <1>3, <3>1, Joins, Zenon
    <3> QED
      BY <1>9, <2>2, <3>2, Zenon
  <2> QED
    BY <1>3, <2>1, <2>2, Zenon
<1>11. ASSUME NEW x \in Evs, ev[x] = "idle"
       PROVE  Absent(q, x) /\ Absent(parked'[l], x) /\ x \notin Done(l)
  <2>1. ASSUME NEW d \in Copy, d.e = e PROVE Absent(Append(p, d), x)
    BY <1>3, <1>6, <1>7, <1>11, <2>1, StillAbsent, Zenon
  <2> QED
    BY <1>3, <1>6, <1>11, <2>1, Zenon
<1>12. Copies'
  BY <1>1, <1>3, <1>9, <1>10, <1>11, OneListener, Zenon DEF q
<1> QED
  BY <1>4, <1>8, <1>12, Zenon

\* The retry delay ends for one copy of one listener.
LEMMA RedeliverCopies ==
    ASSUME TypeOK, Copies, Parked, NEW l \in Listeners, Redeliver(l)
    PROVE  TypeOK' /\ Copies' /\ Parked'
<1> DEFINE q == queue[l]
           p == parked[l]
<1>1. queue \in [Listeners -> Seq(Copy)] /\ parked \in [Listeners -> Seq(Copy)]
  BY Zenon DEF TypeOK
<1>2. q \in Seq(Copy) /\ p \in Seq(Copy)
  BY <1>1
<1>3. /\ p # <<>> /\ parked' = [parked EXCEPT ![l] = Tail(@)]
      /\ queue' = Delivered(queue, Head(p), {l} \cap home)
      /\ UNCHANGED <<plan, made, enlisted, started, consuming, lazy, patterns, bound, starting,
                     ch, sub, svc, lock, ev, handled, doubled>>
  BY Zenon DEF Redeliver
<1>4. /\ Head(p) \in Copy /\ Tail(p) \in Seq(Copy)
      /\ \A i \in DOMAIN Tail(p) : i + 1 \in DOMAIN p /\ Tail(p)[i] = p[i + 1]
  BY <1>2, <1>3, Leaves, Zenon
<1>5. /\ queue' \in [Listeners -> Seq(Copy)]
      /\ \A k \in Listeners : queue'[k] = IF k \in {l} \cap home THEN Append(queue[k], Head(p))
                                          ELSE queue[k]
  <2> DEFINE d == Head(p)
             L == {l} \cap home
  <2>1. d \in Copy /\ queue' = Delivered(queue, d, L)
    BY <1>3, <1>4, Zenon
  <2> HIDE DEF d, L
  <2>2. queue' \in [Listeners -> Seq(Copy)]
    BY <1>1, <2>1, DeliveredJoins, Zenon
  <2>3. \A k \in Listeners : queue'[k] = IF k \in L THEN Append(queue[k], d) ELSE queue[k]
    BY <2>1, Zenon DEF Delivered
  <2> QED
    BY <2>2, <2>3, Zenon DEF d, L
<1>6. /\ parked' \in [Listeners -> Seq(Copy)] /\ parked'[l] = Tail(p)
      /\ \A k \in Listeners \ {l} : parked'[k] = parked[k]
  BY <1>1, <1>3, <1>4, Zenon
<1>7. TypeOK'
  BY <1>3, <1>5, <1>6, Zenon DEF TypeOK, Free
<1>8. \A k \in Listeners : Done(k)' = Done(k) /\ Twice(k)' = Twice(k)
  BY <1>3, Zenon DEF Done, Twice
<1>9. /\ \A k \in Listeners \ {l} : queue'[k] = queue[k]
      /\ queue'[l] = q \/ queue'[l] = Append(q, Head(p))
  BY <1>5, Zenon
<1>10. /\ Single(q, Tail(p), Done(l), Twice(l))
       /\ Single(Append(q, Head(p)), Tail(p), Done(l), Twice(l))
  <2>1. Single(q, p, Done(l), Twice(l))
    BY Zenon DEF Copies
  <2> QED
    BY <1>2, <1>3, <2>1, ParkedLeaves, Zenon
<1>11. Single(queue'[l], parked'[l], Done(l)', Twice(l)')
  BY <1>6, <1>8, <1>9, <1>10, Zenon
<1>12. ASSUME NEW x \in Evs, ev[x] = "idle"
       PROVE  Absent(queue'[l], x) /\ Absent(parked'[l], x) /\ x \notin Done(l)'
  <2>1. Absent(q, x) /\ Absent(p, x) /\ x \notin Done(l)
    BY <1>12, Zenon DEF Copies
  <2>2. Absent(Tail(p), x) /\ Head(p).e # x
    BY <1>2, <1>3, <2>1, StillAbsent, Zenon
  <2>3. Absent(Append(q, Head(p)), x)
    BY <1>2, <1>4, <2>1, <2>2, StillAbsent, Zenon
  <2> QED
    BY <1>6, <1>8, <1>9, <2>1, <2>2, <2>3, Zenon
<1>13. Copies'
  BY <1>3, <1>6, <1>8, <1>9, <1>11, <1>12, OneListener, Zenon
<1>14. ASSUME NEW k \in Listeners, NEW i \in DOMAIN parked'[k]
       PROVE  k \notin Private /\ plan[parked'[k][i].e] \notin {"noise", "garbled"}
  <2>1. \E j \in DOMAIN parked[k] : parked'[k][i] = parked[k][j]
    BY <1>4, <1>6, <1>14, Zenon
  <2> QED
    BY <2>1, Zenon DEF Parked
<1>15. Parked'
  BY <1>3, <1>14, Zenon DEF Parked
<1> QED
  BY <1>7, <1>13, <1>15, Zenon

\* Nothing else is parked, and the listeners made later are a service's own.
LEMMA OtherParked ==
    ASSUME Parked, UNCHANGED <<plan, parked>>, made' \subseteq made \cup Owned
    PROVE  Parked'
<1>1. made' \cap Private \cap Retrying = {}
  BY EventsAssumption, Zenon DEF Parked
<1> QED
  BY <1>1, Zenon DEF Parked

\* The connection, the channels and the restore lock; the end of a Start, told
\* by whoever gives the lock back or gives up waiting for it.
LEMMA RestoreStarters ==
    ASSUME TypeOK, Lifecycle, Starters, Known,
           \/ \E l \in Listeners : \/ ChannelDies(l) \/ AttachGivesUp(l)
                                   \/ \E who \in {"start", "sup", "recover"} : TakesLock(who, l)
           \/ Restored \/ RestoreFails \/ ConnLost \/ Reconnects \/ Announces
    PROVE  Starters' /\ Known'
<1>1. UNCHANGED <<made, lazy, raced>>
  BY Zenon DEF ChannelDies, AttachGivesUp, TakesLock, Restored, RestoreFails, ConnLost, Reconnects,
     Announces
<1>2. CASE \/ \E l \in Listeners : \/ ChannelDies(l)
                                   \/ \E who \in {"start", "sup", "recover"} : TakesLock(who, l)
           \/ ConnLost \/ Reconnects \/ Announces
  <2>1. UNCHANGED <<sub, started, starting, svc, stopped, consuming>>
    BY <1>2, Zenon DEF ChannelDies, TakesLock, ConnLost, Reconnects, Announces
  <2> QED
    BY <1>1, <2>1, QuietStarters, Zenon
<1>3. ASSUME NEW l \in Listeners, AttachGivesUp(l) PROVE Starters' /\ Known'
  <2>1. starting[l] # "nobody" /\ Ends(l, FALSE)
    BY <1>3, Zenon DEF AttachGivesUp
  <2> QED
    BY <1>1, <2>1, EndsStarters, Zenon
<1>4. CASE Restored \/ RestoreFails
  <2>1. \/ UNCHANGED <<sub, started, starting, svc, stopped, consuming>>
        \/ lock # Free /\ lock.who = "start" /\ \E ok \in BOOLEAN : Ends(lock.l, ok)
    BY <1>4, Zenon DEF Restored, RestoreFails
  <2>2. lock # Free /\ lock.who = "start" => lock.l \in Listeners /\ starting[lock.l] # "nobody"
    BY Zenon DEF TypeOK, Lifecycle
  <2> QED
    BY <1>1, <2>1, <2>2, QuietStarters, EndsStarters, Zenon
<1> QED
  BY <1>2, <1>3, <1>4, Zenon

\* Publishing and handling touch no listener, binding or Start.
LEMMA EventSteps ==
    ASSUME EInv,
           \/ \E e \in Evs : PublishEvent(e)
           \/ \E l \in Listeners : Handle(l) \/ SettleFails(l) \/ Redeliver(l)
    PROVE  EInv'
<1>1. /\ UNCHANGED <<plan, made, patterns, lazy, raced, sub, started, starting, svc, stopped,
                     enlisted, consuming, lock, bound>>
      /\ todo' = todo
      /\ UNCHANGED ch \/ \E l \in Listeners : ch' = [ch EXCEPT ![l] = "dead"]
  BY Zenon DEF PublishEvent, Publish, Repair, Handle, SettleFails, Redeliver
<1>0. \A l \in Listeners : ch'[l] = "open" => ch[l] = "open"
  BY <1>1 DEF EInv, TypeOK
<1>2. TypeOK' /\ Copies' /\ Parked'
  <2>1. ASSUME NEW e \in Evs, PublishEvent(e) PROVE TypeOK' /\ Copies' /\ Parked'
    <3>1. UNCHANGED parked
      BY <2>1, Zenon DEF PublishEvent, Publish, Repair
    <3> QED
      BY <1>1, <2>1, <3>1, PublishCopies, OtherParked, Zenon DEF EInv
  <2> QED
    BY <2>1, HandleCopies, SettleCopies, RedeliverCopies, Zenon DEF EInv
<1>3. Lifecycle'
  BY <1>0, <1>1, QuietLifecycle, Zenon DEF EInv, Lifecycle
<1>4. ReadOrComing' /\ SubscribedIsBound'
  BY <1>0, <1>1, QuietBindings, Zenon DEF EInv
<1>5. Starters' /\ Known'
  BY <1>1, QuietStarters, Zenon DEF EInv
<1> QED
  BY <1>2, <1>3, <1>4, <1>5, Zenon DEF EInv

\* Subscriptions, Starts, the service, restores, the connection and its channels.
LEMMA ListenerSteps ==
    ASSUME EInv,
           \/ \E s \in Subs : Subscribe(s) \/ Bind(s) \/ SubscribeStarts(s)
           \/ ServiceStart \/ ServiceStartsEvents \/ ServiceStarted
           \/ \E l \in Listeners : \/ GetEvents(l) \/ StartListener(l) \/ AttachGivesUp(l)
                                   \/ \E who \in {"start", "sup", "recover"} : TakesLock(who, l)
                                   \/ ChannelDies(l)
           \/ Restored \/ RestoreFails \/ ConnLost \/ Reconnects \/ Announces
    PROVE  EInv'
<1>0. TypeOK /\ Lifecycle /\ ReadOrComing /\ SubscribedIsBound /\ Starters /\ Known /\ Copies /\ Parked
  BY Zenon DEF EInv
<1>1. Copies'
  BY <1>0, OtherCopies, Zenon
<1>2. Parked'
  <2>1. UNCHANGED <<plan, parked>> /\ made' \subseteq made \cup Owned
    BY Zenon DEF Subscribe, Bind, BindWith, SubscribeStarts, ServiceStart, ServiceStartsEvents,
       ServiceStarted, GetEvents, StartListener, AttachGivesUp, TakesLock, ChannelDies, Restored,
       RestoreFails, ConnLost, Reconnects, Announces
  <2> QED
    BY <1>0, <2>1, OtherParked, Zenon
<1>3. TypeOK'
  BY <1>0, ListenerTypes, StartTypes, Zenon
<1>4. Lifecycle'
  BY <1>0, OtherLifecycle, StartsLifecycle, TakesLifecycle, RestoreLifecycle, Zenon
<1>5. ReadOrComing' /\ SubscribedIsBound'
  BY <1>0, OtherBindings, SubscribeBindings, BindBindings, RestoreBindings, Zenon
<1>6. Starters' /\ Known'
  BY <1>0, SubscribeStarters, StartsStarters, ServiceKnown, GetStarters, RestoreStarters, Zenon
<1> QED
  BY <1>1, <1>2, <1>3, <1>4, <1>5, <1>6, Zenon DEF EInv

\* No step of a subscription, a Start, a restore, the connection, a publisher or
\* a handler breaks the invariant.
LEMMA NextEInv == ASSUME EInv, [Next]_vars PROVE EInv'
<1>1. CASE UNCHANGED vars
  <2>1. UNCHANGED <<plan, made, patterns, lazy, raced, sub, started, starting, svc, stopped,
                    enlisted, consuming, lock, ch, bound, todo, queue, parked, handled, doubled, ev>>
    BY <1>1, Zenon DEF vars
  <2>2. TypeOK' /\ Copies' /\ Parked'
    BY <2>1, QuietCopies, OtherParked, Zenon DEF EInv, TypeOK, Free
  <2>3. Lifecycle'
    BY <2>1, QuietLifecycle, Zenon DEF EInv, Lifecycle
  <2>4. ReadOrComing' /\ SubscribedIsBound'
    BY <2>1, QuietBindings, Zenon DEF EInv
  <2>5. Starters' /\ Known'
    BY <2>1, QuietStarters, Zenon DEF EInv
  <2> QED
    BY <2>2, <2>3, <2>4, <2>5, Zenon DEF EInv
<1>2. CASE Next
  BY <1>2, EventSteps, ListenerSteps, Zenon DEF Next
<1> QED
  BY <1>1, <1>2, Zenon

\* The invariant holds of every behaviour.
LEMMA Invariance == Spec => []EInv
BY InitEInv, NextEInv, PTL DEF Spec

-----------------------------------------------------------------------------
\* Whatever the order of subscriptions, starts, reconnections and rebuilds, and
\* however many there are: the queue of a live channel is bound with every pattern
\* recorded, or its bind is on the way (eventlistener.go:197-222, consumer.go:427-429).
THEOREM BindingsFollow == Spec => []SubscribedIsBound
<1>1. EInv => SubscribedIsBound
  BY Zenon DEF EInv
<1> QED
  BY <1>1, Invariance, PTL

\* For any events, listeners and retries: a listener never gets an event again that
\* it has acknowledged, nothing unreadable is retried, and no retry waits for a
\* queue that goes with its connection (eventlistener.go:115-119, 249-252).
THEOREM RetriesAreEarned == Spec => []RetriesEarned
<1>1. EInv => RetriesEarned
  <2> SUFFICES ASSUME EInv, NEW l \in Listeners
               PROVE  /\ \A i \in DOMAIN queue[l] : <<queue[l][i].e, l>> \notin handled \ doubled
                      /\ \A i \in DOMAIN parked[l] :
                            /\ <<parked[l][i].e, l>> \notin handled \ doubled
                            /\ plan[parked[l][i].e] \notin {"noise", "garbled"}
                            /\ l \notin Private
    BY Zenon DEF RetriesEarned
  <2>1. queue[l] \in Seq(Copy) /\ parked[l] \in Seq(Copy)
    BY DEF EInv, TypeOK
  <2>2. /\ \A i \in DOMAIN queue[l] : queue[l][i].e \in Evs
        /\ \A i \in DOMAIN parked[l] : parked[l][i].e \in Evs
    <3>1. ASSUME NEW q \in Seq(Copy), NEW i \in DOMAIN q PROVE q[i].e \in Evs
      <4>1. q[i] \in Copy
        BY <3>1
      <4> QED
        BY <4>1 DEF Copy
    <3> QED
      BY <2>1, <3>1, Zenon
  <2>3. Single(queue[l], parked[l], Done(l), Twice(l))
    BY Zenon DEF EInv, Copies
  <2>4. \A e \in Evs : e \notin Done(l) \/ e \in Twice(l) => <<e, l>> \notin handled \ doubled
    BY Zenon DEF Done, Twice
  <2>5. \A i \in DOMAIN parked[l] : l \notin Private /\ plan[parked[l][i].e] \notin {"noise", "garbled"}
    BY Zenon DEF EInv, Parked
  <2> QED
    BY <2>2, <2>3, <2>4, <2>5, Zenon DEF Single
<1> QED
  BY <1>1, Invariance, PTL

\* However Service.Start, Service.Events, subscriptions and failing starts
\* interleave: on a started service, a subscription that reported success is
\* served, unless a subscriber of that listener was told of a failed start; the two
\* listeners left out are those SubscriptionServed names (service.go:316-402).
THEOREM SubscriptionsServed == Spec => []SubscriptionServed
<1>1. EInv => SubscriptionServed
  <2> SUFFICES ASSUME EInv, NEW s \in Subs, svc.pc = "started",
                      On[s] \in Owned \ (raced \cup stopped), sub[s] = "ok"
               PROVE  (consuming[On[s]] /\ started[On[s]]) \/ Told(On[s])
    BY Zenon DEF SubscriptionServed, Told
  <2>1. On[s] \in made /\ On[s] \in Listeners
    BY Zenon DEF EInv, Starters, TypeOK
  <2>2. On[s] \in svc.seen => started[On[s]]
    BY Zenon DEF EInv, Known
  <2>3. On[s] \notin svc.seen => lazy[On[s]]
    BY <2>1, Zenon DEF EInv, Known
  <2>4. lazy[On[s]] => started[On[s]] \/ Told(On[s])
    BY <2>1, Zenon DEF EInv, Known
  <2>5. consuming[On[s]] <=> started[On[s]]
    BY <2>1, Zenon DEF EInv, Starters
  <2> QED
    BY <2>2, <2>3, <2>4, <2>5, Zenon
<1> QED
  BY <1>1, Invariance, PTL
=============================================================================
