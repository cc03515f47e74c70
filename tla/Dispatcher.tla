----------------------------- MODULE Dispatcher -----------------------------
(***************************************************************************)
(* Unary calls (dispatcher.go): callers that register, publish and wait,   *)
(* the reply reader, and everything that takes their channel or their      *)
(* reply queue away: lost connections, a reply consumer that dies alone,   *)
(* repairs, and the bus closing. The session is kept to what the           *)
(* dispatcher sees of it; Session has the rest.                            *)
(***************************************************************************)
EXTENDS Naturals

CONSTANTS
    Callers,      \* goroutines in dispatcher.call, one call each
    MaxFaults,    \* bound: deaths and failures
    Scenes        \* the combinations of the choices below that are explored

ASSUME DispatcherAssumption ==
    /\ MaxFaults \in Nat
    /\ {"free", "sup", "recover"} \cap Callers = {}  \* who else may hold restoreMu
    /\ Scenes \subseteq [faults : 0..MaxFaults,
                         closing : BOOLEAN,  \* the bus may be closed
                         late : BOOLEAN]     \* a call may register while a live channel is
                                             \* being taken down, or read one before its
                                             \* connection is announced

\* The goroutines that run failPending.
Tellers == {"sup", "recover", "close"}
Steps == {"off", "swap", "resolve", "clear", "shut", "dial", "restore", "announce", "begin",
          "conn", "gone"}

VARIABLES
    up,        \* the current connection is open
    ready,     \* session.isReady
    done,      \* session.doneErr is set
    mu,        \* the holder of restoreMu
    closed,    \* dispatcher.closed
    pub,       \* dispatcher.pub, 0 for nil
    rq,        \* dispatcher.replyQueue and consumeCh, 0 for none
    replyGen,  \* dispatcher.replyGen
    pubGen,    \* publishing channels made
    openPubs,  \* publishing channels that are open
    live,      \* reply queues that exist and are consumed
    ended,     \* reply consumers that ended and have not decided on a recovery
    recs,      \* recoverReplies goroutines
    step,      \* where each teller is
    taken,     \* the calls it has taken out of the table and not yet resolved
    old,       \* the channel and queue it is to close
    calls,     \* dispatcher.calls: the attempt registered for each call
    outcome,   \* pendingCall.done of each call's current attempt
    pc,        \* each caller
    attempt,   \* the attempt it is at
    got,       \* the channel and queue it was handed
    stored,    \* the attempts whose request the broker has
    answers,   \* replies on their way, with the queue they are in
    missed,    \* calls whose reply found no registration while they wanted it
    verdict,   \* what each call returned
    scene,     \* the scene being played
    faults

sessVars == <<up, ready, done, mu>>
dispVars == <<closed, pub, rq, replyGen>>
chanVars == <<pubGen, openPubs, live, ended, recs>>
tellVars == <<step, taken, old>>
callVars == <<calls, outcome>>
pcVars   == <<pc, attempt, got, verdict>>
msgVars  == <<stored, answers, missed>>
budget   == <<scene, faults>>
vars == <<sessVars, dispVars, chanVars, tellVars, callVars, pcVars, msgVars, budget>>

None == [pub |-> 0, rq |-> 0]
Handed == [pub : Nat, rq : Nat]

TypeOK ==
    /\ up \in BOOLEAN /\ ready \in BOOLEAN /\ done \in BOOLEAN /\ closed \in BOOLEAN
    /\ mu \in {"free", "sup", "recover"} \cup Callers
    /\ pub \in Nat /\ rq \in Nat /\ replyGen \in Nat /\ pubGen \in Nat
    /\ openPubs \subseteq Nat /\ live \subseteq Nat /\ ended \subseteq Nat /\ recs \subseteq Nat
    /\ step \in [Tellers -> Steps]
    /\ taken \in [Tellers -> SUBSET (Callers \X Nat)]
    /\ old \in [Tellers -> Handed]
    /\ calls \in [Callers -> Nat]
    /\ outcome \in [Callers -> {"none", "reply", "disconnected", "closed"}]
    /\ pc \in [Callers -> {"idle", "channel", "read", "lock", "pub", "all", "register", "publish",
                           "wait", "over"}]
    /\ attempt \in [Callers -> Nat] /\ got \in [Callers -> Handed]
    /\ stored \subseteq Callers \X Nat /\ answers \subseteq Callers \X Nat
    /\ missed \subseteq Callers
    /\ verdict \in [Callers -> {"none", "reply", "disconnected", "closed", "timeout", "failed"}]
    /\ faults \in 0..MaxFaults /\ scene \in Scenes

\* The bus is connected and the dispatcher attached.
Init ==
    /\ up = TRUE /\ ready = TRUE /\ done = FALSE /\ mu = "free" /\ closed = FALSE
    /\ pub = 1 /\ rq = 1 /\ replyGen = 1 /\ pubGen = 1
    /\ openPubs = {1} /\ live = {1} /\ ended = {} /\ recs = {}
    /\ step = [o \in Tellers |-> "off"] /\ taken = [o \in Tellers |-> {}]
    /\ old = [o \in Tellers |-> None]
    /\ calls = [c \in Callers |-> 0] /\ outcome = [c \in Callers |-> "none"]
    /\ pc = [c \in Callers |-> "idle"] /\ attempt = [c \in Callers |-> 0]
    /\ got = [c \in Callers |-> None] /\ stored = {} /\ answers = {} /\ missed = {}
    /\ verdict = [c \in Callers |-> "none"] /\ faults = 0 /\ scene \in Scenes

Fault == faults < scene.faults /\ faults' = faults + 1 /\ UNCHANGED scene
IsReady == ready /\ ~done

-----------------------------------------------------------------------------
\* Deaths.

\* Everything on the connection goes with it, replies included.
Drops ==
    /\ up' = FALSE /\ openPubs' = {} /\ live' = {} /\ answers' = {}
    /\ ended' = ended \cup live

ConnDies ==
    /\ up /\ Fault /\ Drops
    /\ UNCHANGED <<ready, done, mu, dispVars, pubGen, recs, tellVars, callVars, pcVars, stored,
                   missed>>

PubDies ==
    /\ Fault /\ \E p \in openPubs : openPubs' = openPubs \ {p}
    /\ UNCHANGED <<sessVars, dispVars, pubGen, live, ended, recs, tellVars, callVars, pcVars,
                   msgVars>>

\* The reply channel closes, or the broker ends its consumer: an exclusive
\* queue goes with its consumer.
ReplyConsumerDies ==
    /\ ready /\ Fault
    /\ \E g \in live : /\ live' = live \ {g} /\ ended' = ended \cup {g}
                       /\ answers' = {a \in answers : a[2] # g}
    /\ UNCHANGED <<sessVars, dispVars, pubGen, openPubs, recs, tellVars, callVars, pcVars, stored,
                   missed>>

-----------------------------------------------------------------------------
\* failPending, connectionLost and restoreTopology.

Goes(o, s) == step' = [step EXCEPT ![o] = s]

\* pendingCall.resolve: the first outcome wins; the pendingCall of an earlier
\* attempt is read by nobody.
Resolves(c, a, r) ==
    outcome' = IF a = attempt[c] /\ outcome[c] = "none" THEN [outcome EXCEPT ![c] = r] ELSE outcome

\* failPending takes the whole table ...
Swaps(o) ==
    /\ step[o] = "swap" /\ Goes(o, "resolve")
    /\ taken' = [taken EXCEPT ![o] = {<<c, calls[c]>> : c \in {k \in Callers : calls[k] # 0}}]
    /\ calls' = [c \in Callers |-> 0]
    /\ UNCHANGED <<sessVars, dispVars, chanVars, old, outcome, pcVars, msgVars, budget>>

\* ... and resolves each call.
ResolvesTaken(o) ==
    /\ step[o] = "resolve"
    /\ \E x \in taken[o] :
          /\ Resolves(x[1], x[2], IF o = "close" THEN "closed" ELSE "disconnected")
          /\ taken' = [taken EXCEPT ![o] = @ \ {x}]
    /\ UNCHANGED <<sessVars, dispVars, chanVars, step, old, calls, pcVars, msgVars, budget>>

ResolvedAll(o) ==
    /\ step[o] = "resolve" /\ taken[o] = {}
    /\ Goes(o, IF o = "close" THEN "shut" ELSE "clear")
    /\ UNCHANGED <<sessVars, dispVars, chanVars, taken, old, callVars, pcVars, msgVars, budget>>

\* connectionLost forgets the channels.
Clears(o) ==
    /\ step[o] = "clear" /\ Goes(o, IF o = "sup" THEN "dial" ELSE "shut")
    /\ pub' = 0 /\ rq' = 0
    /\ UNCHANGED <<sessVars, closed, replyGen, chanVars, taken, old, callVars, pcVars, msgVars,
                   budget>>

\* The reply channel and the publishing channel are closed.
Shuts(o) ==
    /\ step[o] = "shut" /\ Goes(o, IF o = "recover" THEN "restore" ELSE "conn")
    /\ openPubs' = openPubs \ {old[o].pub} /\ live' = live \ {old[o].rq}
    /\ ended' = ended \cup ({old[o].rq} \cap live)
    /\ answers' = {a \in answers : a[2] # old[o].rq}
    /\ UNCHANGED <<sessVars, dispVars, pubGen, recs, taken, old, callVars, pcVars, stored, missed,
                   budget>>

\* restoreTopology succeeds: a new queue and a new publishing channel in place of
\* the one dead names. A closed dispatcher has nothing to restore.
Restores(dead) ==
    /\ up
    /\ IF closed THEN openPubs' = openPubs \ {dead} /\ UNCHANGED <<dispVars, pubGen, live>>
       ELSE /\ replyGen' = replyGen + 1 /\ rq' = replyGen + 1 /\ live' = live \cup {replyGen + 1}
            /\ pubGen' = pubGen + 1 /\ pub' = pubGen + 1 /\ UNCHANGED closed
            /\ openPubs' = (openPubs \ {dead}) \cup {pubGen + 1}

\* Or it fails: on a dead connection, or for a reason of the broker's.
FailsToRestore ==
    /\ IF up THEN Fault ELSE UNCHANGED budget
    /\ UNCHANGED <<dispVars, pubGen>>

-----------------------------------------------------------------------------
\* The supervisor, as seen from the dispatcher.

\* A mutant: lost forgets the channels and fails nobody.
SupFailsNobody ==
    /\ step["sup"] = "off" /\ ~up /\ step["close"] # "gone" /\ ready' = FALSE
    /\ Goes("sup", IF closed THEN "dial" ELSE "clear")
    /\ UNCHANGED <<up, done, mu, dispVars, chanVars, taken, old, callVars, pcVars, msgVars, budget>>

\* lost, unless the dispatcher has unregistered.
SupNotices ==
    /\ step["sup"] = "off" /\ ~up /\ step["close"] # "gone" /\ ready' = FALSE
    /\ Goes("sup", IF closed THEN "dial" ELSE "swap")
    /\ UNCHANGED <<up, done, mu, dispVars, chanVars, taken, old, callVars, pcVars, msgVars, budget>>

SupReconnects ==
    /\ step["sup"] = "dial" /\ step["close"] # "gone" /\ mu = "free" /\ mu' = "sup" /\ up' = TRUE
    /\ Goes("sup", "restore")
    /\ UNCHANGED <<ready, done, dispVars, chanVars, taken, old, callVars, pcVars, msgVars, budget>>

\* A connection that could not be restored is dropped.
SupRestores ==
    /\ step["sup"] = "restore" /\ mu' = "free"
    /\ \/ Restores(0) /\ Goes("sup", "announce") /\ UNCHANGED <<up, answers, ended, budget>>
       \/ FailsToRestore /\ Drops /\ Goes("sup", "dial")
    /\ UNCHANGED <<ready, done, recs, taken, old, callVars, pcVars, stored, missed>>

\* The socket may have died meanwhile, or a later component failed to restore.
SupAnnounces ==
    /\ step["sup"] = "announce"
    /\ \/ /\ up /\ Goes("sup", "off") /\ ready' = (ready \/ ~done)
          /\ UNCHANGED <<up, openPubs, live, answers, ended, budget>>
       \/ /\ IF up THEN Fault ELSE UNCHANGED budget
          /\ Drops /\ Goes("sup", "dial") /\ UNCHANGED ready
    /\ UNCHANGED <<done, mu, dispVars, pubGen, recs, taken, old, callVars, pcVars, stored, missed>>

-----------------------------------------------------------------------------
\* The reply consumer ends; recoverReplies.

ReceiveEnds(g) ==
    /\ g \in ended /\ ended' = ended \ {g}
    /\ recs' = IF ~closed /\ replyGen = g /\ rq # 0 /\ IsReady THEN recs \cup {g} ELSE recs
    /\ UNCHANGED <<sessVars, dispVars, pubGen, openPubs, live, tellVars, callVars, pcVars, msgVars,
                   budget>>

\* tryRecoverReplies: not if closed, rebuilt, or a reconnection owns it.
RecoverLocks(g) ==
    /\ g \in recs /\ mu = "free"
    /\ IF closed \/ replyGen # g \/ ~IsReady
       THEN recs' = recs \ {g} /\ UNCHANGED <<mu, step, old>>
       ELSE /\ mu' = "recover" /\ UNCHANGED recs
            /\ old' = [old EXCEPT !["recover"] = [pub |-> pub, rq |-> rq]]
            /\ Goes("recover", IF rq # 0 THEN "swap" ELSE "restore")
    /\ UNCHANGED <<up, ready, done, dispVars, pubGen, openPubs, live, ended, taken, callVars,
                   pcVars, msgVars, budget>>

\* A mutant: a failed attempt returns with restoreMu held.
RecoverKeepsLock ==
    /\ step["recover"] = "restore" /\ Goes("recover", "off")
    /\ \/ Restores(0) /\ recs' = recs \ {replyGen} /\ mu' = "free" /\ UNCHANGED budget
       \/ FailsToRestore /\ UNCHANGED <<openPubs, live, recs, mu>>
    /\ UNCHANGED <<up, ready, done, ended, taken, old, callVars, pcVars, msgVars>>

\* A failed attempt is made again, unless the session ends first.
RecoverRestores ==
    /\ step["recover"] = "restore" /\ Goes("recover", "off") /\ mu' = "free"
    /\ \/ Restores(0) /\ recs' = recs \ {replyGen} /\ UNCHANGED budget
       \/ /\ FailsToRestore /\ UNCHANGED <<openPubs, live>>
          /\ recs' \in {recs} \cup (IF done THEN {recs \ {replyGen}} ELSE {})
    /\ UNCHANGED <<up, ready, done, ended, taken, old, callVars, pcVars, msgVars>>

-----------------------------------------------------------------------------
\* dispatcher.channel and repair.

Goto(c, l) == pc' = [pc EXCEPT ![c] = l]
Returns(c, v) == Goto(c, "over") /\ verdict' = [verdict EXCEPT ![c] = v]

CallStarts(c) ==
    /\ pc[c] = "idle" /\ Goto(c, "channel")
    /\ UNCHANGED <<sessVars, dispVars, chanVars, tellVars, callVars, attempt, got, verdict,
                   msgVars, budget>>

Usable == pub # 0 /\ pub \in openPubs /\ rq # 0

WhenReady(c) ==
    /\ pc[c] = "channel"
    /\ IF done THEN Returns(c, "closed") ELSE ready /\ Goto(c, "read") /\ UNCHANGED verdict
    /\ UNCHANGED <<sessVars, dispVars, chanVars, tellVars, callVars, attempt, got, msgVars, budget>>

\* A caller past whenReady is handed a channel and a queue, or repairs them.
Channel(c) ==
    /\ pc[c] = "read" /\ (scene.late \/ step["sup"] # "announce")
    /\ \/ closed /\ Returns(c, "closed") /\ UNCHANGED got
       \/ /\ ~closed /\ Usable /\ Goto(c, "register")
          /\ got' = [got EXCEPT ![c] = [pub |-> pub, rq |-> rq]] /\ UNCHANGED verdict
       \/ ~closed /\ ~Usable /\ Goto(c, "lock") /\ UNCHANGED <<got, verdict>>
    /\ UNCHANGED <<sessVars, dispVars, chanVars, tellVars, callVars, attempt, msgVars, budget>>

\* A mutant: repair does not take restoreMu.
RepairsUnlocked(c) ==
    /\ pc[c] = "lock"
    /\ \/ (Usable \/ ~IsReady \/ ~up) /\ Goto(c, "channel") /\ UNCHANGED got
       \/ /\ ~Usable /\ IsReady /\ up
          /\ Goto(c, IF rq = 0 THEN "all" ELSE "pub")
          /\ got' = [got EXCEPT ![c] = [pub |-> pub, rq |-> rq]]
    /\ UNCHANGED <<sessVars, dispVars, chanVars, tellVars, callVars, attempt, verdict, msgVars,
                   budget>>

\* repair looks at what is missing: nothing, everything, or the channel alone.
RepairLocks(c) ==
    /\ pc[c] = "lock" /\ mu = "free"
    /\ \/ (Usable \/ ~IsReady \/ ~up) /\ Goto(c, "channel") /\ UNCHANGED <<mu, got>>
       \/ /\ ~Usable /\ IsReady /\ up /\ mu' = c
          /\ Goto(c, IF rq = 0 THEN "all" ELSE "pub")
          /\ got' = [got EXCEPT ![c] = [pub |-> pub, rq |-> rq]]
    /\ UNCHANGED <<up, ready, done, dispVars, chanVars, tellVars, callVars, attempt, verdict,
                   msgVars, budget>>

\* A repair that fails on a dead connection waits for the next one.
RepairFails(c) ==
    IF up THEN Fault /\ Returns(c, "failed")
    ELSE Goto(c, "channel") /\ UNCHANGED <<verdict, budget>>

RepairsAll(c) ==
    /\ pc[c] = "all" /\ mu' = "free"
    /\ \/ Restores(got[c].pub) /\ Goto(c, "channel") /\ UNCHANGED <<verdict, budget>>
       \/ /\ RepairFails(c) /\ openPubs' = openPubs \ {got[c].pub}
          /\ UNCHANGED <<dispVars, pubGen, live>>
    /\ UNCHANGED <<up, ready, done, ended, recs, tellVars, callVars, attempt, got, msgVars>>

RepairsPub(c) ==
    /\ pc[c] = "pub" /\ mu' = "free"
    /\ \/ /\ up /\ pubGen' = pubGen + 1 /\ pub' = pubGen + 1
          /\ openPubs' = (openPubs \ {got[c].pub}) \cup {pubGen + 1}
          /\ Goto(c, "channel") /\ UNCHANGED <<verdict, budget>>
       \/ RepairFails(c) /\ UNCHANGED <<pub, pubGen, openPubs>>
    /\ UNCHANGED <<up, ready, done, closed, rq, replyGen, live, ended, recs, tellVars, callVars,
                   attempt, got, msgVars>>

-----------------------------------------------------------------------------
\* dispatcher.call: register, publish, wait.

\* A mutant: registered once, for all attempts.
RegistersOnce(c) ==
    /\ attempt' = [attempt EXCEPT ![c] = @ + 1]
    /\ outcome' = [outcome EXCEPT ![c] = "none"]
    /\ calls' = IF attempt[c] = 0 THEN [calls EXCEPT ![c] = 1] ELSE calls

\* A mutant: one pendingCall for all attempts of a call.
RegistersSameCall(c) ==
    /\ attempt' = [attempt EXCEPT ![c] = @ + 1] /\ UNCHANGED outcome
    /\ calls' = [calls EXCEPT ![c] = attempt[c] + 1]

\* Registered before the publish, under a fresh pendingCall for each attempt.
Registers(c) ==
    /\ attempt' = [attempt EXCEPT ![c] = @ + 1]
    /\ outcome' = [outcome EXCEPT ![c] = "none"]
    /\ calls' = [calls EXCEPT ![c] = attempt[c] + 1]

Register(c) ==
    /\ scene.late \/ \A o \in {"recover", "close"} : step[o] \notin {"resolve", "clear", "shut"}
    /\ pc[c] = "register" /\ Goto(c, "publish") /\ Registers(c)
    /\ UNCHANGED <<sessVars, dispVars, chanVars, tellVars, got, verdict, msgVars, budget>>

\* A mutant: nothing is unregistered.
ForgetsNothing(c) == UNCHANGED calls

Forget(c) == calls' = [calls EXCEPT ![c] = IF @ = attempt[c] THEN 0 ELSE @]

Sent(c) == <<c, attempt[c]>> \in stored

RequestStored(c) ==
    /\ pc[c] = "publish" /\ ~Sent(c) /\ got[c].pub \in openPubs
    /\ stored' = stored \cup {<<c, attempt[c]>>}
    /\ UNCHANGED <<sessVars, dispVars, chanVars, tellVars, callVars, pcVars, answers, missed,
                   budget>>

PublishConfirmed(c) ==
    /\ pc[c] = "publish" /\ Sent(c) /\ Goto(c, "wait")
    /\ UNCHANGED <<sessVars, dispVars, chanVars, tellVars, callVars, attempt, got, verdict,
                   msgVars, budget>>

\* A mutant: an unconfirmed request is published again.
RepublishesUnconfirmed(c) ==
    /\ pc[c] = "publish" /\ got[c].pub \notin openPubs
    /\ Forget(c) /\ Goto(c, "channel")
    /\ UNCHANGED <<sessVars, dispVars, chanVars, tellVars, outcome, attempt, got, verdict,
                   msgVars, budget>>

\* errChannelGone is a definite failure (PubChannel, DefiniteFailuresUnsent):
\* the request was never sent, and is published again.
PublishGone(c) ==
    /\ pc[c] = "publish" /\ ~Sent(c) /\ got[c].pub \notin openPubs
    /\ Forget(c) /\ Goto(c, "channel")
    /\ UNCHANGED <<sessVars, dispVars, chanVars, tellVars, outcome, attempt, got, verdict,
                   msgVars, budget>>

\* Returned or refused by the broker, or unconfirmed when the channel closed.
PublishFails(c) ==
    /\ pc[c] = "publish" /\ Forget(c) /\ Returns(c, "failed")
    /\ IF got[c].pub \in openPubs THEN ~Sent(c) /\ Fault ELSE UNCHANGED budget
    /\ UNCHANGED <<sessVars, dispVars, chanVars, tellVars, outcome, attempt, got, msgVars>>

CallReturns(c) ==
    /\ pc[c] = "wait" /\ outcome[c] # "none" /\ Returns(c, outcome[c])
    /\ UNCHANGED <<sessVars, dispVars, chanVars, tellVars, callVars, attempt, got, msgVars, budget>>

\* The deadline, which every wait but the one for restoreMu watches.
TimesOut(c) ==
    /\ pc[c] \in {"channel", "publish", "wait"} /\ Forget(c) /\ Returns(c, "timeout")
    /\ UNCHANGED <<sessVars, dispVars, chanVars, tellVars, outcome, attempt, got, msgVars, budget>>

-----------------------------------------------------------------------------
\* Replies.

\* The service answers, perhaps more than once; a queue that is gone loses it.
ServiceAnswers(c) ==
    /\ Sent(c) /\ got[c].rq \in live /\ answers' = answers \cup {<<c, got[c].rq>>}
    /\ UNCHANGED <<sessVars, dispVars, chanVars, tellVars, callVars, pcVars, stored, missed,
                   budget>>

InHand(c) == \E o \in Tellers : <<c, attempt[c]>> \in taken[o]
Wants(c) == pc[c] \in {"publish", "wait"} /\ outcome[c] = "none" /\ ~InHand(c)

Route(c, g) ==
    /\ <<c, g>> \in answers /\ answers' = answers \ {<<c, g>>}
    /\ IF calls[c] # 0
       THEN /\ calls' = [calls EXCEPT ![c] = 0] /\ Resolves(c, calls[c], "reply")
            /\ UNCHANGED missed
       ELSE missed' = (IF Wants(c) THEN missed \cup {c} ELSE missed) /\ UNCHANGED callVars
    /\ UNCHANGED <<sessVars, dispVars, chanVars, tellVars, pcVars, stored, budget>>

-----------------------------------------------------------------------------
\* Bus.Close: the session is finished, the dispatcher closed, the connection
\* dropped.

CloseBegins ==
    /\ scene.closing /\ step["close"] = "off" /\ Goes("close", "begin") /\ done' = TRUE
    /\ UNCHANGED <<up, ready, mu, dispVars, chanVars, taken, old, callVars, pcVars, msgVars,
                   budget>>

CloseMarks ==
    /\ step["close"] = "begin" /\ Goes("close", "swap") /\ closed' = TRUE
    /\ old' = [old EXCEPT !["close"] = [pub |-> pub, rq |-> rq]] /\ pub' = 0 /\ rq' = 0
    /\ UNCHANGED <<sessVars, replyGen, chanVars, taken, callVars, pcVars, msgVars, budget>>

CloseConnection ==
    /\ step["close"] = "conn" /\ Goes("close", "gone") /\ Drops /\ ready' = FALSE
    /\ UNCHANGED <<done, mu, dispVars, pubGen, recs, taken, old, callVars, pcVars, stored, missed,
                   budget>>

-----------------------------------------------------------------------------
Teller(o) == Swaps(o) \/ ResolvesTaken(o) \/ ResolvedAll(o) \/ Clears(o) \/ Shuts(o)
Supervisor == SupNotices \/ SupReconnects \/ SupRestores \/ SupAnnounces
Closer == CloseMarks \/ CloseConnection
Caller(c) ==
    \/ WhenReady(c) \/ Channel(c) \/ RepairsAll(c) \/ RepairsPub(c)
    \/ Register(c) \/ PublishConfirmed(c) \/ PublishGone(c) \/ PublishFails(c) \/ CallReturns(c)
Reader == (\E g \in ended : ReceiveEnds(g)) \/ \E x \in answers : Route(x[1], x[2])
Deaths == ConnDies \/ PubDies \/ ReplyConsumerDies

Next ==
    \/ Supervisor \/ Closer \/ CloseBegins \/ RecoverRestores \/ Deaths
    \/ \E o \in Tellers : Teller(o)
    \/ Reader \/ \E g \in recs : RecoverLocks(g)
    \/ \E c \in Callers : \/ CallStarts(c) \/ Caller(c) \/ RepairLocks(c) \/ TimesOut(c)
                           \/ RequestStored(c) \/ ServiceAnswers(c)

Spec == Init /\ [][Next]_vars

\* Every goroutine runs, the reader reads, the broker takes what is sent; the
\* two strong conditions are Go's starvation-free mutex. Nothing is assumed of
\* services or of deadlines.
FairSpec ==
    /\ Spec
    /\ \A o \in Tellers : WF_vars(Teller(o))
    /\ SF_vars(SupReconnects) /\ WF_vars(Supervisor) /\ WF_vars(Closer) /\ WF_vars(RecoverRestores)
    /\ WF_vars(Reader) /\ SF_vars(\E g \in recs : RecoverLocks(g))
    /\ \A c \in Callers : WF_vars(Caller(c)) /\ SF_vars(RepairLocks(c)) /\ WF_vars(RequestStored(c))

-----------------------------------------------------------------------------
\* call publishes again only what was never sent: whatever dies under it, and
\* however often it goes round its loop, the broker stores one request per call.
SentOnce == \A x, y \in stored : x[1] = y[1] => x = y

\* A reply that reaches the reader while its call is publishing or waiting finds
\* it registered, even before the publish has returned and on any attempt; route
\* drops only what nobody wants.
RepliesFindTheirCall == missed = {}

\* A call is told ErrDisconnected only when its own reply queue is gone: the
\* signal failPending was sending to an earlier attempt never reaches the one
\* published since on a new connection.
DisconnectedIsTrue ==
    \A c \in Callers : verdict[c] = "disconnected" => got[c].rq \notin live

\* The supervisor's restores, the callers' repairs and the recovery of a dead
\* reply consumer never leave two reply consumers alive, one of them unread.
OneReplyConsumer == \A g, h \in live : g = h

\* The table holds the current attempt of calls still in progress and nothing
\* else: neither timeouts nor retries nor failPending leave an entry behind.
TableCurrent ==
    \A c \in Callers : calls[c] # 0 => calls[c] = attempt[c] /\ pc[c] \in {"publish", "wait"}

\* Replies and the table of calls, in a state that is well typed.
TableExact == TypeOK /\ RepliesFindTheirCall /\ TableCurrent

\* A call waiting on a reply queue that is gone is failed, with no help from its
\* deadline: failPending reaches every call in flight.
StrandedCallsFail ==
    \A c \in Callers : []<>(pc[c] # "wait" \/ got[c].rq \in live)

\* A call looking for a channel gets one or an answer: waiting for readiness,
\* repairing and recovering never wait for each other for good.
CallsProceed == \A c \in Callers : []<>(pc[c] \in {"idle", "publish", "wait", "over"})

\* No call is left behind, but for a late one, which waits for its deadline: it
\* publishes between failPending and the closing of the channel, in
\* tryRecoverReplies (dispatcher.go:363-366) or close (228-233), or on the channel
\* of a connection dropped before it was announced (session.go:237-262).
NoCallLeftBehind == CallsProceed /\ (~scene.late => StrandedCallsFail)
=============================================================================
