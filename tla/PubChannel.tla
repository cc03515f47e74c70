----------------------------- MODULE PubChannel -----------------------------
(***************************************************************************)
(* One confirm-mode publishing channel (pubchan.go): the callers of        *)
(* publish, one per element of Pub; the writer and loop goroutines;        *)
(* amqp091's reader and the broker; and an environment that ends contexts, *)
(* kills the channel and moves bindings.                                   *)
(***************************************************************************)
EXTENDS Naturals, Sequences, FiniteSets

CONSTANTS
    Pub,                     \* the publish calls made on this channel
    Ident,                   \* what a basic.return names a publication by:
                             \* its message id, exchange and routing key
    Mandatory,               \* the publications sent with the mandatory flag
    Scenes,                  \* configurations and environments, of which a
                             \* behaviour has one
    NoPub                    \* the writer's empty hands

ASSUME PubAssumption ==
    /\ IsFiniteSet(Pub) /\ NoPub \notin Pub
    /\ Mandatory \subseteq Pub
    /\ DOMAIN Ident = Pub
    /\ \A s \in Scenes : s.slots \in Nat \ {0} /\ s.bound \subseteq {Ident[p] : p \in Pub}

Dests == {Ident[p] : p \in Pub}

VARIABLES
    scene,      \* the scene
    call,       \* where each publish call is waiting, or what it returned
    ctxDone,    \* the publications whose context has ended
    slots,      \* len(p.slots)
    settled,    \* pp.err or pp.sendErr, once pp.done is closed
    stage,      \* pp.committed and pp.sentAt: not committed, being written,
                \* or written less or more than PublishConfirmTimeout ago
    returned,   \* the publications with pp.returned set
    pendingTag, \* p.pending inverted: the tag of each publication in it, or 0
    loop,       \* the loop goroutine; p.closed closes on entering "settling"
    doomed,     \* what shutdown took from pending and has yet to settle
    writer, cur,\* the writer goroutine and the publication it holds
    closing,    \* ch.Close has been called, by close or by retireIfWedged
    alive,      \* the AMQP channel is open
    publishSeq, \* amqp091's count of the channel's publishes
    wire,       \* publish frames the broker has not taken yet
    brokerSeq,  \* the broker's count of the channel's publishes
    brokerTag,  \* the broker's number for each publication, or 0
    fate,       \* what the broker did with each publication
    owed,       \* the publications taken and not yet confirmed
    bound,      \* the destinations that have a queue
    net,        \* returns and confirms on their way to the client
    confirms,   \* the buffered channel given to NotifyPublish
    received    \* history: the publications whose confirm got that far

callVars   == <<scene, call, ctxDone>>
slotVars   == <<slots, settled>>
ppVars     == <<stage, returned, pendingTag>>
loopVars   == <<loop, doomed>>
writerVars == <<writer, cur, publishSeq>>
chanVars   == <<closing, alive>>
brokerVars == <<wire, brokerSeq, brokerTag, fate, owed, bound>>
inVars     == <<net, confirms, received>>
vars == <<callVars, slotVars, ppVars, loopVars, writerVars, chanVars, brokerVars,
          inVars>>

MaxOutstandingConfirms == scene.slots   \* Config.MaxOutstandingConfirms
Volatile    == scene.volatile           \* the destinations whose bindings may change
Cancellable == scene.cancellable        \* the publications whose context may end
Refusable   == scene.refusable          \* the publications the broker may nack

Waiting == {"idle", "admit", "handoff", "decide", "await"}
\* The results that promise that nothing was sent (pubchan.go:299-302).
NotSent == {"ctxErr", "errChannelGone", "errPublishStalled", "writeErr"}
Verdict == {"nil", "ErrPublishNacked", "ErrUnroutable", "ErrChannelClosed"}
GaveUp  == {"ErrPublishConfirmTimeout", "ctxWhileWaiting"}
Confirm == [kind : {"confirm"}, tag : Nat, ack : BOOLEAN]
Return  == [kind : {"return"}, dest : Dests]

TypeOK ==
    /\ scene \in Scenes
    /\ call \in [Pub -> Waiting \cup NotSent \cup Verdict \cup GaveUp]
    /\ ctxDone \subseteq Pub
    /\ slots \in 0..MaxOutstandingConfirms
    /\ settled \in [Pub -> {"no"} \cup NotSent \cup Verdict]
    /\ stage \in [Pub -> {"new", "writing", "recent", "old"}]
    /\ returned \subseteq Pub
    /\ pendingTag \in [Pub -> Nat]
    /\ loop \in {"run", "drain", "closing", "settling", "done"}
    /\ doomed \subseteq Pub
    /\ writer \in {"idle", "vet", "register", "write", "stamp", "exit"}
    /\ cur \in Pub \cup {NoPub}
    /\ closing \in BOOLEAN /\ alive \in BOOLEAN
    /\ publishSeq \in Nat /\ brokerSeq \in Nat
    /\ wire \in Seq(Pub)
    /\ brokerTag \in [Pub -> Nat]
    /\ fate \in [Pub -> {"none", "routed", "unrouted", "nacked"}]
    /\ owed \subseteq Pub
    /\ bound \subseteq Dests
    /\ net \in Seq(Confirm \cup Return)
    /\ confirms \subseteq Confirm
    /\ received \subseteq Pub

Init ==
    /\ scene \in Scenes
    /\ call = [p \in Pub |-> "idle"] /\ ctxDone = {}
    /\ slots = 0 /\ settled = [p \in Pub |-> "no"]
    /\ stage = [p \in Pub |-> "new"] /\ returned = {}
    /\ pendingTag = [p \in Pub |-> 0]
    /\ loop = "run" /\ doomed = {}
    /\ writer = "idle" /\ cur = NoPub /\ publishSeq = 0
    /\ closing = FALSE /\ alive = TRUE
    /\ wire = <<>> /\ brokerSeq = 0
    /\ brokerTag = [p \in Pub |-> 0] /\ fate = [p \in Pub |-> "none"]
    /\ owed = {} /\ bound = scene.bound
    /\ net = <<>> /\ confirms = {} /\ received = {}

Closed == loop \in {"settling", "done"}
Pending == {p \in Pub : pendingTag[p] # 0}
Goto(p, to) == call' = [call EXCEPT ![p] = to] /\ UNCHANGED <<scene, ctxDone>>

\* Mutant: settle without settleOnce.
SettleAgain(p, outcome) ==
    settled' = [settled EXCEPT ![p] = outcome] /\ slots' = slots - 1

\* settleOnce: the first call records the outcome and gives the slot back.
Settle(p, outcome) ==
    IF settled[p] = "no"
    THEN settled' = [settled EXCEPT ![p] = outcome] /\ slots' = slots - 1
    ELSE UNCHANGED slotVars

\* A publication written the whole confirm timeout ago is still unconfirmed.
\* One being written has no sentAt and is no grounds.
Wedged == \E p \in Pending : stage[p] = "old"
RetireIfWedged == closing' = (closing \/ Wedged) /\ UNCHANGED alive

-----------------------------------------------------------------------------
\* publish, select by select.

PublishStart(p) ==
    /\ call[p] = "idle"
    /\ Goto(p, IF p \in ctxDone THEN "ctxErr" ELSE "admit")
    /\ UNCHANGED <<slotVars, ppVars, loopVars, writerVars, chanVars, brokerVars, inVars>>

TakeSlot(p) ==
    /\ call[p] = "admit" /\ slots < MaxOutstandingConfirms
    /\ slots' = slots + 1
    /\ Goto(p, "handoff")
    /\ UNCHANGED <<settled, ppVars, loopVars, writerVars, chanVars, brokerVars, inVars>>

GiveUpAdmission(p) ==
    /\ call[p] = "admit"
    /\ \/ Closed /\ Goto(p, "errChannelGone") /\ UNCHANGED chanVars
       \/ p \in ctxDone /\ Goto(p, "ctxErr") /\ UNCHANGED chanVars
       \/ Goto(p, "errPublishStalled") /\ RetireIfWedged
    /\ UNCHANGED <<slotVars, ppVars, loopVars, writerVars, brokerVars, inVars>>

\* The unbuffered send on sendq: the writer may take it even once closed.
HandToWriter(p) ==
    /\ call[p] = "handoff" /\ writer = "idle"
    /\ writer' = "vet" /\ cur' = p
    /\ Goto(p, "decide")
    /\ UNCHANGED <<slotVars, ppVars, loopVars, publishSeq, chanVars, brokerVars, inVars>>

\* Mutant: only the admission select gives a slot back.
GiveUpHandoffKeepsSlot(p) ==
    /\ call[p] = "handoff"
    /\ Goto(p, "errPublishStalled") /\ RetireIfWedged
    /\ UNCHANGED <<slotVars, ppVars, loopVars, writerVars, brokerVars, inVars>>

GiveUpHandoff(p) ==
    /\ call[p] = "handoff"
    /\ \E r \in {"errChannelGone", "ctxErr", "errPublishStalled"} :
         /\ r = "errChannelGone" => Closed
         /\ r = "ctxErr" => p \in ctxDone
         /\ Settle(p, r)
         /\ Goto(p, r)
         /\ IF r = "errPublishStalled" THEN RetireIfWedged ELSE UNCHANGED chanVars
    /\ UNCHANGED <<ppVars, loopVars, writerVars, brokerVars, inVars>>

\* Mutant: the stall timer also covers the wait for the writer's decision.
SeeCommitOrStall(p) ==
    /\ call[p] = "decide"
    /\ Goto(p, IF stage[p] # "new" THEN "await" ELSE "errPublishStalled")
    /\ UNCHANGED <<slotVars, ppVars, loopVars, writerVars, chanVars, brokerVars, inVars>>

SeeCommit(p) ==
    /\ call[p] = "decide" /\ stage[p] # "new"
    /\ Goto(p, "await")
    /\ UNCHANGED <<slotVars, ppVars, loopVars, writerVars, chanVars, brokerVars, inVars>>

SeeOutcome(p) ==
    /\ call[p] \in {"decide", "await"} /\ settled[p] # "no"
    /\ Goto(p, settled[p])
    /\ UNCHANGED <<slotVars, ppVars, loopVars, writerVars, chanVars, brokerVars, inVars>>

\* Mutant: a caller that stops waiting takes its slot along.
StopWaitingFreesSlot(p) ==
    /\ call[p] = "await" /\ settled[p] = "no"
    /\ Goto(p, "ErrPublishConfirmTimeout") /\ slots' = slots - 1
    /\ UNCHANGED <<settled, ppVars, loopVars, writerVars, chanVars, brokerVars, inVars>>

\* The caller stops waiting; the publication keeps its slot.
StopWaiting(p) ==
    /\ call[p] = "await"
    /\ \/ Goto(p, "ErrPublishConfirmTimeout")
       \/ p \in ctxDone /\ Goto(p, "ctxWhileWaiting")
    /\ UNCHANGED <<slotVars, ppVars, loopVars, writerVars, chanVars, brokerVars, inVars>>

-----------------------------------------------------------------------------
\* writer and send.

Idle == writer' = "idle" /\ cur' = NoPub

WriterVet ==
    /\ writer = "vet"
    /\ \/ cur \in ctxDone /\ Settle(cur, "ctxErr") /\ Idle
       \/ cur \notin ctxDone /\ Closed /\ Settle(cur, "errChannelGone") /\ Idle
       \/ cur \notin ctxDone /\ ~Closed /\ writer' = "register" /\ UNCHANGED <<cur, slotVars>>
    /\ UNCHANGED <<callVars, ppVars, loopVars, publishSeq, chanVars, brokerVars, inVars>>

\* Mutants: the tag of the last publish instead of the next; the commit left
\* until the write has returned.
WriterRegistersLast ==
    /\ writer = "register" /\ writer' = "write"
    /\ pendingTag' = [pendingTag EXCEPT ![cur] = publishSeq]
    /\ stage' = [stage EXCEPT ![cur] = "writing"]
    /\ UNCHANGED <<callVars, slotVars, returned, loopVars, cur, publishSeq, chanVars,
                   brokerVars, inVars>>
WriterCommitsLate ==
    /\ writer = "register" /\ writer' = "write"
    /\ pendingTag' = [pendingTag EXCEPT ![cur] = publishSeq + 1]
    /\ UNCHANGED <<callVars, slotVars, stage, returned, loopVars, cur, publishSeq,
                   chanVars, brokerVars, inVars>>

\* pending[tag] = pp, replacing any entry of that tag, and close(committed):
\* both before the write, for a confirm can overtake the write's return.
WriterRegister ==
    /\ writer = "register" /\ writer' = "write"
    /\ pendingTag' = [p \in Pub |-> IF p = cur THEN publishSeq + 1
                                    ELSE IF pendingTag[p] = publishSeq + 1 THEN 0
                                    ELSE pendingTag[p]]
    /\ stage' = [stage EXCEPT ![cur] = "writing"]
    /\ UNCHANGED <<callVars, slotVars, returned, loopVars, cur, publishSeq, chanVars,
                   brokerVars, inVars>>

\* PublishWithContext succeeds; on a full socket it may never return.
WriterWrites ==
    /\ writer = "write" /\ alive /\ writer' = "stamp"
    /\ publishSeq' = publishSeq + 1
    /\ wire' = Append(wire, cur)
    /\ UNCHANGED <<callVars, slotVars, ppVars, loopVars, cur, chanVars, brokerSeq,
                   brokerTag, fate, owed, bound, inVars>>

\* Mutant: a write that fails on a dead channel is left to shutdown.
WriterLeavesItToShutdown ==
    /\ writer = "write" /\ Idle
    /\ pendingTag' = [pendingTag EXCEPT ![cur] = 0]
    /\ IF alive THEN Settle(cur, "writeErr") ELSE UNCHANGED slotVars
    /\ UNCHANGED <<callVars, stage, returned, loopVars, publishSeq, chanVars,
                   brokerVars, inVars>>

\* PublishWithContext fails: amqp091 rolls its sequence back, so the tag will
\* be reused and the registration, if shutdown has not taken it, is forgotten.
WriterFails ==
    /\ writer = "write" /\ Idle
    /\ pendingTag' = [pendingTag EXCEPT ![cur] = 0]
    /\ Settle(cur, IF alive THEN "writeErr" ELSE "errChannelGone")
    /\ UNCHANGED <<callVars, stage, returned, loopVars, publishSeq, chanVars,
                   brokerVars, inVars>>

WriterStamps ==
    /\ writer = "stamp" /\ Idle
    /\ stage' = [stage EXCEPT ![cur] = "recent"]
    /\ UNCHANGED <<callVars, slotVars, returned, pendingTag, loopVars, publishSeq,
                   chanVars, brokerVars, inVars>>

WriterExits ==
    /\ writer = "idle" /\ Closed /\ writer' = "exit"
    /\ UNCHANGED <<callVars, slotVars, ppVars, loopVars, cur, publishSeq, chanVars,
                   brokerVars, inVars>>

-----------------------------------------------------------------------------
\* loop, drain and shutdown.

\* Mutant: the destination is not compared.
CandidatesAnyDest(dest) == {p \in Pending \cap Mandatory : p \notin returned}

\* markReturned: the lowest tag among the pending, mandatory publications of
\* that identity not yet returned.
Candidates(dest) ==
    {p \in Pending \cap Mandatory : p \notin returned /\ Ident[p] = dest}
Oldest(S) == {p \in S : \A q \in S : pendingTag[p] <= pendingTag[q]}

\* amqp091's reader meets the loop on the unbuffered returns channel.
LoopReturn ==
    /\ loop \in {"run", "drain"}
    /\ net # <<>> /\ Head(net).kind = "return"
    /\ returned' = returned \cup Oldest(Candidates(Head(net).dest))
    /\ net' = Tail(net)
    /\ UNCHANGED <<callVars, slotVars, stage, pendingTag, loopVars, writerVars,
                   chanVars, brokerVars, confirms, received>>

\* Mutant: an acked publication is a routed one.
ResolveVerdictOnAck(p, ack) == IF ack THEN "nil" ELSE "ErrPublishNacked"

ResolveVerdict(p, ack) ==
    IF ~ack THEN "ErrPublishNacked" ELSE IF p \in returned THEN "ErrUnroutable" ELSE "nil"

\* resolve: the publication under the confirm's tag leaves pending and settles.
LoopConfirm ==
    /\ loop \in {"run", "drain"}
    /\ \E c \in confirms :
         /\ confirms' = confirms \ {c}
         /\ \/ \E p \in Pending :
                 /\ pendingTag[p] = c.tag
                 /\ pendingTag' = [pendingTag EXCEPT ![p] = 0]
                 /\ Settle(p, ResolveVerdict(p, c.ack))
            \/ /\ \A p \in Pending : pendingTag[p] # c.tag
               /\ UNCHANGED <<pendingTag, slotVars>>
    /\ UNCHANGED <<callVars, stage, returned, loopVars, writerVars, chanVars,
                   brokerVars, net, received>>

LoopSeesClose ==
    /\ loop = "run" /\ ~alive /\ loop' = "drain"
    /\ UNCHANGED <<callVars, slotVars, ppVars, doomed, writerVars, chanVars,
                   brokerVars, inVars>>

\* Mutants: shutdown without drain; drain waits for every confirm.
LoopTakesPendingAtOnce ==
    /\ loop = "drain" /\ loop' = "closing"
    /\ doomed' = Pending
    /\ pendingTag' = [p \in Pub |-> 0]
    /\ UNCHANGED <<callVars, slotVars, stage, returned, writerVars, chanVars,
                   brokerVars, inVars>>
LoopAwaitsConfirms ==
    /\ loop = "drain" /\ Pending = {} /\ loop' = "closing"
    /\ UNCHANGED <<callVars, slotVars, ppVars, doomed, writerVars, chanVars,
                   brokerVars, inVars>>

\* Drained: shutdown takes the pending map, ...
LoopTakesPending ==
    /\ loop = "drain" /\ confirms = {} /\ loop' = "closing"
    /\ doomed' = Pending
    /\ pendingTag' = [p \in Pub |-> 0]
    /\ UNCHANGED <<callVars, slotVars, stage, returned, writerVars, chanVars,
                   brokerVars, inVars>>

\* ... closes p.closed, ...
LoopCloses ==
    /\ loop = "closing" /\ loop' = "settling"
    /\ UNCHANGED <<callVars, slotVars, ppVars, doomed, writerVars, chanVars,
                   brokerVars, inVars>>

\* ... and settles what it took, one publication at a time.
LoopSettles ==
    /\ loop = "settling"
    /\ \/ /\ \E p \in doomed : doomed' = doomed \ {p} /\ Settle(p, "ErrChannelClosed")
          /\ UNCHANGED loop
       \/ /\ doomed = {} /\ loop' = "done"
          /\ UNCHANGED <<doomed, slotVars>>
    /\ UNCHANGED <<callVars, ppVars, writerVars, chanVars, brokerVars, inVars>>

\* close: ch.Close, then it waits for loop, writer and retirement to be over.
OwnerCloses ==
    /\ ~closing /\ closing' = TRUE
    /\ UNCHANGED <<callVars, slotVars, ppVars, loopVars, writerVars, alive,
                   brokerVars, inVars>>

-----------------------------------------------------------------------------
\* amqp091 and the broker.

\* The channel closes: notices not yet handed over are lost.
ChannelDies ==
    /\ alive /\ alive' = FALSE
    /\ net' = <<>>
    /\ UNCHANGED <<callVars, slotVars, ppVars, loopVars, writerVars, closing,
                   brokerVars, confirms, received>>

\* A confirm goes into the loop's buffer; were that full, the reader would
\* block, and with it every channel of the connection.
ReaderHasConfirm == net # <<>> /\ Head(net).kind = "confirm"
ReaderDelivers ==
    /\ ReaderHasConfirm
    /\ Cardinality(confirms) < MaxOutstandingConfirms
    /\ confirms' = confirms \cup {Head(net)}
    /\ received' = received \cup {p \in Pub : brokerTag[p] = Head(net).tag}
    /\ net' = Tail(net)
    /\ UNCHANGED <<callVars, slotVars, ppVars, loopVars, writerVars, chanVars, brokerVars>>

\* The broker numbers the next publish and refuses it, routes it, or finds no
\* queue: a mandatory one is then returned at once. It may still take frames
\* of a channel that has died.
BrokerTakes ==
    /\ wire # <<>> /\ wire' = Tail(wire)
    /\ brokerSeq' = brokerSeq + 1
    /\ LET p == Head(wire) IN
       \E f \in {"nacked", "routed", "unrouted"} :
         /\ f = "nacked" => p \in Refusable
         /\ f # "nacked" => (f = "routed" <=> Ident[p] \in bound)
         /\ brokerTag' = [brokerTag EXCEPT ![p] = brokerSeq + 1]
         /\ fate' = [fate EXCEPT ![p] = f]
         /\ owed' = owed \cup {p}
         /\ net' = IF f = "unrouted" /\ p \in Mandatory /\ alive
                   THEN Append(net, [kind |-> "return", dest |-> Ident[p]]) ELSE net
    /\ UNCHANGED <<callVars, slotVars, ppVars, loopVars, writerVars, chanVars,
                   bound, confirms, received>>

\* Confirms come late, in any order, or never.
BrokerConfirms ==
    /\ alive
    /\ \E p \in owed :
         /\ owed' = owed \ {p}
         /\ net' = Append(net, [kind |-> "confirm", tag |-> brokerTag[p],
                                ack |-> fate[p] # "nacked"])
    /\ UNCHANGED <<callVars, slotVars, ppVars, loopVars, writerVars, chanVars, wire,
                   brokerSeq, brokerTag, fate, bound, confirms, received>>

-----------------------------------------------------------------------------
\* The environment: contexts end, time passes, queues come and go.

CancelContext(p) ==
    /\ p \in Cancellable /\ call[p] \in Waiting /\ p \notin ctxDone
    /\ ctxDone' = ctxDone \cup {p}
    /\ UNCHANGED <<scene, call, slotVars, ppVars, loopVars, writerVars, chanVars, brokerVars,
                   inVars>>

TimePasses(p) ==
    /\ stage[p] = "recent" /\ stage' = [stage EXCEPT ![p] = "old"]
    /\ UNCHANGED <<callVars, slotVars, returned, pendingTag, loopVars, writerVars,
                   chanVars, brokerVars, inVars>>

Rebind(d) ==
    /\ bound' = IF d \in bound THEN bound \ {d} ELSE bound \cup {d}
    /\ UNCHANGED <<callVars, slotVars, ppVars, loopVars, writerVars, chanVars, wire,
                   brokerSeq, brokerTag, fate, owed, inVars>>

-----------------------------------------------------------------------------
CallerNext(p) ==
    \/ PublishStart(p) \/ TakeSlot(p) \/ GiveUpAdmission(p) \/ HandToWriter(p)
    \/ GiveUpHandoff(p) \/ SeeCommit(p) \/ SeeOutcome(p) \/ StopWaiting(p)
WriterNext ==
    \/ WriterVet \/ WriterRegister \/ WriterWrites \/ WriterFails
    \/ WriterStamps \/ WriterExits
LoopNext ==
    \/ LoopReturn \/ LoopConfirm \/ LoopSeesClose \/ LoopTakesPending
    \/ LoopCloses \/ LoopSettles
Next ==
    \/ \E p \in Pub : CallerNext(p) \/ CancelContext(p) \/ TimePasses(p)
    \/ \E d \in Dests \cap Volatile : Rebind(d)
    \/ WriterNext \/ LoopNext \/ OwnerCloses
    \/ ChannelDies \/ ReaderDelivers \/ BrokerTakes \/ BrokerConfirms

Spec == Init /\ [][Next]_vars

\* Goroutines run and timers fire; amqp091 finishes a requested close, and
\* fails a write once the channel is dead. A write on a live channel may hang,
\* and the broker owes nothing.
FairSpec ==
    /\ Spec
    /\ \A p \in Pub : WF_vars(call[p] # "idle" /\ CallerNext(p))
    /\ WF_vars(WriterVet \/ WriterRegister \/ WriterStamps \/ WriterExits)
    /\ WF_vars(~alive /\ WriterFails)
    /\ WF_vars(LoopNext)
    /\ WF_vars(closing /\ ChannelDies)

-----------------------------------------------------------------------------
\* The publications that hold a confirm slot: admitted and not settled,
\* whether or not their caller is still waiting.
Held == {p \in Pub : /\ settled[p] = "no"
                     /\ call[p] \in {"handoff", "decide", "await"} \cup GaveUp}

\* Every slot in use belongs to exactly one unsettled publication: settlement
\* by a confirm, a close and a failed write race, and none of them leaks a
\* slot or gives one back twice (pubchan.go:29-33, 82-91).
SlotAccounting == slots = Cardinality(Held)

\* The buffer of confirms always has room for the next one, so amqp091's
\* reader never blocks on this channel (pubchan.go:108-110).
ConfirmsFit == ReaderHasConfirm => Cardinality(confirms) < MaxOutstandingConfirms

\* A result that promises that nothing was sent is never contradicted: no
\* frame of that publication is on the wire or at the broker, so the owner may
\* publish it again (pubchan.go:16-24, 299-302).
DefiniteMeansUnsent ==
    \A p \in Pub : call[p] \in NotSent =>
        fate[p] = "none" /\ \A i \in DOMAIN wire : wire[i] # p

\* A nil error means the broker accepted the publication and, when it was
\* mandatory, routed it to at least one queue (pubchan.go:290-291).
NilMeansRouted ==
    \A p \in Pub : call[p] = "nil" =>
        fate[p] \in {"routed"} \cup (IF p \in Mandatory THEN {} ELSE {"unrouted"})

\* The two definite refusals are the broker's own: a publication reported as
\* nacked was nacked, one reported as unroutable reached no queue. No verdict
\* is taken from another publication's confirm or return.
RefusalIsReal ==
    \A p \in Pub :
        /\ call[p] = "ErrPublishNacked" => fate[p] = "nacked"
        /\ call[p] = "ErrUnroutable" => fate[p] = "unrouted"

\* The tag a publication waits under is the broker's number for it and for no
\* other, across failed writes that give their tag back (pubchan.go:265-271).
TagsAligned ==
    \A p, q \in Pub : pendingTag[p] # 0 /\ brokerTag[q] # 0 =>
        (pendingTag[p] = brokerTag[q] <=> p = q)

\* A confirm received before the close wins: its publication is never
\* reported as ambiguous (pubchan.go:139-142).
ReceivedConfirmWins ==
    \A p \in Pub : settled[p] = "ErrChannelClosed" => p \notin received

\* What publish reports is what the broker did with that publication.
VerdictsTrue == TagsAligned /\ NilMeansRouted /\ RefusalIsReal /\ ReceivedConfirmWins

\* Every publish call returns, even if the broker never confirms and a write
\* hangs: the one wait with neither timer nor context, for the writer's
\* decision, is not behind a write (pubchan.go:367-374).
EveryCallReturns ==
    \A p \in Pub : []<>(call[p] \notin Waiting \ {"idle"})

\* Once the channel is dead every publication settles and its slot comes back,
\* also one that the writer registers after shutdown has taken the pending map.
DeathSettlesAll == \A p \in Pub : []<>(alive \/ p \notin Held)

\* close returns: after ch.Close both goroutines come to an end.
CloseReturns == []<>(~closing \/ (loop = "done" /\ writer = "exit"))

\* Nothing waits for good, neither a caller nor a slot nor the owner's close.
NothingHangs == EveryCallReturns /\ DeathSettlesAll /\ CloseReturns
=============================================================================
