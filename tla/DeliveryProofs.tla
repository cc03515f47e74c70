--------------------------- MODULE DeliveryProofs ---------------------------
(***************************************************************************)
(* Proofs about Delivery, for any finite set of delivery tags, any         *)
(* messages, retries, faults and number of handler slots.                  *)
(***************************************************************************)
EXTENDS Delivery, TLAPS

Slotless == {"free", "buffered", "parked"}
Unfinished == {"early", "run", "result"} \cup Publishing \cup Settling
Places == Slotless \cup Unfinished \cup {"ended"}

Shape == pc \in [Dlv -> Places] /\ busy \subseteq Dlv /\ inHand \subseteq Dlv /\ listed \subseteq Dlv

\* A running handler holds a slot, whether or not its delivery has ended; a
\* registration is of a delivery that holds one and has not.
SlotsHeld ==
    /\ Cardinality(SlotsTaken) <= Concurrency
    /\ busy \subseteq SlotsTaken
    /\ \A d \in listed : d \in SlotsTaken /\ pc[d] # "ended"

\* What a drain waits for only shrinks: its deliveries end before it looks at
\* the handlers, and an ended delivery leaves inHand with its slot.
Draining ==
    /\ bus \in {"up", "stopped", "handlers"} => drain = "none"
    /\ \A d \in inHand : pc[d] \notin {"free", "buffered"}
    /\ bus = "handlers" \/ drain = "clean" => \A d \in inHand : pc[d] = "ended"
    /\ drain = "clean" => \A d \in inHand : d \notin busy

IInv == Shape /\ SlotsHeld /\ Draining

-----------------------------------------------------------------------------
USE DEF brokerVars, workVars, lifeVars, chanVars, history

\* What the argument needs of Cardinality; FiniteSetTheorems has it, at the end.
Counting ==
    /\ Cardinality({}) = 0
    /\ \A S \in SUBSET Dlv :
          /\ Cardinality(S) \in Nat /\ (Cardinality(S) = 0 => S = {})
          /\ \A T \in SUBSET S : Cardinality(T) <= Cardinality(S)
          /\ \A d \in Dlv \ S : Cardinality(S \cup {d}) = Cardinality(S) + 1

\* The slots taken can be counted.
LEMMA SlotsCounted == ASSUME Counting PROVE Cardinality(SlotsTaken) \in Nat
BY Zenon DEF Counting, SlotsTaken

\* A consumer that has received nothing satisfies the invariant.
LEMMA InitIInv == ASSUME Counting, Init PROVE IInv
<1>1. SlotsTaken = {}
  BY Zenon DEF Init, SlotsTaken
<1>2. Cardinality(SlotsTaken) <= Concurrency
  BY <1>1, DeliveryAssumption DEF Counting
<1> QED
  BY <1>1, <1>2, Zenon DEF Init, IInv, Shape, SlotsHeld, Draining, Places, Slotless

\* Steps of the broker, the session and the callers that touch no goroutine.
LEMMA Untouched ==
    ASSUME IInv, UNCHANGED <<pc, busy, listed, bus, drain, inHand>>
    PROVE  IInv'
<1>1. SlotsTaken' = SlotsTaken
  BY Zenon DEF SlotsTaken
<1> QED
  BY <1>1, Zenon DEF IInv, Shape, SlotsHeld, Draining

\* process goes on, or ends, in the slot it has; only its own handler may start.
LEMMA WorkKeepsSlot ==
    ASSUME IInv, NEW d \in Dlv, NEW to \in Unfinished \cup {"ended"},
           Step(d, Unfinished, to), UNCHANGED <<bus, drain, inHand>>,
           busy' \subseteq busy \cup {d}
    PROVE  IInv'
<1>1. SlotsTaken' = SlotsTaken /\ d \in SlotsTaken
  BY Zenon DEF IInv, Shape, Step, SlotsTaken, Places, Slotless, Unfinished, Publishing, Settling
<1>2. Shape'
  BY Zenon DEF IInv, Shape, Step, Places, Registered
<1>3. SlotsHeld'
  BY <1>1, Zenon DEF IInv, Shape, SlotsHeld, Step, Registered
<1>4. Draining'
  BY Zenon DEF IInv, Shape, Draining, Step, Slotless, Unfinished, Publishing, Settling
<1> QED
  BY <1>2, <1>3, <1>4, Zenon DEF IInv

\* amqp091 forgets what it has buffered, when a channel is lost or closed.
LEMMA BufferDropped ==
    ASSUME IInv, pc' = [d \in Dlv |-> IF pc[d] = "buffered" THEN "free" ELSE pc[d]],
           UNCHANGED <<busy, listed, drain, inHand>>,
           bus' = bus \/ bus' = "closed"
    PROVE  IInv'
<1>1. SlotsTaken' = SlotsTaken
  BY Zenon DEF IInv, Shape, SlotsTaken
<1>2. Shape'
  BY Zenon DEF IInv, Shape, Places, Slotless
<1>3. SlotsHeld'
  BY <1>1, Zenon DEF IInv, Shape, SlotsHeld
<1>4. Draining'
  BY Zenon DEF IInv, Shape, Draining
<1> QED
  BY <1>2, <1>3, <1>4, Zenon DEF IInv

\* Before it has a slot a delivery runs nothing, is not registered, and is not
\* what a drain past its first wait is waiting for.
LEMMA Unslotted ==
    ASSUME IInv, NEW d \in Dlv, NEW from \in Slotless, NEW to \in Slotless,
           Step(d, {from}, to), UNCHANGED <<busy, bus, drain>>,
           \/ from = "parked" /\ inHand' = inHand \ {d}
           \/ from # "parked" /\ inHand' = inHand
    PROVE  IInv'
<1>1. SlotsTaken' = SlotsTaken /\ d \notin SlotsTaken
  BY Zenon DEF IInv, Shape, Step, SlotsTaken, Slotless
<1>2. Shape'
  BY ZenonT(60) DEF IInv, Shape, Step, Places, Slotless
<1>3. SlotsHeld'
  BY <1>1, ZenonT(60) DEF IInv, Shape, SlotsHeld, Step, Slotless
<1>4. Draining'
  BY Zenon DEF IInv, Shape, Draining, Step, Slotless
<1> QED
  BY <1>2, <1>3, <1>4, Zenon DEF IInv

\* The loop takes a slot only while one is free.
LEMMA TakeSlotKeeps == ASSUME Counting, IInv, NEW d \in Dlv, TakeSlot(d) PROVE IInv'
<1> DEFINE to == IF LateAck THEN "run" ELSE "early"
<1>1. /\ pc[d] = "parked" /\ pc' = [pc EXCEPT ![d] = to] /\ listed' = listed
      /\ UNCHANGED <<bus, drain, inHand>> /\ to \in {"run", "early"}
      /\ busy' \subseteq busy \cup {d}
  BY Zenon DEF TakeSlot, Step, Starts
<1> HIDE DEF to
<1>2. SlotsTaken' = SlotsTaken \cup {d} /\ d \notin SlotsTaken
  BY <1>1, Zenon DEF IInv, Shape, SlotsTaken
<1>3. Cardinality(SlotsTaken') <= Concurrency
  <2>1. Cardinality(SlotsTaken \cup {d}) = Cardinality(SlotsTaken) + 1
    BY <1>2, Zenon DEF Counting, SlotsTaken
  <2> QED
    BY <1>2, <2>1, SlotsCounted, DeliveryAssumption DEF TakeSlot
<1>4. Shape'
  BY <1>1, Zenon DEF IInv, Shape, Places, Unfinished
<1>5. SlotsHeld'
  BY <1>1, <1>2, <1>3, Zenon DEF IInv, Shape, SlotsHeld
<1>6. Draining'
  BY <1>1, Zenon DEF IInv, Shape, Draining
<1> QED
  BY <1>4, <1>5, <1>6, Zenon DEF IInv

\* A slot comes back only after its handler has exited.
LEMMA ReleaseKeeps == ASSUME Counting, IInv, NEW d \in Dlv, Release(d) PROVE IInv'
<1>1. /\ d \notin busy /\ pc[d] = "ended" /\ pc' = [pc EXCEPT ![d] = "free"]
      /\ listed' = listed /\ inHand' = inHand \ {d} /\ UNCHANGED <<busy, bus, drain>>
  BY Zenon DEF Release, Step
<1>2. SlotsTaken' = SlotsTaken \ {d} /\ d \in SlotsTaken
  BY <1>1, Zenon DEF IInv, Shape, SlotsTaken
<1>3. Cardinality(SlotsTaken') <= Concurrency
  <2>1. Cardinality(SlotsTaken \ {d}) = Cardinality(SlotsTaken) - 1
    <3> DEFINE S == SlotsTaken \ {d}
    <3>1. S \in SUBSET Dlv /\ d \notin S /\ S \cup {d} = SlotsTaken
      BY <1>2, Zenon DEF SlotsTaken
    <3> HIDE DEF S
    <3>2. Cardinality(S) \in Nat /\ Cardinality(SlotsTaken) = Cardinality(S) + 1
      BY <3>1, Zenon DEF Counting
    <3> QED
      BY <3>2 DEF S
  <2> QED
    BY <1>2, <2>1, SlotsCounted, DeliveryAssumption DEF IInv, SlotsHeld
<1>4. Shape'
  BY <1>1, Zenon DEF IInv, Shape, Places, Slotless
<1>5. SlotsHeld'
  BY <1>1, <1>2, <1>3, Zenon DEF IInv, Shape, SlotsHeld
<1>6. Draining'
  BY <1>1, Zenon DEF IInv, Shape, Draining
<1> QED
  BY <1>4, <1>5, <1>6, Zenon DEF IInv

\* A handler that reaches its stream registers only a delivery still in process.
LEMMA EnterStreamKeeps == ASSUME IInv, NEW d \in Dlv, EnterStream(d) PROVE IInv'
<1>1. /\ d \in busy /\ listed' = (IF pc[d] = "ended" THEN listed \ {d} ELSE listed \cup {d})
      /\ UNCHANGED <<pc, busy, bus, drain, inHand>>
  BY Zenon DEF EnterStream, Registered
<1>2. SlotsTaken' = SlotsTaken
  BY <1>1, Zenon DEF SlotsTaken
<1> QED
  BY <1>1, <1>2, Zenon DEF IInv, Shape, SlotsHeld, Draining

\* A handler returns to its delivery, or to nobody.
LEMMA HandlerReturnsKeeps == ASSUME IInv, NEW d \in Dlv, HandlerReturns(d) PROVE IInv'
<1>1. busy' = busy \ {d} /\ UNCHANGED <<bus, drain, inHand>>
  BY Zenon DEF HandlerReturns
<1>2. CASE Step(d, {"run"}, "result")
  <2>1. Step(d, Unfinished, "result")
    BY <1>2, Zenon DEF Step, Unfinished
  <2> QED
    BY <1>1, <2>1, WorkKeepsSlot, Zenon DEF Unfinished
<1>3. CASE UNCHANGED <<pc, listed>>
  <2>1. SlotsTaken' = SlotsTaken
    BY <1>3, Zenon DEF SlotsTaken
  <2> QED
    BY <1>1, <1>3, <2>1, Zenon DEF IInv, Shape, SlotsHeld, Draining
<1> QED
  BY <1>2, <1>3, Zenon DEF HandlerReturns

\* The early ack, the timeout, process and settle work within their slot.
LEMMA WorkKeeps ==
    ASSUME IInv, NEW d \in Dlv,
           \/ EarlyAck(d) \/ TimeoutFires(d) \/ Conclude(d) \/ Published(d)
           \/ PublishFails(d) \/ Settle(d)
    PROVE  IInv'
<1>1. AfterErrReply(d) \in Unfinished \cup {"ended"}
  BY Zenon DEF AfterErrReply, Unfinished, Publishing, Settling
<1>2. FirstSteps(d) \subseteq Unfinished \cup {"ended"}
  BY <1>1, Zenon DEF FirstSteps, Unfinished, Publishing, Settling
<1>3. /\ \E to \in Unfinished \cup {"ended"} : Step(d, Unfinished, to)
      /\ busy' \subseteq busy \cup {d} /\ UNCHANGED <<bus, drain, inHand>>
  <2>1. CASE EarlyAck(d)
    BY <2>1, ZenonT(60) DEF EarlyAck, Step, Starts, Unfinished
  <2>2. CASE TimeoutFires(d)
    BY <2>2, ZenonT(60) DEF TimeoutFires, Step, Unfinished
  <2>3. CASE Conclude(d)
    BY <2>3, <1>2, ZenonT(60) DEF Conclude, Step, Unfinished, Settling
  <2>4. CASE Published(d)
    BY <2>4, <1>1, ZenonT(60) DEF Published, Step, Unfinished, Settling
  <2>5. CASE PublishFails(d)
    BY <2>5, <1>1, ZenonT(60) DEF PublishFails, Step, Unfinished, Settling
  <2>6. CASE Settle(d)
    BY <2>6, ZenonT(60) DEF Settle, Step, Unfinished
  <2> QED
    BY <2>1, <2>2, <2>3, <2>4, <2>5, <2>6, Zenon
<1> QED
  BY <1>3, WorkKeepsSlot, Zenon

\* What the loop holds before it has a slot comes and goes.
LEMMA LoopKeeps ==
    ASSUME IInv, NEW d \in Dlv, Receive(d) \/ LetGo(d) \/ \E c \in Copy : Deliver(d, c)
    PROVE  IInv'
<1>1. CASE Receive(d)
  BY <1>1, Unslotted, Zenon DEF Receive, Slotless
<1>2. CASE LetGo(d)
  BY <1>2, Unslotted, Zenon DEF LetGo, Slotless
<1>3. CASE \E c \in Copy : Deliver(d, c)
  BY <1>3, Unslotted, Zenon DEF Deliver, Slotless
<1> QED
  BY <1>1, <1>2, <1>3, Zenon

\* A new process has no deliveries.
LEMMA CrashKeeps == ASSUME Counting, IInv, Crash PROVE IInv'
<1>1. SlotsTaken' = {}
  BY Zenon DEF Crash, SlotsTaken
<1>2. Cardinality(SlotsTaken') <= Concurrency
  BY <1>1, DeliveryAssumption DEF Counting
<1> QED
  BY <1>1, <1>2, Zenon DEF Crash, IInv, Shape, SlotsHeld, Draining, Places, Slotless

\* Shutdown, Drain and Close move no goroutine: they take stock and wait.
LEMMA StopKeeps == ASSUME IInv, Shutdown \/ Drained \/ CloseAtOnce PROVE IInv'
<1>1. UNCHANGED <<pc, busy, listed>>
  BY Zenon DEF Shutdown, Drained, CloseAtOnce, idle
<1>2. SlotsTaken' = SlotsTaken
  BY <1>1, Zenon DEF SlotsTaken
<1>3. CASE Shutdown
  <2>1. \A d \in inHand' : pc[d] \notin {"free", "buffered"}
    BY <1>3, Zenon DEF Shutdown, InProcess, IInv, SlotsHeld, SlotsTaken
  <2>2. drain = "none" /\ drain' = "none" /\ bus' = "stopped"
    BY <1>3, Zenon DEF Shutdown, MayStop, IInv, Draining
  <2>3. Draining'
    BY <1>1, <2>1, <2>2, Zenon DEF Draining
  <2>4. inHand' \subseteq Dlv
    BY <1>3, Zenon DEF Shutdown, InProcess, IInv, Shape
  <2> QED
    BY <1>1, <1>2, <2>3, <2>4, Zenon DEF IInv, Shape, SlotsHeld
<1>4. CASE Drained
  <2>1. inHand' = inHand
    BY <1>4, Zenon DEF Drained, Drain, DrainTimesOut
  <2>2. Draining'
    BY <1>1, <1>4, <2>1, Zenon DEF Drained, Drain, DrainTimesOut, InProcess, IInv, Shape,
       Draining
  <2> QED
    BY <1>1, <1>2, <2>1, <2>2, Zenon DEF IInv, Shape, SlotsHeld
<1>5. CASE CloseAtOnce
  BY <1>1, <1>2, <1>5, Zenon DEF CloseAtOnce, IInv, Shape, SlotsHeld, Draining
<1> QED
  BY <1>3, <1>4, <1>5, Zenon

\* Every step of the consumer, its broker and its bus keeps the invariant.
LEMMA NextIInv == ASSUME Counting, IInv, [Next]_vars PROVE IInv'
<1>1. CASE UNCHANGED vars
  BY <1>1, Untouched, Zenon DEF vars
<1>2. ASSUME NEW d \in Dlv, Goroutine(d) PROVE IInv'
  BY <1>2, LoopKeeps, TakeSlotKeeps, EnterStreamKeeps, WorkKeeps, ReleaseKeeps,
     Zenon DEF Goroutine
<1>3. ASSUME NEW d \in Dlv, HandlerReturns(d) PROVE IInv'
  BY <1>3, HandlerReturnsKeeps, Zenon
<1>4. ASSUME NEW d \in Dlv, BrokerSettles(d) PROVE IInv'
  BY <1>4, Untouched, Zenon DEF BrokerSettles
<1>5. ASSUME NEW d \in Dlv, NEW c \in Copy, Deliver(d, c) PROVE IInv'
  BY <1>5, LoopKeeps, Zenon
<1>6. ASSUME NEW m \in Msg, CallerCancels(m) PROVE IInv'
  BY <1>6, Untouched, Zenon DEF CallerCancels
<1>7. ASSUME NEW c \in Copy, RetryExpires(c) PROVE IInv'
  BY <1>7, Untouched, Zenon DEF RetryExpires
<1>8. CASE ChannelDies \/ Restore \/ CancelTag
  BY <1>8, Untouched, Zenon DEF ChannelDies, Restore, CancelTag
<1>9. CASE ClientNotices \/ Closed
  BY <1>9, BufferDropped, Zenon DEF ClientNotices, Closed
<1>10. CASE Crash
  BY <1>10, CrashKeeps, Zenon
<1>11. CASE Shutdown \/ Drained \/ CloseAtOnce
  BY <1>11, StopKeeps, Zenon
<1> QED
  BY <1>1, <1>2, <1>3, <1>4, <1>5, <1>6, <1>7, <1>8, <1>9, <1>10, <1>11, Zenon DEF Next

-----------------------------------------------------------------------------
\* TypeOK beyond Shape, in two halves: what the custody of a message is about,
\* and the rest.
BrokerTyped ==
    /\ queue \in [Copy -> Nat] /\ retryQ \in [Copy -> Nat] /\ dlq \subseteq Msg
    /\ copy \in [Dlv -> Copy] /\ unacked \subseteq Dlv
    /\ sent \in [Dlv -> {"none"} \cup Settling] /\ res \in [Dlv -> {"ok", "fail", "handled"}]
    /\ failures \in [Msg -> 0..(MaxRetries + 1)]
    /\ outcomes \in [Msg -> SUBSET {"ok", "handled", "rejected", "cancelled"}]
    /\ answered \subseteq Msg /\ mode \in Modes

RestTyped ==
    /\ disarmed \subseteq Dlv /\ stale \subseteq Dlv
    /\ cause \in [Dlv -> {"none", "cancelled", "gone", "timeout"}]
    /\ chan \in {"up", "lost", "down", "restoring", "closed"}
    /\ tag \in {"none", "wanted", "on"} /\ drain \in {"none", "clean", "cut"}
    /\ bus \in {"up", "stopped", "handlers", "closing", "closed"}
    /\ faults \in 0..MaxFaults /\ runs \in [Msg -> Nat] /\ unheard \in [Msg -> Nat]

\* The message of a delivery is the broker's to redeliver until its ack or its
\* reject is decided.
Holds(d) == sent[d] \notin {"ack", "reject"} /\ pc[d] # "ack"
Kept(m) ==
    \/ m \in dlq \/ \E c \in Copy : c.m = m /\ queue[c] + retryQ[c] > 0
    \/ \E d \in unacked : copy[d].m = m /\ Holds(d)
Decided(m) ==
    /\ outcomes[m] # {}
    /\ m \in HasReply \ Streams =>
          m \in answered \/ outcomes[m] \cap {"cancelled", "rejected"} # {}
Safe == LateAck => \A m \in Msg : Kept(m) \/ Decided(m)

\* No copy counts more attempts than have failed, nor more than the ladder has.
Counted ==
    \A c \in Copy : queue[c] + retryQ[c] > 0 => c.n <= MaxRetries /\ c.n <= failures[c.m]
Ranked(d) ==
    /\ d \notin unacked => sent[d] = "none"
    /\ d \in unacked \/ pc[d] # "free" =>
          copy[d].n <= MaxRetries /\ copy[d].n <= failures[copy[d].m]

\* What a delivery is about to do has been earned: a retry by a failure, a
\* dead letter by the last one or a refusal, a reply by the handler's result.
Due(d) ==
    /\ pc[d] = "early" => ~LateAck
    /\ pc[d] = "reply" => outcomes[copy[d].m] # {}
    /\ pc[d] = "retry" => copy[d].n < MaxRetries /\ copy[d].n < failures[copy[d].m]
    /\ pc[d] \in {"errReply", "dead"} =>
          \/ res[d] = "handled" /\ "handled" \in outcomes[copy[d].m]
          \/ res[d] = "fail" /\ (HasLadder => failures[copy[d].m] = MaxRetries + 1)
    /\ pc[d] = "dead" => HasLadder
    /\ ~LateAck => pc[d] \notin Settling \cup {"retry", "dead"}

Custody == Safe /\ Counted /\ DeadLetterEarned /\ \A d \in Dlv : Ranked(d) /\ Due(d)

\* What is decided, answered, counted or dead-lettered stays so.
Grows ==
    /\ mode' = mode /\ dlq \subseteq dlq' /\ answered \subseteq answered'
    /\ \A m \in Msg : outcomes[m] \subseteq outcomes'[m] /\ failures[m] <= failures'[m]

\* A goroutine that publishes and settles nothing, or none at all.
Quiet ==
    /\ UNCHANGED <<brokerVars, failures, outcomes, answered, mode>> /\ (LateAck \/ runs' = runs)
    /\ res' \in [Dlv -> {"ok", "fail", "handled"}]
    /\ \A d \in Dlv :
          \/ pc'[d] = pc[d] /\ res'[d] = res[d]
          \/ /\ pc'[d] \in Slotless \cup {"early", "run", "result", "ended"}
             /\ (pc[d] = "free" => pc'[d] = "free") /\ (pc'[d] = "early" => ~LateAck)
             /\ pc'[d] \in {"buffered", "parked", "early"} => pc[d] \in {"buffered", "parked"}

\* A channel or the process ends: what is unacknowledged is queued again.
Requeues ==
    /\ RequeueUnacked /\ UNCHANGED <<failures, outcomes, answered, mode, runs>>
    /\ res' \in [Dlv -> {"ok", "fail", "handled"}]
    /\ \A d \in Dlv : pc'[d] = "free" \/ (pc'[d] = pc[d] /\ res'[d] = res[d])

-----------------------------------------------------------------------------
\* A copy and its parts.
LEMMA CopyTyped ==
    /\ \A c \in Copy : c.m \in Msg /\ c.n \in 0..(MaxRetries + 1)
    /\ \A m \in Msg, n \in 0..(MaxRetries + 1) :
          [m |-> m, n |-> n] \in Copy /\ [m |-> m, n |-> n].m = m /\ [m |-> m, n |-> n].n = n
    /\ \A c \in Copy : c = [m |-> c.m, n |-> c.n]
BY DEF Copy

\* A new consumer, its queue with one copy of each message.
LEMMA InitCustody == ASSUME Init PROVE BrokerTyped /\ RestTyped /\ Custody
<1>1. copy \in [Dlv -> Copy]
  <2>1. \E m \in Msg : [m |-> m, n |-> 0] \in Copy
    BY CopyTyped, DeliveryAssumption
  <2> QED
    BY <2>1, Zenon DEF Init
<1>2. BrokerTyped /\ RestTyped
  BY <1>1, DeliveryAssumption DEF Init, BrokerTyped, RestTyped
<1>3. ASSUME NEW m \in Msg PROVE Kept(m)
  <2>1. [m |-> m, n |-> 0] \in Copy /\ [m |-> m, n |-> 0].m = m /\ [m |-> m, n |-> 0].n = 0
    BY CopyTyped, DeliveryAssumption
  <2>2. queue[[m |-> m, n |-> 0]] + retryQ[[m |-> m, n |-> 0]] > 0
    BY <2>1 DEF Init
  <2> QED
    BY <2>1, <2>2, Zenon DEF Kept
<1>4. Counted
  BY CopyTyped, DeliveryAssumption DEF Init, Counted
<1>5. DeadLetterEarned /\ \A d \in Dlv : Ranked(d) /\ Due(d)
  BY Zenon DEF Init, DeadLetterEarned, Ranked, Due, Settling
<1> QED
  BY <1>2, <1>3, <1>4, <1>5, Zenon DEF Custody, Safe

\* No history changes.
LEMMA Still ==
    ASSUME BrokerTyped, UNCHANGED <<dlq, failures, outcomes, answered, mode>>
    PROVE  Grows
BY DEF Grows, BrokerTyped

\* What has been decided stays decided: a message need only be kept until then.
LEMMA SafeStays ==
    ASSUME Safe, Grows, LateAck => \A m \in Msg : Kept(m) => Kept(m)' \/ Decided(m)'
    PROVE  Safe'
<1>1. \A m \in Msg : Decided(m) => Decided(m)'
  BY Zenon DEF Grows, Decided, HasReply, Streams
<1> QED
  BY <1>1, Zenon DEF Safe, LateAck, Grows

\* A delivery that stays where it is, or takes up nothing, stays justified.
LEMMA DueStays ==
    ASSUME BrokerTyped, BrokerTyped', Grows, NEW d \in Dlv, Ranked(d), Due(d),
           copy'[d] = copy[d], d \in unacked' => d \in unacked,
           d \notin unacked' => sent'[d] = "none",
           \/ pc'[d] = pc[d] /\ res'[d] = res[d]
           \/ /\ pc'[d] \in Slotless \cup {"early", "run", "result", "ended"}
              /\ (pc[d] = "free" => pc'[d] = "free") /\ (pc'[d] = "early" => ~LateAck)
    PROVE  Ranked(d)' /\ Due(d)'
<1>1. /\ outcomes[copy[d].m] \subseteq outcomes'[copy[d].m]
      /\ failures[copy[d].m] <= failures'[copy[d].m] /\ failures[copy[d].m] \in 0..(MaxRetries + 1)
      /\ failures'[copy[d].m] \in 0..(MaxRetries + 1) /\ copy[d].n \in 0..(MaxRetries + 1)
      /\ (LateAck' <=> LateAck) /\ (HasLadder' <=> HasLadder) /\ MaxRetries \in Nat
  BY CopyTyped, DeliveryAssumption DEF BrokerTyped, Grows, LateAck, HasLadder
<1>2. Ranked(d)'
  BY <1>1 DEF Ranked
<1>3. Due(d)'
  BY <1>1 DEF Due, Slotless, Settling
<1> QED
  BY <1>2, <1>3, Zenon

\* The loop, the handlers, the session and the callers.
LEMMA QuietKeeps ==
    ASSUME BrokerTyped, Custody, Quiet
    PROVE  BrokerTyped' /\ Grows /\ Custody'
<1>1. BrokerTyped' /\ Grows
  BY DEF Quiet, BrokerTyped, Grows
<1>2. ASSUME NEW m \in Msg PROVE Kept(m) => Kept(m)'
  <2>1. \A d \in unacked : Holds(d) => Holds(d)'
    BY Zenon DEF Quiet, Holds, Slotless, BrokerTyped
  <2> QED
    BY <2>1, Zenon DEF Kept, Quiet
<1>3. Safe' /\ Counted' /\ DeadLetterEarned'
  BY <1>1, <1>2, SafeStays, Zenon DEF Quiet, Custody, Counted, DeadLetterEarned
<1>4. ASSUME NEW d \in Dlv PROVE Ranked(d)' /\ Due(d)'
  <2>1. Ranked(d) /\ Due(d) /\ (d \notin unacked' => sent'[d] = "none")
    BY Zenon DEF Custody, Quiet, Ranked
  <2> QED
    BY <1>1, <2>1, DueStays, Zenon DEF Quiet
<1> QED
  BY <1>1, <1>3, <1>4, Zenon DEF Custody

\* The broker hands out a copy: its delivery holds it from then on.
LEMMA DeliverKeeps ==
    ASSUME BrokerTyped, Shape, Custody, NEW d \in Dlv, NEW c \in Copy, Deliver(d, c)
    PROVE  BrokerTyped' /\ Grows /\ Custody'
<1>1. /\ queue[c] > 0 /\ queue' = [queue EXCEPT ![c] = @ - 1] /\ copy' = [copy EXCEPT ![d] = c]
      /\ unacked' = unacked \cup {d} /\ d \notin unacked /\ pc' = [pc EXCEPT ![d] = "buffered"]
      /\ UNCHANGED <<retryQ, dlq, sent, res, failures, outcomes, answered, mode>>
  BY Zenon DEF Deliver, Step
<1>2. BrokerTyped' /\ Grows
  BY <1>1, Still DEF BrokerTyped
<1>3. /\ sent[d] = "none" /\ copy'[d] = c /\ pc'[d] = "buffered"
      /\ \A e \in Dlv \ {d} : copy'[e] = copy[e] /\ pc'[e] = pc[e]
      /\ \A b \in Copy \ {c} : queue'[b] = queue[b] /\ retryQ'[b] = retryQ[b]
  BY <1>1, Zenon DEF Custody, Ranked, BrokerTyped, Shape
<1>4. Safe'
  <2>1. \A e \in unacked : e \in Dlv \ {d}
    BY <1>1, Zenon DEF BrokerTyped
  <2>2. ASSUME NEW m \in Msg PROVE Kept(m) => Kept(m)'
    BY <1>1, <1>3, <2>1 DEF Kept, Holds
  <2> QED
    BY <1>2, <2>2, SafeStays, Zenon DEF Custody
<1>5. Counted' /\ DeadLetterEarned' /\ c.n <= MaxRetries /\ c.n <= failures[c.m]
  BY <1>1 DEF Custody, Counted, DeadLetterEarned, BrokerTyped
<1>6. ASSUME NEW e \in Dlv \ {d} PROVE Ranked(e)' /\ Due(e)'
  <2>1. Ranked(e) /\ Due(e)
    BY Zenon DEF Custody
  <2> QED
    BY <1>1, <1>2, <1>3, <2>1, DueStays, Zenon DEF Ranked
<1>7. Ranked(d)' /\ Due(d)'
  BY <1>1, <1>3, <1>5, Zenon DEF Ranked, Due, Settling
<1> QED
  BY <1>2, <1>4, <1>5, <1>6, <1>7, Zenon DEF Custody

\* The TTL of the retry queue runs out.
LEMMA RetryExpiresKeeps ==
    ASSUME BrokerTyped, Custody, NEW c \in Copy, RetryExpires(c)
    PROVE  BrokerTyped' /\ Grows /\ Custody'
<1>1. /\ retryQ[c] > 0 /\ retryQ' = [retryQ EXCEPT ![c] = @ - 1]
      /\ queue' = [queue EXCEPT ![c] = @ + 1]
      /\ UNCHANGED <<dlq, copy, unacked, sent, pc, res, failures, outcomes, answered, mode>>
  BY Zenon DEF RetryExpires, Add
<1>2. /\ BrokerTyped' /\ Grows
      /\ \A b \in Copy : queue'[b] + retryQ'[b] = queue[b] + retryQ[b]
  BY <1>1, Still DEF BrokerTyped
<1>3. Safe'
  BY <1>1, <1>2, SafeStays, Zenon DEF Custody, Kept, Holds
<1>4. Counted' /\ DeadLetterEarned' /\ \A e \in Dlv : Ranked(e)' /\ Due(e)'
  BY <1>1, <1>2 DEF Custody, Counted, DeadLetterEarned, Ranked, Due, LateAck, HasLadder
<1> QED
  BY <1>2, <1>3, <1>4, Zenon DEF Custody

\* The broker settles a delivery: a message it requeues is in the queue again,
\* and one it drops was no longer the delivery's to keep.
LEMMA BrokerSettlesKeeps ==
    ASSUME BrokerTyped, Custody, NEW d \in Dlv, BrokerSettles(d)
    PROVE  BrokerTyped' /\ Grows /\ Custody'
<1>1. /\ d \in unacked /\ sent[d] # "none" /\ unacked' = unacked \ {d}
      /\ sent' = [sent EXCEPT ![d] = "none"]
      /\ queue' = IF sent[d] = "requeue" THEN [queue EXCEPT ![copy[d]] = @ + 1] ELSE queue
      /\ UNCHANGED <<retryQ, dlq, copy, pc, res, failures, outcomes, answered, mode>>
  BY Zenon DEF BrokerSettles, Add
<1>2. BrokerTyped' /\ Grows
  BY <1>1, Still DEF BrokerTyped
<1>3. /\ \A b \in Copy : \/ queue'[b] = queue[b]
                         \/ queue'[b] = queue[b] + 1 /\ b = copy[d]
      /\ copy[d] \in Copy /\ (Holds(d) => queue'[copy[d]] + retryQ'[copy[d]] > 0)
      /\ \A b \in Copy : queue[b] + retryQ[b] > 0 => queue'[b] + retryQ'[b] > 0
      /\ sent'[d] = "none" /\ \A e \in Dlv \ {d} : sent'[e] = sent[e]
  BY <1>1 DEF Holds, Settling, BrokerTyped
<1>4. Safe'
  <2>1. \A e \in unacked \ {d} : e \in Dlv \ {d}
    BY Zenon DEF BrokerTyped
  <2>2. ASSUME NEW m \in Msg PROVE Kept(m) => Kept(m)'
    BY <1>1, <1>3, <2>1, Zenon DEF Kept, Holds
  <2> QED
    BY <1>2, <2>2, SafeStays, Zenon DEF Custody
<1>5. Counted' /\ DeadLetterEarned'
  BY <1>1, <1>3, Zenon DEF Custody, Counted, DeadLetterEarned, Ranked, BrokerTyped
<1>6. ASSUME NEW e \in Dlv PROVE Ranked(e)' /\ Due(e)'
  <2>1. Ranked(e) /\ Due(e)
    BY Zenon DEF Custody
  <2> QED
    BY <1>1, <1>2, <1>3, <2>1, DueStays, Zenon DEF Ranked
<1> QED
  BY <1>2, <1>4, <1>5, <1>6, Zenon DEF Custody

\* What a dead channel held is queued again, once for each delivery.
LEMMA RequeuesKeeps ==
    ASSUME Counting, BrokerTyped, Custody, Requeues
    PROVE  BrokerTyped' /\ Grows /\ Custody'
<1> DEFINE Back(c) == {d \in unacked : copy[d] = c}
<1>1. /\ queue' = [c \in Copy |-> queue[c] + Cardinality(Back(c))]
      /\ unacked' = {} /\ sent' = [d \in Dlv |-> "none"]
      /\ UNCHANGED <<retryQ, dlq, copy, failures, outcomes, answered, mode>>
  BY Zenon DEF Requeues, RequeueUnacked
<1>2. ASSUME NEW c PROVE Cardinality(Back(c)) \in Nat /\ (Back(c) = {} <=> Cardinality(Back(c)) = 0)
  <2>1. Back(c) \in SUBSET Dlv
    BY Zenon DEF BrokerTyped
  <2> HIDE DEF Back
  <2> QED
    BY <2>1, Zenon DEF Counting
<1>3. /\ \A d \in unacked : copy[d] \in Copy /\ Back(copy[d]) # {}
      /\ \A c : Back(c) # {} => \E d \in Dlv : d \in unacked /\ copy[d] = c
  BY Zenon DEF BrokerTyped
<1> HIDE DEF Back
<1>4. BrokerTyped' /\ Grows
  BY <1>1, <1>2, Still DEF BrokerTyped, Requeues
<1>5. \A c \in Copy : /\ queue'[c] + retryQ'[c] > 0 <=> queue[c] + retryQ[c] > 0 \/ Back(c) # {}
  BY <1>1, <1>2 DEF BrokerTyped
<1>6. Safe'
  <2>1. ASSUME NEW m \in Msg PROVE Kept(m) => Kept(m)'
    BY <1>1, <1>3, <1>5, Zenon DEF Kept
  <2> QED
    BY <1>4, <2>1, SafeStays, Zenon DEF Custody
<1>7. Counted' /\ DeadLetterEarned'
  BY <1>1, <1>3, <1>5, Zenon DEF Custody, Counted, DeadLetterEarned, Ranked
<1>8. ASSUME NEW e \in Dlv PROVE Ranked(e)' /\ Due(e)'
  <2>1. Ranked(e) /\ Due(e) /\ sent'[e] = "none"
    BY <1>1, Zenon DEF Custody
  <2> QED
    BY <1>1, <1>4, <2>1, DueStays, Zenon DEF Requeues, Slotless
<1> QED
  BY <1>4, <1>6, <1>7, <1>8, Zenon DEF Custody

\* A step of one goroutine, which may publish or settle for its delivery.
LEMMA GoroutineKeeps ==
    ASSUME BrokerTyped, BrokerTyped', Custody, Grows, NEW d \in Dlv, Ranked(d)', Due(d)',
           UNCHANGED <<queue, copy, unacked>>,
           \A e \in Dlv \ {d} : pc'[e] = pc[e] /\ res'[e] = res[e] /\ sent'[e] = sent[e],
           \A c \in Copy : \/ retryQ'[c] = retryQ[c]
                           \/ retryQ'[c] > retryQ[c] /\ c.n <= MaxRetries /\ c.n <= failures[c.m],
           \A m \in dlq' \ dlq : failures'[m] = MaxRetries + 1 \/ "handled" \in outcomes'[m],
           LateAck /\ d \in unacked /\ Holds(d)
              => Holds(d)' \/ Kept(copy[d].m)' \/ Decided(copy[d].m)'
    PROVE  Custody'
<1>1. Safe'
  <2>1. /\ \A c \in Copy : queue[c] + retryQ[c] > 0 => queue'[c] + retryQ'[c] > 0
        /\ \A e \in unacked \ {d} : e \in Dlv \ {d}
    BY DEF BrokerTyped
  <2>2. ASSUME LateAck, NEW m \in Msg PROVE Kept(m) => Kept(m)' \/ Decided(m)'
    BY <2>1, <2>2 DEF Kept, Holds, Grows
  <2> QED
    BY <2>2, SafeStays, Zenon DEF Custody
<1>2. Counted' /\ DeadLetterEarned'
  BY CopyTyped, DeliveryAssumption DEF Custody, Counted, DeadLetterEarned, Grows, BrokerTyped
<1>3. ASSUME NEW e \in Dlv \ {d} PROVE Ranked(e)' /\ Due(e)'
  <2>1. Ranked(e) /\ Due(e)
    BY Zenon DEF Custody
  <2> QED
    BY <2>1, DueStays, Zenon DEF Ranked
<1> QED
  BY <1>1, <1>2, <1>3, Zenon DEF Custody

\* An early ack commits to nothing that late ack promises.
LEMMA EarlyAckKeeps ==
    ASSUME BrokerTyped, Shape, Custody, NEW d \in Dlv, EarlyAck(d)
    PROVE  BrokerTyped' /\ Grows /\ Custody'
<1>1. /\ pc[d] = "early" /\ \E to \in {"run", "ended"} : pc' = [pc EXCEPT ![d] = to]
      /\ sent' = IF d \in unacked THEN [sent EXCEPT ![d] = "ack"] ELSE sent
      /\ UNCHANGED <<queue, retryQ, dlq, copy, unacked, res, failures, outcomes, answered, mode>>
  BY Zenon DEF EarlyAck, Step, Send, Starts
<1>2. BrokerTyped' /\ Grows
  BY <1>1, Still, Zenon DEF BrokerTyped, Settling
<1>3. /\ pc'[d] \in {"run", "ended"}
      /\ \A e \in Dlv \ {d} : pc'[e] = pc[e] /\ res'[e] = res[e] /\ sent'[e] = sent[e]
  BY <1>1, Zenon DEF Shape, BrokerTyped
<1>4. Ranked(d) /\ Due(d) /\ ~LateAck
  BY <1>1, Zenon DEF Custody, Due
<1>5. Ranked(d)' /\ Due(d)'
  BY <1>1, <1>2, <1>3, <1>4, DueStays, Zenon DEF Ranked
<1> QED
  BY <1>1, <1>2, <1>3, <1>4, <1>5, GoroutineKeeps, Zenon

\* d.Ack, d.Nack and d.Reject: what is rejected has been decided.
LEMMA SettleKeeps ==
    ASSUME BrokerTyped, Shape, Custody, NEW d \in Dlv, Settle(d)
    PROVE  BrokerTyped' /\ Grows /\ Custody'
<1> DEFINE m == copy[d].m
<1>1. /\ pc[d] \in Settling /\ pc' = [pc EXCEPT ![d] = "ended"] /\ m \in Msg
      /\ sent' = IF d \in unacked THEN [sent EXCEPT ![d] = pc[d]] ELSE sent
      /\ outcomes' = IF pc[d] = "reject" THEN [outcomes EXCEPT ![m] = @ \cup {"rejected"}]
                     ELSE outcomes
      /\ UNCHANGED <<queue, retryQ, dlq, copy, unacked, res, failures, answered, mode>>
  BY CopyTyped, Zenon DEF Settle, Step, Send, Outcome, BrokerTyped
<1>2. BrokerTyped' /\ Grows
  BY <1>1 DEF BrokerTyped, Grows
<1>3. /\ pc'[d] = "ended" /\ pc[d] # "free"
      /\ \A e \in Dlv \ {d} : pc'[e] = pc[e] /\ res'[e] = res[e] /\ sent'[e] = sent[e]
  BY <1>1, Zenon DEF BrokerTyped, Shape, Settling
<1>4. d \in unacked /\ Holds(d) => Holds(d)' \/ Decided(m)'
  <2>1. d \in unacked => sent'[d] = pc[d]
    BY <1>1, Zenon DEF BrokerTyped
  <2>2. pc[d] = "reject" => "rejected" \in outcomes'[m]
    BY <1>1, Zenon DEF BrokerTyped
  <2> QED
    BY <1>1, <1>3, <2>1, <2>2, Zenon DEF Holds, Decided, Settling
<1>5. Ranked(d) /\ Due(d)
  BY Zenon DEF Custody
<1>6. Ranked(d)' /\ Due(d)'
  BY <1>1, <1>2, <1>3, <1>5, DueStays, Zenon DEF Ranked
<1> QED
  BY <1>1, <1>2, <1>3, <1>4, <1>6, GoroutineKeeps, Zenon

\* The end of process. Whether it settles, retries or gives up, what the
\* delivery goes on to do is earned by the handler's result.
LEMMA ConcludeKeeps ==
    ASSUME BrokerTyped, Shape, Custody, NEW d \in Dlv, Conclude(d)
    PROVE  BrokerTyped' /\ Grows /\ Custody'
<1> DEFINE m == copy[d].m
           n == copy[d].n
           Cancels == /\ pc'[d] = IF LateAck THEN "ack" ELSE "ended"
                      /\ outcomes' = [outcomes EXCEPT ![m] = @ \cup {"cancelled"}]
                      /\ failures' = failures
           Leaves == pc'[d] = "ended" /\ outcomes' = outcomes /\ failures' = failures
           Settles == /\ pc'[d] \in FirstSteps(d)
                      /\ outcomes' = IF res[d] = "fail" THEN outcomes
                                     ELSE [outcomes EXCEPT ![m] = @ \cup {res[d]}]
                      /\ failures' = IF res[d] # "fail" \/ failures[m] > MaxRetries THEN failures
                                     ELSE [failures EXCEPT ![m] = @ + 1]
           Spent == \/ res[d] = "handled" /\ "handled" \in outcomes'[m]
                    \/ res[d] = "fail" /\ (HasLadder => failures'[m] = MaxRetries + 1)
           Earns == \/ pc'[d] = "ended"
                    \/ pc'[d] = "ack" /\ LateAck /\ Decided(m)'
                    \/ pc'[d] = "reply" /\ outcomes'[m] # {}
                    \/ pc'[d] = "retry" /\ LateAck /\ n < MaxRetries /\ n < failures'[m]
                    \/ Spent /\ \/ pc'[d] = "errReply" \/ (pc'[d] = "reject" /\ LateAck)
                                \/ (pc'[d] = "dead" /\ LateAck /\ HasLadder)
<1>1. /\ pc[d] = "result" /\ pc' = [pc EXCEPT ![d] = pc'[d]]
      /\ UNCHANGED <<brokerVars, res, answered, mode>>
  BY Zenon DEF Conclude, Step, Shape
<1>2. Cancels \/ Leaves \/ Settles
  BY Zenon DEF Conclude, Step, Outcome, Shape
<1> HIDE DEF Cancels, Leaves, Settles, Spent, Earns
<1>3. /\ m \in Msg /\ n \in 0..(MaxRetries + 1) /\ MaxRetries \in Nat
      /\ Ranked(d) /\ res[d] \in {"ok", "fail", "handled"}
      /\ failures \in [Msg -> 0..(MaxRetries + 1)]
      /\ outcomes \in [Msg -> SUBSET {"ok", "handled", "rejected", "cancelled"}]
  BY CopyTyped, DeliveryAssumption, Zenon DEF BrokerTyped, Custody
<1>4. /\ failures' \in [Msg -> 0..(MaxRetries + 1)] /\ failures[m] <= failures'[m]
      /\ outcomes' \in [Msg -> SUBSET {"ok", "handled", "rejected", "cancelled"}]
      /\ \A k \in Msg : outcomes[k] \subseteq outcomes'[k] /\ failures[k] <= failures'[k]
  BY <1>2, <1>3 DEF Cancels, Leaves, Settles
<1>5. BrokerTyped' /\ Grows
  BY <1>1, <1>4, Zenon DEF BrokerTyped, Grows
<1>6. n <= MaxRetries /\ n <= failures[m] /\ Ranked(d)'
  BY <1>1, <1>3, <1>4 DEF Ranked
<1>7. Earns
  <2>1. CASE Cancels
    <3>1. "cancelled" \in outcomes'[m] /\ pc'[d] = IF LateAck THEN "ack" ELSE "ended"
      BY <1>3, <2>1, Zenon DEF Cancels
    <3> QED
      BY <1>1, <3>1, Zenon DEF Earns, Decided
  <2>2. CASE Settles
    <3>1. /\ res[d] # "fail" => res[d] \in outcomes'[m]
          /\ res[d] = "fail" => failures'[m] > n /\ (n = MaxRetries => failures'[m] = MaxRetries + 1)
          /\ pc'[d] \in FirstSteps(d)
      BY <1>3, <1>6, <2>2 DEF Settles
    <3>2. CASE res[d] = "ok"
      BY <1>1, <3>1, <3>2, Zenon DEF Earns, FirstSteps, Decided, HasReply, Streams
    <3>3. CASE res[d] # "ok"
      <4>1. ~MayRetry(d) => Spent
        BY <1>3, <1>6, <3>1, <3>3 DEF Spent, MayRetry
      <4> QED
        BY <3>1, <3>3, <4>1, Zenon DEF Earns, FirstSteps, MayRetry, AfterErrReply, HasLadder,
           LateAck
    <3> QED
      BY <3>2, <3>3, Zenon
  <2> QED
    BY <1>2, <2>1, <2>2, Zenon DEF Leaves, Earns
<1>8. Due(d)' /\ (Holds(d) => Holds(d)' \/ Decided(m)')
  BY <1>1, <1>7, Zenon DEF Earns, Spent, Due, Settling, LateAck, HasLadder, Holds
<1>9. \A e \in Dlv \ {d} : pc'[e] = pc[e]
  BY <1>1, Zenon DEF Shape
<1> QED
  BY <1>1, <1>5, <1>6, <1>8, <1>9, GoroutineKeeps, Zenon

\* A publish of the settlement ends, stored by the broker or not: only one that
\* is stored lets the delivery be acknowledged.
LEMMA PublishKeeps ==
    ASSUME BrokerTyped, Shape, Custody, NEW d \in Dlv, Published(d) \/ PublishFails(d)
    PROVE  BrokerTyped' /\ Grows /\ Custody'
<1> DEFINE m == copy[d].m
           b == [copy[d] EXCEPT !.n = @ + 1]
           Stored == /\ pc[d] = "retry" => retryQ' = [retryQ EXCEPT ![b] = @ + 1]
                     /\ pc[d] = "dead" => dlq' = dlq \cup {m}
                     /\ pc[d] = "reply" => answered' = answered \cup {m}
           Ends == \/ pc[d] = "errReply" /\ pc'[d] = AfterErrReply(d)
                   \/ /\ pc[d] # "errReply" /\ pc'[d] \in {"ack", "requeue", "ended"}
                      /\ (pc'[d] = "ack" => Stored) /\ (~LateAck => pc'[d] = "ended")
<1>1. /\ pc[d] \in Publishing /\ pc' = [pc EXCEPT ![d] = pc'[d]] /\ Ends
      /\ UNCHANGED <<queue, copy, unacked, sent, res, failures, outcomes, mode>>
      /\ retryQ' = retryQ \/ (pc[d] = "retry" /\ retryQ' = [retryQ EXCEPT ![b] = @ + 1])
      /\ dlq' = dlq \/ (pc[d] = "dead" /\ dlq' = dlq \cup {m})
      /\ answered' = answered \/ answered' = answered \cup {m}
  BY Zenon DEF Published, PublishFails, Step, Stores, Add, Shape
<1> HIDE DEF Stored, Ends
<1>2. /\ copy[d] \in Copy /\ m \in Msg /\ copy[d].n \in 0..(MaxRetries + 1) /\ MaxRetries \in Nat
      /\ Ranked(d) /\ Due(d)
  BY CopyTyped, DeliveryAssumption, Zenon DEF BrokerTyped, Custody
<1>3. pc[d] = "retry" =>
         b \in Copy /\ b.m = m /\ b.n <= MaxRetries /\ b.n <= failures[m] /\ failures[m] \in Nat
  BY <1>2 DEF Copy, Due, BrokerTyped
<1>4. /\ \A c \in Copy : \/ retryQ'[c] = retryQ[c]
                         \/ retryQ'[c] > retryQ[c] /\ c = b /\ pc[d] = "retry"
      /\ BrokerTyped' /\ Grows
  <2>1. /\ retryQ' \in [Copy -> Nat]
        /\ \A c \in Copy : \/ retryQ'[c] = retryQ[c]
                           \/ retryQ'[c] > retryQ[c] /\ c = b /\ pc[d] = "retry"
    BY <1>1, <1>3 DEF BrokerTyped
  <2> QED
    BY <1>1, <1>2, <2>1 DEF BrokerTyped, Grows
<1>5. LateAck /\ pc'[d] = "ack" => Kept(m)' \/ Decided(m)'
  <2> SUFFICES ASSUME LateAck, pc'[d] = "ack" PROVE Kept(m)' \/ Decided(m)'
    BY Zenon
  <2>1. Stored /\ pc[d] \in {"reply", "retry", "dead"}
    BY <1>1, Zenon DEF AfterErrReply, Publishing, Ends
  <2>2. CASE pc[d] = "reply"
    BY <1>1, <1>2, <2>1, <2>2, Zenon DEF Stored, Decided, Due
  <2>3. CASE pc[d] = "retry"
    <3>1. queue'[b] + retryQ'[b] > 0
      BY <1>1, <1>3, <2>1, <2>3 DEF Stored, BrokerTyped
    <3> QED
      BY <1>1, <1>3, <2>3, <3>1, Zenon DEF Kept
  <2>4. CASE pc[d] = "dead"
    BY <1>1, <2>1, <2>4, Zenon DEF Stored, Kept
  <2> QED
    BY <2>1, <2>2, <2>3, <2>4, Zenon
<1>6. /\ \A e \in Dlv \ {d} : pc'[e] = pc[e]
      /\ Holds(d) => Holds(d)' \/ pc'[d] = "ack"
  BY <1>1, Zenon DEF Shape, Holds
<1>7. \A k \in dlq' \ dlq : failures'[k] = MaxRetries + 1 \/ "handled" \in outcomes'[k]
  BY <1>1, <1>2, Zenon DEF Due
<1>8. Ranked(d)'
  BY <1>1, <1>2, Zenon DEF Ranked, Publishing
<1>9. Due(d)'
  BY <1>1, <1>2, Zenon DEF Ends, AfterErrReply, Due, Settling, LateAck, HasLadder
<1> QED
  BY <1>1, <1>3, <1>4, <1>5, <1>6, <1>7, <1>8, <1>9, GoroutineKeeps, Zenon

\* The steps that publish, settle or queue something; all others are quiet.
LEMMA Kinds ==
    ASSUME Shape, res \in [Dlv -> {"ok", "fail", "handled"}], [Next]_vars
    PROVE  \/ Quiet \/ Requeues \/ \E c \in Copy : RetryExpires(c)
           \/ \E d \in Dlv : \/ EarlyAck(d) \/ Conclude(d) \/ Published(d) \/ PublishFails(d)
                             \/ Settle(d) \/ BrokerSettles(d) \/ \E c \in Copy : Deliver(d, c)
<1>1. ASSUME UNCHANGED <<brokerVars, failures, outcomes, answered, mode, runs, pc, res>>
      PROVE  Quiet
  BY <1>1, Zenon DEF Quiet
<1>2. ASSUME NEW d \in Dlv, Receive(d) \/ LetGo(d) PROVE Quiet
  BY <1>2, Zenon DEF Receive, LetGo, Step, Quiet, Slotless, Shape
<1>3. ASSUME NEW d \in Dlv, TakeSlot(d) PROVE Quiet
  BY <1>3, Zenon DEF TakeSlot, Starts, Step, Quiet, Slotless, Shape
<1>4. ASSUME NEW d \in Dlv, TimeoutFires(d) \/ Release(d) PROVE Quiet
  BY <1>4 DEF TimeoutFires, Release, Step, Quiet, Slotless, Shape
<1>5. ASSUME NEW d \in Dlv, HandlerReturns(d) PROVE Quiet
  BY <1>5, DeliveryAssumption DEF HandlerReturns, Step, Quiet, Shape
<1>6. ASSUME NEW d \in Dlv, EnterStream(d) PROVE Quiet
  BY <1>1, <1>6, Zenon DEF EnterStream
<1>7. CASE UNCHANGED vars
  BY <1>1, <1>7, Zenon DEF vars
<1>8. CASE Restore \/ CancelTag \/ Shutdown \/ \E m \in Msg : CallerCancels(m)
  BY <1>1, <1>8, Zenon DEF Restore, CancelTag, Shutdown, CallerCancels
<1>9. CASE Drained \/ CloseAtOnce
  BY <1>1, <1>9, Zenon DEF Drained, CloseAtOnce, idle
<1>10. CASE ClientNotices
  BY <1>10, Zenon DEF ClientNotices, Quiet, Slotless, Shape
<1>11. CASE ChannelDies \/ Crash \/ Closed
  BY <1>11, Zenon DEF ChannelDies, Crash, Closed, Requeues
<1> QED
  BY <1>2, <1>3, <1>4, <1>5, <1>6, <1>7, <1>8, <1>9, <1>10, <1>11, Zenon DEF Next, Goroutine

\* Every step keeps each message in custody.
LEMMA CustodyKeeps ==
    ASSUME Counting, BrokerTyped, Shape, Custody, [Next]_vars
    PROVE  BrokerTyped' /\ Grows /\ Custody'
<1>1. res \in [Dlv -> {"ok", "fail", "handled"}]
  BY Zenon DEF BrokerTyped
<1> QED
  BY <1>1, Kinds, QuietKeeps, RequeuesKeeps, RetryExpiresKeeps, EarlyAckKeeps, ConcludeKeeps,
     PublishKeeps, SettleKeeps, BrokerSettlesKeeps, DeliverKeeps, Zenon

\* The other variables keep their types.
LEMMA RestKeeps == ASSUME BrokerTyped, RestTyped, [Next]_vars PROVE RestTyped'
<1>1. ASSUME NEW d \in Dlv, Starts(d), UNCHANGED chanVars, unheard' \in [Msg -> Nat] PROVE RestTyped'
  <2>1. copy[d].m \in Msg
    BY CopyTyped, Zenon DEF BrokerTyped
  <2> QED
    BY <1>1, <2>1 DEF Starts, RestTyped
<1>9. ASSUME NEW d \in Dlv, NEW how, Send(d, how) PROVE unheard' \in [Msg -> Nat]
  BY <1>9, CopyTyped DEF Send, RestTyped, BrokerTyped
<1>10. ASSUME RequeueUnacked PROVE unheard' \in [Msg -> Nat]
  BY <1>10 DEF RequeueUnacked, RestTyped
<1>2. ASSUME NEW d \in Dlv, Goroutine(d) PROVE RestTyped'
  <2>1. CASE TakeSlot(d)
    BY <1>1, <2>1 DEF TakeSlot, RestTyped
  <2>6. CASE EarlyAck(d)
    BY <1>1, <1>9, <2>6, Zenon DEF EarlyAck, RestTyped
  <2>7. CASE Settle(d)
    BY <1>9, <2>7, Zenon DEF Settle, RestTyped
  <2>2. CASE Receive(d) \/ LetGo(d) \/ EnterStream(d) \/ Release(d)
    BY <2>2 DEF Receive, LetGo, EnterStream, Release, RestTyped
  <2>3. CASE TimeoutFires(d)
    BY <2>3, Zenon DEF TimeoutFires, CancelAll, RestTyped
  <2>4. CASE Conclude(d) \/ Published(d)
    BY <2>4 DEF Conclude, Published, RestTyped
  <2>5. CASE PublishFails(d)
    BY <2>5, DeliveryAssumption DEF PublishFails, Fault, RestTyped
  <2> QED
    BY <1>2, <2>1, <2>2, <2>3, <2>4, <2>5, <2>6, <2>7, Zenon DEF Goroutine
<1>3. ASSUME NEW d \in Dlv, HandlerReturns(d) \/ BrokerSettles(d) \/ \E c \in Copy : Deliver(d, c)
      PROVE  RestTyped'
  BY <1>3 DEF HandlerReturns, BrokerSettles, Deliver, RestTyped
<1>4. ASSUME \/ \E m \in Msg : CallerCancels(m)
             \/ \E c \in Copy : RetryExpires(c)
             \/ UNCHANGED vars
      PROVE  RestTyped'
  BY <1>4 DEF CallerCancels, CancelAll, RetryExpires, vars, RestTyped
<1>5. CASE ChannelDies \/ Crash
  BY <1>5, <1>10, DeliveryAssumption DEF ChannelDies, Crash, Fault, RestTyped
<1>6. CASE ClientNotices \/ Restore \/ CancelTag \/ Closed
  BY <1>6, <1>10 DEF ClientNotices, Working, CancelAll, Restore, CancelTag, Closed, RestTyped
<1>7. CASE Shutdown \/ CloseAtOnce
  BY <1>7, DeliveryAssumption DEF Shutdown, CloseAtOnce, MayStop, StopConsuming, Fault, idle,
     CancelHandlers, CancelAll, RestTyped
<1>8. CASE Drained
  BY <1>8, Zenon DEF Drained, Drain, DrainTimesOut, CancelHandlers, CancelAll, idle, RestTyped
<1> QED
  BY <1>2, <1>3, <1>4, <1>5, <1>6, <1>7, <1>8, Zenon DEF Next

-----------------------------------------------------------------------------
\* Under early ack a message is in one place until its handler runs: its queue,
\* or the delivery whose ack has not been written; and then each run so far is
\* paid for by an ack that was lost.
Paid(m) == runs[m] <= unheard[m]
Waits(c) == c.n = 0 /\ Paid(c.m) /\ \A d \in unacked : copy[d].m # c.m
Alone(d) ==
    /\ copy[d].n = 0 /\ sent[d] \in {"none", "ack"}
    /\ sent[d] = "none" => Paid(copy[d].m)
    /\ pc[d] \in {"buffered", "parked", "early"} => sent[d] = "none"
    /\ \A e \in unacked : copy[d].m = copy[e].m => d = e
Fresh ==
    ~LateAck =>
        /\ \A c \in Copy : retryQ[c] = 0 /\ queue[c] \in {0, 1} /\ (queue[c] = 1 => Waits(c))
        /\ \A d \in unacked : Alone(d)
        /\ \A m \in Msg : runs[m] <= 1 + unheard[m]

\* A delivery that does not go back to its beginning.
LEMMA FreshStays ==
    ASSUME ~LateAck, Fresh, UNCHANGED <<queue, retryQ, copy, unacked, sent, unheard, runs>>,
           \A d \in unacked : pc'[d] \in {"buffered", "parked", "early"} =>
                                  pc[d] \in {"buffered", "parked", "early"}
    PROVE  Fresh'
BY DEF Fresh, Waits, Alone, Paid

\* A message handed out has its runs paid for, and is nowhere else.
LEMMA FreshDeliver ==
    ASSUME ~LateAck, BrokerTyped, Shape, Custody, Fresh, NEW d \in Dlv, NEW c \in Copy, Deliver(d, c)
    PROVE  Fresh'
<1>1. /\ queue[c] > 0 /\ queue' = [queue EXCEPT ![c] = @ - 1] /\ copy' = [copy EXCEPT ![d] = c]
      /\ unacked' = unacked \cup {d} /\ d \notin unacked
      /\ pc' = [pc EXCEPT ![d] = "buffered"] /\ UNCHANGED <<retryQ, sent, unheard, runs>>
  BY Zenon DEF Deliver, Step
<1>2. /\ copy'[d] = c /\ sent[d] = "none"
      /\ \A e \in unacked : copy'[e] = copy[e] /\ pc'[e] = pc[e]
      /\ \A b \in Copy : queue'[b] = IF b = c THEN queue[b] - 1 ELSE queue[b]
  BY <1>1, Zenon DEF Custody, Ranked, BrokerTyped, Shape
<1>3. queue[c] = 1 /\ Waits(c)
  BY <1>1 DEF Fresh
<1>4. ASSUME NEW b \in Copy
      PROVE  retryQ'[b] = 0 /\ queue'[b] \in {0, 1} /\ (queue'[b] = 1 => Waits(b)')
  <2>1. b # c => b.m # c.m \/ b.n # c.n
    BY CopyTyped, Zenon
  <2> QED
    BY <1>1, <1>2, <1>3, <2>1 DEF Fresh, Waits, Paid
<1>5. \A e \in unacked' : Alone(e)'
  BY <1>1, <1>2, <1>3 DEF Fresh, Waits, Alone, Paid
<1> QED
  BY <1>1, <1>4, <1>5, Zenon DEF Fresh

\* The ack is written before the handler starts, and one that fails starts none.
LEMMA FreshEarlyAck ==
    ASSUME ~LateAck, BrokerTyped, RestTyped, Shape, Fresh, NEW d \in Dlv, EarlyAck(d)
    PROVE  Fresh'
<1> DEFINE m == copy[d].m
<1>1. /\ pc[d] = "early" /\ \E to \in {"run", "ended"} : pc' = [pc EXCEPT ![d] = to]
      /\ sent' = IF d \in unacked THEN [sent EXCEPT ![d] = "ack"] ELSE sent
      /\ UNCHANGED <<queue, retryQ, copy, unacked>>
      /\ \/ UNCHANGED <<runs, unheard>>
         \/ d \in unacked /\ runs' = [runs EXCEPT ![m] = @ + 1] /\ unheard' = unheard
         \/ runs' = [runs EXCEPT ![m] = @ + 1] /\ unheard' = [unheard EXCEPT ![m] = @ + 1]
  BY Zenon DEF EarlyAck, Step, Send, Starts
<1>2. /\ d \in unacked => sent[d] = "none" /\ Paid(m) /\ sent'[d] = "ack"
      /\ \A e \in unacked \ {d} : sent'[e] = sent[e] /\ pc'[e] = pc[e] /\ (d \in unacked => copy[e].m # m)
      /\ pc'[d] \in {"run", "ended"} /\ \A e \in unacked : copy[e] \in Copy
  BY <1>1 DEF Fresh, Alone, BrokerTyped, Shape
<1>3. \A k \in Msg : /\ runs'[k] <= 1 + unheard'[k]
                     /\ (Paid(k) => Paid(k)') \/ (k = m /\ d \in unacked)
  BY <1>1, <1>2 DEF Fresh, Paid, RestTyped, BrokerTyped
<1>4. ASSUME NEW c \in Copy, Waits(c) PROVE Waits(c)'
  BY <1>1, <1>3, <1>4, CopyTyped, Zenon DEF Waits
<1>5. ASSUME NEW e \in unacked PROVE Alone(e)'
  BY <1>1, <1>2, <1>3, CopyTyped DEF Fresh, Alone
<1> QED
  BY <1>1, <1>3, <1>4, <1>5, Zenon DEF Fresh

\* What a dead channel held has not been run, or its ack is now lost.
LEMMA FreshRequeues ==
    ASSUME Counting, ~LateAck, BrokerTyped, RestTyped, Fresh, Requeues
    PROVE  Fresh'
<1> DEFINE Back(c) == {d \in unacked : copy[d] = c}
<1>1. /\ queue' = [c \in Copy |-> queue[c] + Cardinality(Back(c))] /\ unacked' = {}
      /\ UNCHANGED <<retryQ, runs>> /\ \A d \in unacked : copy[d] \in Copy
      /\ unheard' = [m \in Msg |-> IF \E d \in unacked : copy[d].m = m /\ sent[d] = "ack"
                                   THEN unheard[m] + 1 ELSE unheard[m]]
  BY Zenon DEF Requeues, RequeueUnacked, BrokerTyped
<1>3. ASSUME NEW m \in Msg
      PROVE  /\ runs'[m] <= 1 + unheard'[m] /\ (Paid(m) => Paid(m)')
             /\ \A d \in unacked : copy[d].m = m => Paid(m)'
  BY <1>1 DEF Fresh, Alone, Paid, BrokerTyped, RestTyped
<1>2. ASSUME NEW c \in Copy
      PROVE  queue'[c] \in {0, 1} /\ (queue'[c] = 1 => Waits(c)')
  <2>1. CASE Back(c) = {}
    <3>1. queue'[c] = queue[c]
      BY <1>1, <2>1 DEF BrokerTyped, Counting
    <3> QED
      BY <1>1, <1>3, <3>1, CopyTyped, Zenon DEF Fresh, Waits
  <2>2. CASE Back(c) # {}
    <3>1. PICK d \in unacked : copy[d] = c /\ Alone(d) /\ Back(c) = {d}
      BY <2>2 DEF Fresh, Alone
    <3>2. Cardinality(Back(c)) = 1
      <4>1. {} \in SUBSET Dlv /\ d \in Dlv \ {} /\ Back(c) = {} \cup {d}
        BY <3>1, Zenon DEF BrokerTyped
      <4> QED
        BY <4>1 DEF Counting
    <3>3. queue[c] = 0 /\ Waits(c)'
      BY <1>1, <1>3, <3>1, CopyTyped, Zenon DEF Fresh, Waits, Alone
    <3> HIDE DEF Back
    <3> QED
      BY <1>1, <3>2, <3>3
  <2> QED
    BY <2>1, <2>2, Zenon
<1> QED
  BY <1>1, <1>2, <1>3, Zenon DEF Fresh

\* No step but the early ack starts a handler under early ack, and no copy is
\* made of a message.
LEMMA FreshKeeps ==
    ASSUME Counting, BrokerTyped, RestTyped, Shape, Custody, Fresh, Grows, [Next]_vars
    PROVE  Fresh'
<1> SUFFICES ASSUME ~LateAck PROVE Fresh'
  BY Zenon DEF Fresh, LateAck, Grows
<1>1. /\ unacked \subseteq Dlv /\ res \in [Dlv -> {"ok", "fail", "handled"}]
      /\ \A d \in Dlv : pc[d] \notin Settling \cup {"retry", "dead"}
  BY Zenon DEF BrokerTyped, Custody, Due
<1>2. CASE Quiet
  BY <1>1, <1>2, FreshStays, Zenon DEF Quiet
<1>3. CASE \E c \in Copy : RetryExpires(c)
  BY <1>3 DEF RetryExpires, Fresh
<1>4. ASSUME NEW d \in Dlv, Conclude(d) \/ Published(d) \/ PublishFails(d) PROVE Fresh'
  <2>1. UNCHANGED <<queue, retryQ, copy, unacked, sent, unheard, runs>>
    BY <1>1, <1>4, Zenon DEF Conclude, Published, PublishFails, Stores
  <2>2. pc' = [pc EXCEPT ![d] = pc'[d]] /\ pc'[d] \notin {"buffered", "parked", "early"}
    BY <1>4, Zenon DEF Conclude, Published, PublishFails, FirstSteps, AfterErrReply, Step, Shape
  <2> QED
    BY <1>1, <2>1, <2>2, FreshStays, Zenon DEF Shape
<1>5. ASSUME NEW d \in Dlv, Settle(d) PROVE Fresh'
  BY <1>1, <1>5, Zenon DEF Settle, Step
<1>6. ASSUME NEW d \in Dlv, BrokerSettles(d) PROVE Fresh'
  <2>1. /\ unacked' = unacked \ {d} /\ queue' = queue
        /\ \A e \in unacked' : sent'[e] = sent[e]
        /\ UNCHANGED <<retryQ, copy, pc, unheard, runs>>
    BY <1>6 DEF BrokerSettles, Fresh, Alone, BrokerTyped
  <2> QED
    BY <2>1 DEF Fresh, Waits, Alone, Paid
<1> QED
  BY <1>1, <1>2, <1>3, <1>4, <1>5, <1>6, Kinds, FreshRequeues, FreshEarlyAck, FreshDeliver,
     Zenon

-----------------------------------------------------------------------------
\* The slots, the custody of the messages and the types, which hold together.
DInv == IInv /\ BrokerTyped /\ RestTyped /\ Custody

\* No step of the program leaves the invariant.
LEMMA NextDInv == ASSUME Counting, DInv, [Next]_vars PROVE DInv' /\ Grows
BY NextIInv, CustodyKeeps, RestKeeps, Zenon DEF DInv, IInv

\* The running handlers are among the slots taken.
LEMMA SlotsSuffice == ASSUME Counting, IInv PROVE HandlersBounded
<1>1. busy \subseteq SlotsTaken /\ SlotsTaken \in SUBSET Dlv /\ Cardinality(SlotsTaken) <= Concurrency
  BY Zenon DEF IInv, SlotsHeld, SlotsTaken
<1>2. Cardinality(busy) \in Nat /\ Cardinality(busy) <= Cardinality(SlotsTaken)
  BY <1>1, Zenon DEF Counting
<1> QED
  BY <1>1, <1>2, SlotsCounted, DeliveryAssumption DEF HandlersBounded

\* A message that is gone is not kept, so it has been decided.
LEMMA CustodySuffices == ASSUME DInv PROVE LeavesByDecision
<1>1. TypeOK
  BY Zenon DEF DInv, IInv, TypeOK, Shape, BrokerTyped, RestTyped, Custody, Counted, Places,
     Slotless,
     Unfinished
<1>2. ASSUME NEW m \in Msg, Gone(m) PROVE ~Kept(m)
  BY <1>2, CopyTyped DEF Gone, Unsettled, Queued, Kept
<1>3. NeverLost /\ AnsweredBeforeGone /\ DeadLetterEarned
  BY <1>2, DeliveryAssumption, Zenon DEF DInv, Custody, Safe, Decided, NeverLost,
     AnsweredBeforeGone, HasReply
<1> QED
  BY <1>1, <1>3, Zenon DEF LeavesByDecision

\* A new consumer has run nothing.
LEMMA InitFresh == ASSUME Init PROVE Fresh
BY CopyTyped DEF Init, Fresh, Waits, Paid

-----------------------------------------------------------------------------
INSTANCE FiniteSetTheorems

\* The delivery tags are finitely many.
LEMMA Counts == Counting
<1>1. \A S \in SUBSET Dlv : IsFiniteSet(S)
  BY DeliveryAssumption, FS_Subset, Zenon
<1>2. \A S \in SUBSET Dlv : Cardinality(S) \in Nat /\ (Cardinality(S) = 0 => S = {})
  BY <1>1, FS_CardinalityType, FS_EmptySet, Zenon
<1>3. \A S \in SUBSET Dlv : \A T \in SUBSET S : Cardinality(T) <= Cardinality(S)
  BY <1>1, FS_Subset, Zenon
<1>4. \A S \in SUBSET Dlv : \A d \in Dlv \ S : Cardinality(S \cup {d}) = Cardinality(S) + 1
  BY <1>1, FS_AddElement, Zenon
<1> QED
  BY <1>2, <1>3, <1>4, FS_EmptySet, Zenon DEF Counting

\* The invariant holds throughout.
LEMMA Invariance == Spec => []DInv
<1>1. Init => DInv
  BY Counts, InitIInv, InitCustody, Zenon DEF DInv
<1>2. DInv /\ [Next]_vars => DInv'
  BY Counts, NextDInv, Zenon
<1> QED
  BY <1>1, <1>2, PTL DEF Spec

\* The handlers running at once, those the processing timeout abandoned and
\* those of dead channels included, never outnumber the slots (consumer.go:302-315).
THEOREM BoundedHandlers == Spec => []HandlersBounded
<1>1. DInv => HandlersBounded
  BY Counts, SlotsSuffice, Zenon DEF DInv
<1> QED
  BY <1>1, Invariance, PTL

\* No registration in the cancel registry outlives its delivery, however the
\* handler's entry into its stream and the timeout interleave (consumer.go:36-78).
THEOREM RegistryExact == Spec => []RegistrationsEnd
<1>1. DInv => RegistrationsEnd
  BY Zenon DEF DInv, IInv, SlotsHeld, SlotsTaken, RegistrationsEnd, InProcess
<1> QED
  BY <1>1, Invariance, PTL

\* A drain that reports success has finished all that was received before
\* intake stopped, handlers that were abandoned included (bus.go:186-193).
THEOREM DrainedIsDone == Spec => []DrainCompletes
<1>1. DInv => DrainCompletes
  BY Zenon DEF DInv, IInv, Draining, DrainCompletes
<1> QED
  BY <1>1, Invariance, PTL

\* Under late ack no message is lost and no request left without its answer,
\* through crashes, lost acks, dead channels and failed publishes; and no
\* message is dead-lettered before its last retry failed or its handler refused
\* it (consumer.go:549-590).
THEOREM NothingLost == Spec => []LeavesByDecision
<1>1. DInv => LeavesByDecision
  BY CustodySuffices, Zenon
<1> QED
  BY <1>1, Invariance, PTL

\* Under early ack a message is run once, and once more for each ack that was
\* written for it without an error and never reached the broker: whatever
\* crashes, nothing else makes process run it again (consumer.go:448-459).
THEOREM RunsArePaid == Spec => []RerunsPaid
<1>1. Init => Fresh
  BY InitFresh, Zenon
<1>2. DInv /\ Fresh /\ [Next]_vars => Fresh'
  BY Counts, NextDInv, FreshKeeps, Zenon DEF DInv, IInv
<1>3. Fresh => RerunsPaid
  BY Zenon DEF Fresh, RerunsPaid
<1> QED
  BY <1>1, <1>2, <1>3, Invariance, PTL DEF Spec
=============================================================================
