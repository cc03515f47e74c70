-------------------------- MODULE PubChannelProofs --------------------------
(***************************************************************************)
(* Proofs about PubChannel, for any finite set of publications, any        *)
(* identities, routing and number of confirm slots.                        *)
(***************************************************************************)
EXTENDS PubChannel, FiniteSetTheorems, TLAPS

Early == {"idle", "admit", "handoff"}
Unsent(p) == fate[p] = "none" /\ \A i \in DOMAIN wire : wire[i] # p
InHand(p) == pendingTag[p] # 0 \/ p \in doomed \/ p = cur

\* The writer holds a publication exactly while it works on one.
WriterHolds == cur \in Pub <=> writer \in {"vet", "register", "write", "stamp"}

\* Whatever the writer, the pending map or shutdown may still settle has been
\* handed over, and holds a slot unless it is settled already.
Tracked ==
    \A p \in Pub :
        /\ call[p] \in Early => settled[p] = "no"
        /\ InHand(p) => \/ call[p] \in {"decide", "await"} \cup GaveUp
                        \/ settled[p] # "no" /\ call[p] \notin Early

\* Nothing is written before the write, nor once "nothing was sent" is decided.
Unwritten ==
    /\ writer \in {"vet", "register", "write"} => Unsent(cur)
    /\ \A p \in Pub : call[p] \in Early \cup NotSent \/ settled[p] \in NotSent =>
           Unsent(p) /\ p # cur

IInv == TypeOK /\ WriterHolds /\ Tracked /\ SlotAccounting /\ Unwritten

-----------------------------------------------------------------------------
USE DEF callVars, slotVars, ppVars, loopVars, writerVars, chanVars, brokerVars, inVars,
        MaxOutstandingConfirms

\* The publications holding a slot of p.slots can be counted.
LEMMA HeldFinite == IsFiniteSet(Held) /\ Cardinality(Held) \in Nat
BY PubAssumption, FS_Subset, FS_CardinalityType, Zenon DEF Held

\* Settling a publication that is in hand keeps the count of slots exact.
LEMMA SettleKeepsCount ==
    ASSUME TypeOK, SlotAccounting, NEW p \in Pub, NEW outcome,
           Settle(p, outcome), settled[p] = "no" => p \in Held,
           Held' = Held \ {p}
    PROVE  SlotAccounting' /\ slots' \in 0..MaxOutstandingConfirms
<1>1. CASE settled[p] = "no"
  <2>1. p \in Held /\ slots' = slots - 1
    BY <1>1, Zenon DEF Settle
  <2>2. Cardinality(Held \ {p}) = Cardinality(Held) - 1
    BY <2>1, HeldFinite, FS_RemoveElement, Zenon
  <2>3. IsFiniteSet(Held \ {p}) /\ Cardinality(Held \ {p}) \in Nat
    BY HeldFinite, FS_Subset, FS_CardinalityType, Zenon
  <2> QED
    BY <2>1, <2>2, <2>3, HeldFinite, PubAssumption DEF SlotAccounting, TypeOK
<1>2. CASE settled[p] # "no"
  <2>1. Held \ {p} = Held
    BY <1>2, Zenon DEF Held
  <2> QED
    BY <1>2, <2>1, ZenonT(60) DEF Settle, SlotAccounting, TypeOK
<1> QED
  BY <1>1, <1>2, Zenon

\* A channel fresh from newPubChannel satisfies the invariant.
THEOREM InitIInv == Init => IInv
<1> SUFFICES ASSUME Init PROVE IInv
  BY Zenon
<1>1. TypeOK
  <2>1. /\ wire \in Seq(Pub) /\ net \in Seq(Confirm \cup Return)
        /\ slots \in 0..MaxOutstandingConfirms /\ bound \subseteq Dests
    BY PubAssumption DEF Init, Dests
  <2> QED
    BY <2>1, ZenonT(60) DEF Init, TypeOK, Waiting
<1>2. WriterHolds /\ Tracked
  BY PubAssumption, Zenon DEF Init, WriterHolds, Tracked, InHand, Early
<1>3. Unwritten
  BY PubAssumption DEF Init, Unwritten, Unsent
<1>4. SlotAccounting
  <2>1. Held = {}
    BY Zenon DEF Init, Held, GaveUp
  <2> QED
    BY <2>1, FS_EmptySet, Zenon DEF Init, SlotAccounting
<1> QED
  BY <1>1, <1>2, <1>3, <1>4, Zenon DEF IInv

\* No select of publish (pubchan.go:306-385) breaks the invariant, whichever
\* of its cases it takes.
LEMMA CallerStep ==
    ASSUME IInv, NEW p \in Pub, CallerNext(p)
    PROVE  IInv'
<1> USE DEF IInv
<1>1. CASE PublishStart(p)
  <2>1. TypeOK'
    BY <1>1 DEF PublishStart, Goto, TypeOK, Waiting, NotSent
  <2>2. WriterHolds' /\ Tracked'
    BY <1>1 DEF PublishStart, Goto, TypeOK, WriterHolds, Tracked, InHand, Early, GaveUp
  <2>3. Unwritten'
    BY <1>1, Zenon DEF PublishStart, Goto, TypeOK, Unwritten, Unsent, Early, NotSent
  <2>4. SlotAccounting'
    BY <1>1, ZenonT(60) DEF PublishStart, Goto, TypeOK, SlotAccounting, Held, GaveUp
  <2> QED
    BY <2>1, <2>2, <2>3, <2>4, Zenon
<1>2. CASE TakeSlot(p)
  <2>1. TypeOK'
    BY <1>2, PubAssumption DEF TakeSlot, Goto, TypeOK, Waiting
  <2>2. WriterHolds' /\ Tracked'
    BY <1>2 DEF TakeSlot, Goto, TypeOK, WriterHolds, Tracked, InHand, Early, GaveUp
  <2>3. Unwritten'
    BY <1>2, Zenon DEF TakeSlot, Goto, TypeOK, Unwritten, Unsent, Early, NotSent
  <2>4. SlotAccounting'
    <3>1. Held' = Held \cup {p} /\ p \notin Held
      BY <1>2 DEF TakeSlot, Goto, TypeOK, Tracked, Early, Held, GaveUp
    <3>2. Cardinality(Held') = Cardinality(Held) + 1
      BY <3>1, HeldFinite, FS_AddElement, Zenon
    <3> QED
      BY <1>2, <3>2, Zenon DEF TakeSlot, SlotAccounting
  <2> QED
    BY <2>1, <2>2, <2>3, <2>4, Zenon
<1>3. CASE GiveUpAdmission(p)
  <2>1. TypeOK'
    BY <1>3, ZenonT(60) DEF GiveUpAdmission, Goto, RetireIfWedged, TypeOK, NotSent
  <2>2. WriterHolds' /\ Tracked'
    BY <1>3, ZenonT(60) DEF GiveUpAdmission, Goto, RetireIfWedged, TypeOK, WriterHolds,
       Tracked, InHand, Early, GaveUp, NotSent
  <2>3. Unwritten'
    BY <1>3 DEF GiveUpAdmission, Goto, RetireIfWedged, TypeOK, Unwritten, Unsent, Early,
       NotSent, Waiting
  <2>4. SlotAccounting'
    BY <1>3, ZenonT(60) DEF GiveUpAdmission, Goto, TypeOK, SlotAccounting, Held, GaveUp
  <2> QED
    BY <2>1, <2>2, <2>3, <2>4, Zenon
<1>4. CASE HandToWriter(p)
  <2>1. TypeOK'
    BY <1>4, Zenon DEF HandToWriter, Goto, TypeOK, Waiting
  <2>2. WriterHolds' /\ Tracked'
    BY <1>4, Zenon DEF HandToWriter, Goto, TypeOK, WriterHolds, Tracked, InHand, Early, GaveUp
  <2>3. Unwritten'
    BY <1>4 DEF HandToWriter, Goto, TypeOK, Tracked, Unwritten, Unsent, Early, NotSent
  <2>4. SlotAccounting'
    BY <1>4, ZenonT(60) DEF HandToWriter, Goto, TypeOK, SlotAccounting, Held, GaveUp
  <2> QED
    BY <2>1, <2>2, <2>3, <2>4, Zenon
<1>5. CASE GiveUpHandoff(p)
  <2> PICK r \in {"errChannelGone", "ctxErr", "errPublishStalled"} :
             /\ Settle(p, r) /\ Goto(p, r)
             /\ IF r = "errPublishStalled" THEN RetireIfWedged ELSE UNCHANGED chanVars
    BY <1>5, Zenon DEF GiveUpHandoff
  <2>1. /\ call[p] = "handoff" /\ settled[p] = "no"
        /\ UNCHANGED <<ppVars, loopVars, writerVars, brokerVars, inVars>>
    BY <1>5, Zenon DEF GiveUpHandoff, Tracked, Early
  <2>2. SlotAccounting' /\ slots' \in 0..MaxOutstandingConfirms
    <3>1. Held' = Held \ {p}
      BY <2>1, Zenon DEF Settle, Goto, TypeOK, Held, GaveUp
    <3>2. p \in Held
      BY <2>1, Zenon DEF Held
    <3> QED
      BY <3>1, <3>2, SettleKeepsCount, Zenon
  <2>3. TypeOK'
    BY <2>1, <2>2, ZenonT(60) DEF Settle, Goto, RetireIfWedged, TypeOK, NotSent
  <2>4. WriterHolds' /\ Tracked'
    BY <2>1 DEF Settle, Goto, TypeOK, WriterHolds, Tracked, InHand, Early, GaveUp
  <2>5. Unwritten'
    BY <2>1 DEF Settle, Goto, TypeOK, Unwritten, Unsent, Early, NotSent
  <2> QED
    BY <2>2, <2>3, <2>4, <2>5, Zenon
<1>6. CASE SeeCommit(p)
  <2>1. TypeOK'
    BY <1>6 DEF SeeCommit, Goto, TypeOK, Waiting
  <2>2. WriterHolds' /\ Tracked'
    BY <1>6 DEF SeeCommit, Goto, TypeOK, WriterHolds, Tracked, InHand, Early, GaveUp
  <2>3. Unwritten'
    BY <1>6, Zenon DEF SeeCommit, Goto, TypeOK, Unwritten, Unsent, Early, NotSent
  <2>4. SlotAccounting'
    BY <1>6, ZenonT(60) DEF SeeCommit, Goto, TypeOK, SlotAccounting, Held, GaveUp
  <2> QED
    BY <2>1, <2>2, <2>3, <2>4, Zenon
<1>7. CASE SeeOutcome(p)
  <2>1. TypeOK'
    BY <1>7 DEF SeeOutcome, Goto, TypeOK, Waiting
  <2>2. WriterHolds' /\ Tracked'
    BY <1>7, ZenonT(60) DEF SeeOutcome, Goto, TypeOK, WriterHolds, Tracked, InHand, Early,
       GaveUp, NotSent, Verdict
  <2>3. Unwritten'
    BY <1>7, ZenonT(60) DEF SeeOutcome, Goto, TypeOK, Unwritten, Unsent, Early, NotSent, Verdict
  <2>4. SlotAccounting'
    BY <1>7, ZenonT(60) DEF SeeOutcome, Goto, TypeOK, SlotAccounting, Held, GaveUp
  <2> QED
    BY <2>1, <2>2, <2>3, <2>4, Zenon
<1>8. CASE StopWaiting(p)
  <2>1. TypeOK'
    BY <1>8, ZenonT(60) DEF StopWaiting, Goto, TypeOK, GaveUp
  <2>2. WriterHolds' /\ Tracked'
    <3>1. UNCHANGED <<pendingTag, doomed, cur, writer, settled>>
      BY <1>8, Zenon DEF StopWaiting
    <3>2. call'[p] \in GaveUp /\ \A q \in Pub \ {p} : call'[q] = call[q]
      BY <1>8, Zenon DEF StopWaiting, Goto, TypeOK, GaveUp
    <3>3. GaveUp \cap Early = {}
      BY Zenon DEF GaveUp, Early
    <3>4. WriterHolds'
      BY <3>1, Zenon DEF WriterHolds
    <3>5. Tracked'
      BY <3>1, <3>2, <3>3, Zenon DEF Tracked, InHand
    <3> QED
      BY <3>4, <3>5, Zenon
  <2>3. Unwritten'
    BY <1>8 DEF StopWaiting, Goto, TypeOK, Unwritten, Unsent, Early, NotSent, GaveUp
  <2>4. SlotAccounting'
    BY <1>8, ZenonT(60) DEF StopWaiting, Goto, TypeOK, SlotAccounting, Held, GaveUp
  <2> QED
    BY <2>1, <2>2, <2>3, <2>4, Zenon
<1> QED
  BY <1>1, <1>2, <1>3, <1>4, <1>5, <1>6, <1>7, <1>8 DEF CallerNext

\* The steps that touch neither a call, a settlement, the writer's hands nor a
\* frame, and put nothing new in hand.
LEMMA FrameStep ==
    ASSUME IInv, TypeOK', UNCHANGED <<call, settled, slots, writer, cur, wire, fate>>,
           \A p \in Pub : InHand(p)' => InHand(p)
    PROVE  IInv'
<1>1. WriterHolds' /\ Tracked'
  BY Zenon DEF IInv, WriterHolds, Tracked
<1>2. Unwritten'
  BY Zenon DEF IInv, Unwritten, Unsent
<1>3. SlotAccounting'
  BY Zenon DEF IInv, SlotAccounting, Held
<1> QED
  BY <1>1, <1>2, <1>3, Zenon DEF IInv

\* Closing, dying, the passing of time, bindings that change and amqp091's
\* reader leave the invariant alone.
LEMMA EnvironmentStep ==
    ASSUME IInv,
           \/ \E p \in Pub : CancelContext(p) \/ TimePasses(p)
           \/ \E d \in Dests \cap Volatile : Rebind(d)
           \/ OwnerCloses \/ ChannelDies \/ ReaderDelivers \/ BrokerConfirms
    PROVE  IInv'
<1>1. UNCHANGED <<call, settled, slots, writer, cur, wire, fate, pendingTag, doomed>>
  BY Zenon DEF CancelContext, TimePasses, Rebind, OwnerCloses, ChannelDies, ReaderDelivers,
         BrokerConfirms
<1>2. TypeOK'
  <2>1. CASE \E p \in Pub : CancelContext(p) \/ TimePasses(p)
    <3>1. CASE \E p \in Pub : CancelContext(p)
      BY <3>1, SMTT(30) DEF IInv, TypeOK, CancelContext
    <3>2. CASE \E p \in Pub : TimePasses(p)
      BY <3>2 DEF IInv, TypeOK, TimePasses
    <3> QED
      BY <2>1, <3>1, <3>2, Zenon
  <2>2. CASE \E d \in Dests \cap Volatile : Rebind(d)
    BY <2>2 DEF IInv, TypeOK, Rebind
  <2>3. CASE OwnerCloses
    BY <2>3, Zenon DEF IInv, TypeOK, OwnerCloses
  <2>6. CASE ChannelDies
    <3>1. net' \in Seq(Confirm \cup Return)
      BY <2>6 DEF ChannelDies
    <3> QED
      BY <2>6, <3>1, ZenonT(60) DEF IInv, TypeOK, ChannelDies
  <2>4. CASE ReaderDelivers
    <3>1. Head(net) \in Confirm /\ Tail(net) \in Seq(Confirm \cup Return)
      BY <2>4 DEF IInv, TypeOK, ReaderDelivers, ReaderHasConfirm, Confirm, Return
    <3> QED
      BY <2>4, <3>1 DEF IInv, TypeOK, ReaderDelivers
  <2>5. CASE BrokerConfirms
    <3> PICK p \in owed :
          /\ owed' = owed \ {p}
          /\ net' = Append(net, [kind |-> "confirm", tag |-> brokerTag[p],
                                 ack |-> fate[p] # "nacked"])
      BY <2>5, Zenon DEF BrokerConfirms
    <3>1. net' \in Seq(Confirm \cup Return)
      BY DEF IInv, TypeOK, Confirm
    <3> QED
      BY <2>5, <3>1, Zenon DEF IInv, TypeOK, BrokerConfirms
  <2> QED
    BY <2>1, <2>2, <2>3, <2>4, <2>5, <2>6, Zenon
<1> QED
  BY <1>1, <1>2, FrameStep, Zenon DEF InHand

\* The broker taking a frame off the socket only moves it to the broker's side.
LEMMA BrokerTakesStep == IInv /\ BrokerTakes => IInv'
<1> SUFFICES ASSUME IInv, BrokerTakes PROVE IInv'
  BY Zenon
<1> DEFINE p == Head(wire)
<1>1. p \in Pub /\ ~Unsent(p) /\ Tail(wire) \in Seq(Pub)
  BY SMTT(30) DEF IInv, TypeOK, BrokerTakes, Unsent
<1>2. TypeOK'
  <2>1. net' \in Seq(Confirm \cup Return)
    <3>1. [kind |-> "return", dest |-> Ident[p]] \in Return
      BY <1>1, Zenon DEF Return, Dests
    <3> QED
      BY <3>1 DEF IInv, TypeOK, BrokerTakes
  <2>2. fate' \in [Pub -> {"none", "routed", "unrouted", "nacked"}]
    BY <1>1, Zenon DEF IInv, TypeOK, BrokerTakes
  <2>3. brokerTag' \in [Pub -> Nat] /\ owed' \subseteq Pub /\ brokerSeq' \in Nat
    BY <1>1, SMTT(30) DEF IInv, TypeOK, BrokerTakes
  <2> QED
    BY <1>1, <2>1, <2>2, <2>3, SMTT(30) DEF IInv, TypeOK, BrokerTakes
<1>3. WriterHolds' /\ Tracked'
  BY Zenon DEF IInv, BrokerTakes, WriterHolds, Tracked, InHand
<1>4. \A q \in Pub : Unsent(q) => Unsent(q)'
  <2> SUFFICES ASSUME NEW q \in Pub, Unsent(q) PROVE Unsent(q)'
    BY Zenon
  <2>1. fate'[q] = fate[q]
    BY <1>1, Zenon DEF IInv, TypeOK, BrokerTakes
  <2>2. \A i \in DOMAIN wire' : wire'[i] = wire[i + 1] /\ i + 1 \in DOMAIN wire
    BY SMTT(30) DEF IInv, TypeOK, BrokerTakes
  <2> QED
    BY <2>1, <2>2, Zenon DEF Unsent
<1>5. Unwritten'
  BY <1>4, Zenon DEF IInv, TypeOK, BrokerTakes, Unwritten, WriterHolds
<1>6. SlotAccounting'
  BY Zenon DEF IInv, BrokerTakes, SlotAccounting, Held
<1> QED
  BY <1>2, <1>3, <1>5, <1>6, Zenon DEF IInv

SettledOnly(p, outcome) ==
    \A q \in Pub : \/ settled'[q] = settled[q]
                   \/ q = p /\ settled[q] = "no" /\ settled'[q] = outcome

\* A settlement by the writer or the loop: the call stays where it is.
LEMMA SettleStep ==
    ASSUME IInv, NEW p \in Pub, InHand(p), NEW outcome \in NotSent \cup Verdict,
           Settle(p, outcome), UNCHANGED call
    PROVE  /\ SlotAccounting' /\ slots' \in 0..MaxOutstandingConfirms
           /\ settled' \in [Pub -> {"no"} \cup NotSent \cup Verdict]
           /\ SettledOnly(p, outcome)
<1>1. outcome # "no"
  BY Zenon DEF NotSent, Verdict
<1>2. settled[p] = "no" => p \in Held
  BY Zenon DEF IInv, Tracked, Held
<1>3. Held' = Held \ {p}
  BY <1>1, Zenon DEF IInv, TypeOK, Settle, Held
<1>4. SlotAccounting' /\ slots' \in 0..MaxOutstandingConfirms
  BY <1>2, <1>3, SettleKeepsCount, Zenon DEF IInv
<1>5. settled' \in [Pub -> {"no"} \cup NotSent \cup Verdict]
  BY ZenonT(60) DEF IInv, TypeOK, Settle
<1>6. SettledOnly(p, outcome)
  BY Zenon DEF IInv, TypeOK, Settle, SettledOnly
<1> QED
  BY <1>4, <1>5, <1>6, Zenon

\* The writer (pubchan.go:226-277) settles only what it holds, and once.
LEMMA WriterStep == IInv /\ WriterNext => IInv'
<1> SUFFICES ASSUME IInv, WriterNext PROVE IInv'
  BY Zenon
<1> USE DEF IInv
<1>1. CASE WriterVet
  <2>1. cur \in Pub /\ InHand(cur) /\ Unsent(cur)
    BY <1>1, Zenon DEF WriterVet, WriterHolds, InHand, Unwritten
  <2>2. CASE \E r \in {"ctxErr", "errChannelGone"} : Settle(cur, r) /\ Idle
    <3> PICK r \in {"ctxErr", "errChannelGone"} : Settle(cur, r) /\ Idle
      BY <2>2, Zenon
    <3>1. /\ SlotAccounting' /\ slots' \in 0..MaxOutstandingConfirms
          /\ settled' \in [Pub -> {"no"} \cup NotSent \cup Verdict]
          /\ SettledOnly(cur, r)
      BY <1>1, <2>1, SettleStep, Zenon DEF WriterVet, NotSent
    <3>2. TypeOK'
      BY <1>1, <3>1, Zenon DEF WriterVet, Idle, TypeOK
    <3>3. WriterHolds' /\ Tracked'
      BY <1>1, <2>1, <3>1, PubAssumption, SMTT(30) DEF SettledOnly, WriterVet, Idle,
         WriterHolds, Tracked, InHand, TypeOK, GaveUp, Early
    <3>4. Unwritten'
      BY <1>1, <2>1, <3>1, PubAssumption DEF SettledOnly, WriterVet, Idle, Unwritten, Unsent,
         TypeOK
    <3> QED
      BY <3>1, <3>2, <3>3, <3>4, Zenon
  <2>3. CASE writer' = "register" /\ UNCHANGED <<cur, slotVars>>
    <3>1. TypeOK'
      BY <1>1, <2>3, Zenon DEF WriterVet, TypeOK
    <3>2. WriterHolds' /\ Tracked'
      BY <1>1, <2>3, Zenon DEF WriterVet, WriterHolds, Tracked, InHand
    <3>3. Unwritten' /\ SlotAccounting'
      BY <1>1, <2>3, Zenon DEF WriterVet, Unwritten, Unsent, SlotAccounting, Held
    <3> QED
      BY <3>1, <3>2, <3>3, Zenon
  <2> QED
    BY <1>1, <2>2, <2>3, Zenon DEF WriterVet
<1>2. CASE WriterRegister
  <2>1. cur \in Pub
    BY <1>2, Zenon DEF WriterRegister, WriterHolds
  <2>2. TypeOK'
    BY <1>2, <2>1, SMTT(30) DEF WriterRegister, TypeOK
  <2>3. WriterHolds' /\ Tracked'
    BY <1>2, <2>1, Zenon DEF WriterRegister, WriterHolds, Tracked, InHand, TypeOK
  <2>4. Unwritten' /\ SlotAccounting'
    BY <1>2, Zenon DEF WriterRegister, Unwritten, Unsent, SlotAccounting, Held
  <2> QED
    BY <2>2, <2>3, <2>4, Zenon
<1>3. CASE WriterWrites
  <2>1. cur \in Pub
    BY <1>3, Zenon DEF WriterWrites, WriterHolds
  <2>2. TypeOK'
    BY <1>3, <2>1, SMTT(30) DEF WriterWrites, TypeOK
  <2>3. WriterHolds' /\ Tracked'
    BY <1>3, ZenonT(60) DEF WriterWrites, WriterHolds, Tracked, InHand
  <2>4. \A q \in Pub : q # cur /\ Unsent(q) => Unsent(q)'
    <3>1. \A i \in DOMAIN wire' : wire'[i] = IF i \in DOMAIN wire THEN wire[i] ELSE cur
      BY <1>3, <2>1, SMTT(30) DEF WriterWrites, TypeOK
    <3> QED
      BY <1>3, <3>1, Zenon DEF WriterWrites, Unsent
  <2>5. Unwritten' /\ SlotAccounting'
    BY <1>3, <2>4, Zenon DEF WriterWrites, Unwritten, SlotAccounting, Held
  <2> QED
    BY <2>2, <2>3, <2>5, Zenon
<1>4. CASE WriterFails
  <2>1. cur \in Pub /\ InHand(cur) /\ Unsent(cur)
    BY <1>4, Zenon DEF WriterFails, WriterHolds, InHand, Unwritten
  <2> DEFINE r == IF alive THEN "writeErr" ELSE "errChannelGone"
  <2>2. /\ SlotAccounting' /\ slots' \in 0..MaxOutstandingConfirms
        /\ settled' \in [Pub -> {"no"} \cup NotSent \cup Verdict]
        /\ SettledOnly(cur, r)
    BY <1>4, <2>1, SettleStep, Zenon DEF WriterFails, NotSent
  <2>3. TypeOK'
    BY <1>4, <2>2, ZenonT(60) DEF WriterFails, Idle, TypeOK
  <2>4. WriterHolds' /\ Tracked'
    BY <1>4, <2>1, <2>2, PubAssumption DEF SettledOnly, WriterFails, Idle, WriterHolds,
       Tracked, InHand, TypeOK, GaveUp, Early
  <2>5. Unwritten'
    BY <1>4, <2>1, <2>2, PubAssumption, ZenonT(60) DEF SettledOnly, WriterFails, Idle,
       Unwritten, Unsent, TypeOK
  <2> QED
    BY <2>2, <2>3, <2>4, <2>5, Zenon
<1>5. CASE WriterStamps
  <2>1. TypeOK'
    BY <1>5, ZenonT(60) DEF WriterStamps, Idle, TypeOK
  <2>2. WriterHolds' /\ Tracked'
    BY <1>5, PubAssumption, ZenonT(60) DEF WriterStamps, Idle, WriterHolds, Tracked, InHand
  <2>3. Unwritten' /\ SlotAccounting'
    BY <1>5, PubAssumption, Zenon DEF WriterStamps, Idle, Unwritten, Unsent, SlotAccounting,
       Held
  <2> QED
    BY <2>1, <2>2, <2>3, Zenon
<1>6. CASE WriterExits
  <2>1. TypeOK' /\ WriterHolds' /\ Tracked'
    BY <1>6, Zenon DEF WriterExits, TypeOK, WriterHolds, Tracked, InHand
  <2>2. Unwritten' /\ SlotAccounting'
    BY <1>6, ZenonT(60) DEF WriterExits, Unwritten, Unsent, SlotAccounting, Held
  <2> QED
    BY <2>1, <2>2, Zenon
<1> QED
  BY <1>1, <1>2, <1>3, <1>4, <1>5, <1>6, Zenon DEF WriterNext

\* The confirm loop (pubchan.go:118-223) settles only what is pending or was
\* taken from pending at the shutdown.
LEMMA LoopStep == IInv /\ LoopNext => IInv'
<1> SUFFICES ASSUME IInv, LoopNext PROVE IInv'
  BY Zenon
<1> USE DEF IInv
<1>1. CASE LoopReturn \/ LoopSeesClose \/ LoopTakesPending \/ LoopCloses
  <2>1. TypeOK'
    <3>1. CASE LoopReturn
      <4>1. returned' \subseteq Pub /\ Tail(net) \in Seq(Confirm \cup Return)
        BY <3>1, SMTT(30) DEF LoopReturn, TypeOK, Oldest, Candidates, Pending
      <4> QED
        BY <3>1, <4>1, Zenon DEF LoopReturn, TypeOK
    <3>2. CASE LoopSeesClose \/ LoopTakesPending \/ LoopCloses
      BY <3>2, SMTT(30) DEF LoopSeesClose, LoopTakesPending, LoopCloses, TypeOK, Pending
    <3> QED
      BY <1>1, <3>1, <3>2, Zenon
  <2>2. \A p \in Pub : InHand(p)' => InHand(p)
    BY <1>1, Zenon DEF LoopReturn, LoopSeesClose, LoopTakesPending, LoopCloses, InHand, Pending
  <2>3. UNCHANGED <<call, settled, slots, writer, cur, wire, fate>>
    BY <1>1, Zenon DEF LoopReturn, LoopSeesClose, LoopTakesPending, LoopCloses
  <2> QED
    BY <2>1, <2>2, <2>3, FrameStep, Zenon
<1>2. ASSUME NEW p \in Pub, InHand(p), NEW r \in Verdict, Settle(p, r),
             UNCHANGED <<call, writer, cur, wire, fate>>,
             \A q \in Pub : InHand(q)' => InHand(q)
      PROVE  /\ slots' \in 0..MaxOutstandingConfirms
             /\ settled' \in [Pub -> {"no"} \cup NotSent \cup Verdict]
             /\ WriterHolds' /\ Tracked' /\ Unwritten' /\ SlotAccounting'
  <2>1. /\ SlotAccounting' /\ slots' \in 0..MaxOutstandingConfirms
        /\ settled' \in [Pub -> {"no"} \cup NotSent \cup Verdict]
        /\ SettledOnly(p, r)
    BY <1>2, SettleStep, Zenon
  <2>2. WriterHolds' /\ Tracked'
    BY <1>2, <2>1, ZenonT(60) DEF SettledOnly, WriterHolds, Tracked, Early, GaveUp, Verdict
  <2>3. Unwritten'
    BY <1>2, <2>1, ZenonT(60) DEF SettledOnly, Unwritten, Unsent, NotSent, Verdict
  <2> QED
    BY <2>1, <2>2, <2>3, Zenon
<1>3. CASE LoopConfirm
  <2>1. CASE \E c \in confirms, p \in Pending :
               /\ confirms' = confirms \ {c}
               /\ pendingTag' = [pendingTag EXCEPT ![p] = 0]
               /\ Settle(p, ResolveVerdict(p, c.ack))
    <3> PICK c \in confirms, p \in Pending :
               /\ confirms' = confirms \ {c}
               /\ pendingTag' = [pendingTag EXCEPT ![p] = 0]
               /\ Settle(p, ResolveVerdict(p, c.ack))
      BY <2>1, ZenonT(60)
    <3>1. /\ p \in Pub /\ InHand(p) /\ ResolveVerdict(p, c.ack) \in Verdict
          /\ \A q \in Pub : InHand(q)' => InHand(q)
          /\ UNCHANGED <<call, writer, cur, wire, fate>>
      BY <1>3 DEF LoopConfirm, Pending, InHand, ResolveVerdict, Verdict, TypeOK
    <3>2. /\ slots' \in 0..MaxOutstandingConfirms
          /\ settled' \in [Pub -> {"no"} \cup NotSent \cup Verdict]
          /\ WriterHolds' /\ Tracked' /\ Unwritten' /\ SlotAccounting'
      BY <1>2, <3>1, Zenon
    <3>3. TypeOK'
      BY <1>3, <3>1, <3>2, ZenonT(60) DEF LoopConfirm, TypeOK
    <3> QED
      BY <3>2, <3>3, Zenon
  <2>2. CASE UNCHANGED <<pendingTag, slotVars>>
    <3>1. TypeOK'
      BY <1>3, <2>2, Zenon DEF LoopConfirm, TypeOK
    <3> QED
      BY <1>3, <2>2, <3>1, FrameStep, Zenon DEF LoopConfirm, InHand
  <2> QED
    BY <1>3, <2>1, <2>2, Zenon DEF LoopConfirm
<1>4. CASE LoopSettles
  <2>1. CASE \E p \in doomed : doomed' = doomed \ {p} /\ Settle(p, "ErrChannelClosed")
    <3> PICK p \in doomed : doomed' = doomed \ {p} /\ Settle(p, "ErrChannelClosed")
      BY <2>1, Zenon
    <3>1. /\ p \in Pub /\ InHand(p) /\ "ErrChannelClosed" \in Verdict
          /\ \A q \in Pub : InHand(q)' => InHand(q)
          /\ UNCHANGED <<call, writer, cur, wire, fate>>
      BY <1>4, Zenon DEF LoopSettles, InHand, Verdict, TypeOK
    <3>2. /\ slots' \in 0..MaxOutstandingConfirms
          /\ settled' \in [Pub -> {"no"} \cup NotSent \cup Verdict]
          /\ WriterHolds' /\ Tracked' /\ Unwritten' /\ SlotAccounting'
      BY <1>2, <3>1, Zenon
    <3>3. TypeOK'
      BY <1>4, <3>1, <3>2, Zenon DEF LoopSettles, TypeOK
    <3> QED
      BY <3>2, <3>3, Zenon
  <2>2. CASE loop' = "done" /\ UNCHANGED <<doomed, slotVars>>
    <3>1. TypeOK'
      BY <1>4, <2>2, Zenon DEF LoopSettles, TypeOK
    <3> QED
      BY <1>4, <2>2, <3>1, FrameStep, Zenon DEF LoopSettles, InHand
  <2> QED
    BY <1>4, <2>1, <2>2, Zenon DEF LoopSettles
<1> QED
  BY <1>1, <1>3, <1>4, Zenon DEF LoopNext

-----------------------------------------------------------------------------
\* No step of a caller, the writer, the loop, amqp091, the broker or the
\* environment breaks the inductive invariant of pubchan.go.
THEOREM StepIInv == IInv /\ [Next]_vars => IInv'
<1> SUFFICES ASSUME IInv, [Next]_vars PROVE IInv'
  BY Zenon
<1>1. CASE UNCHANGED vars
  BY <1>1, FrameStep, ZenonT(60) DEF vars, IInv, TypeOK, InHand
<1>2. CASE Next
  BY <1>2, CallerStep, WriterStep, LoopStep, EnvironmentStep, BrokerTakesStep, Zenon DEF Next
<1> QED
  BY <1>1, <1>2, Zenon

\* Every behaviour of the publishing channel satisfies the invariant.
THEOREM Inductive == Spec => []IInv
BY InitIInv, StepIInv, PTL DEF Spec

\* The variables keep their types: in particular len(p.slots) stays within
\* MaxOutstandingConfirms and is never given back below zero.
THEOREM TypeCorrect == Spec => []TypeOK
<1>1. IInv => TypeOK
  BY Zenon DEF IInv
<1> QED
  BY <1>1, Inductive, PTL

\* However confirms, closes, failed writes and callers that give up interleave,
\* every slot in use belongs to one unsettled publication (pubchan.go:82-91).
THEOREM SlotsAccounted == Spec => []SlotAccounting
<1>1. IInv => SlotAccounting
  BY Zenon DEF IInv
<1> QED
  BY <1>1, Inductive, PTL

\* A publish that reports that nothing was sent has sent nothing and never
\* will (pubchan.go:299-302, 367-374).
THEOREM DefiniteFailuresUnsent == Spec => []DefiniteMeansUnsent
<1>1. IInv => DefiniteMeansUnsent
  BY Zenon DEF IInv, Unwritten, Unsent, DefiniteMeansUnsent
<1> QED
  BY <1>1, Inductive, PTL
=============================================================================
