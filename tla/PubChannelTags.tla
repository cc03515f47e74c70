--------------------------- MODULE PubChannelTags ---------------------------
(***************************************************************************)
(* The order of tags and notices of a PubChannel, for any finite set of    *)
(* publications and number of confirm slots: the tags of amqp091 and of    *)
(* the broker agree, and a confirm finds its own publication, still        *)
(* pending.  Here are the invariant and the steps of the callers, the      *)
(* writer, the loop and amqp091's reader.                                  *)
(***************************************************************************)
EXTENDS PubChannelProofs

\* Until shutdown takes the pending map the loop answers confirms.
Open == loop \in {"run", "drain"}

\* The loop leaves "run" when the channel is dead, and then nothing more comes
\* in; it leaves "drain" when the buffer of confirms is empty.
Phases ==
    /\ loop # "run" => ~alive
    /\ ~alive => net = <<>>
    /\ Open => doomed = {}
    /\ ~Open => confirms = {}
    /\ writer = "write" /\ Open => pendingTag[cur] # 0

\* The i-th frame on the wire will be the broker's number brokerSeq + i, and
\* what is pending waits under the number the broker gave or will give it.
Tags ==
    /\ publishSeq = brokerSeq + Len(wire)
    /\ \A i, j \in DOMAIN wire : wire[i] = wire[j] => i = j
    /\ \A i \in DOMAIN wire :
           brokerTag[wire[i]] = 0 /\ pendingTag[wire[i]] \in {0, brokerSeq + i}
    /\ \A p \in Pub :
           /\ brokerTag[p] <= brokerSeq /\ (brokerTag[p] = 0 <=> fate[p] = "none")
           /\ brokerTag[p] # 0 => pendingTag[p] \in {0, brokerTag[p]}
           /\ pendingTag[p] # 0 /\ Unsent(p) =>
                  p = cur /\ writer = "write" /\ pendingTag[p] = publishSeq + 1
    /\ \A p, q \in Pub : brokerTag[p] = brokerTag[q] /\ brokerTag[p] # 0 => p = q

\* Every confirm on its way answers a publication the broker has taken, and
\* none is answered twice.
Coming == {i \in DOMAIN net : net[i].kind = "confirm"}
Answers(c, p) == /\ fate[p] # "none" /\ c.tag = brokerTag[p]
                 /\ c.ack <=> fate[p] # "nacked"
Truthful ==
    /\ \A c \in confirms : \E p \in Pub : Answers(c, p)
    /\ \A i \in Coming : \E p \in Pub : Answers(net[i], p)
    /\ \A i, j \in Coming : net[i].tag = net[j].tag => i = j
    /\ \A i \in Coming, c \in confirms : net[i].tag # c.tag
    /\ \A p \in owed : /\ fate[p] # "none"
                       /\ \A c \in confirms : c.tag # brokerTag[p]
                       /\ \A i \in Coming : net[i].tag # brokerTag[p]

\* While the loop answers, a publication written and not yet answered is
\* pending and holds its slot.
Awaited(p) ==
    \/ \E i \in DOMAIN wire : wire[i] = p
    \/ p \in owed
    \/ fate[p] # "none" /\ \/ \E c \in confirms : c.tag = brokerTag[p]
                           \/ \E i \in Coming : net[i].tag = brokerTag[p]
Kept == Open => \A p \in Pub : Awaited(p) => pendingTag[p] # 0 /\ settled[p] = "no"

\* A verdict is the broker's, or the shutdown's.
Settlements ==
    \A p \in Pub :
        /\ settled[p] \in {"nil", "ErrUnroutable"} => fate[p] \in {"routed", "unrouted"}
        /\ settled[p] = "ErrPublishNacked" => fate[p] = "nacked"
        /\ settled[p] = "ErrChannelClosed" => ~Open
        /\ call[p] \in Verdict => settled[p] = call[p]

\* The loop answers what it has received before it shuts down.
Received ==
    \A p \in received :
        /\ fate[p] # "none" /\ p \notin doomed /\ settled[p] # "ErrChannelClosed"
        /\ pendingTag[p] = 0 \/ \E c \in confirms : c.tag = brokerTag[p]

VInv == Phases /\ Tags /\ Truthful /\ Kept /\ Settlements /\ Received

-----------------------------------------------------------------------------
USE DEF callVars, slotVars, ppVars, loopVars, writerVars, chanVars, brokerVars, inVars,
        MaxOutstandingConfirms

\* The types that the arithmetic on tags needs.
Numbers == /\ publishSeq \in Nat /\ brokerSeq \in Nat /\ wire \in Seq(Pub)
           /\ pendingTag \in [Pub -> Nat] /\ brokerTag \in [Pub -> Nat]

\* A fresh channel has given out no tag and expects no notice.
LEMMA InitVInv == Init => VInv
<1> SUFFICES ASSUME Init PROVE VInv
  BY Zenon
<1>1. DOMAIN wire = {} /\ DOMAIN net = {} /\ Len(wire) = 0
  BY DEF Init
<1>2. Phases /\ Truthful /\ Kept /\ Settlements /\ Received
  BY <1>1, Zenon DEF Init, Phases, Open, Truthful, Coming, Kept, Awaited, Settlements,
     Received, Verdict
<1>3. Tags
  BY <1>1 DEF Init, Tags
<1> QED
  BY <1>2, <1>3, Zenon DEF VInv

\* Where no frame moves, what stays pending keeps its number.
LEMMA TagsKeep ==
    ASSUME Tags, Numbers, Numbers', UNCHANGED <<publishSeq, brokerSeq, wire, brokerTag, fate>>,
           \A p \in Pub : pendingTag'[p] \in {0, pendingTag[p]},
           \A p \in Pub : pendingTag'[p] # 0 /\ p = cur /\ writer = "write" =>
               p = cur' /\ writer' = "write"
    PROVE  Tags'
<1>1. \A i \in DOMAIN wire : wire[i] \in Pub
  BY DEF Numbers
<1> QED
  BY <1>1 DEF Tags, Unsent

\* Notices that only leave, from the front, leave true ones.
LEMMA TruthfulKeeps ==
    ASSUME Truthful, UNCHANGED <<brokerTag, fate, owed>>, confirms' \subseteq confirms,
           NEW k \in Nat,
           \A i \in DOMAIN net' : i \in Nat /\ i + k \in DOMAIN net /\ net'[i] = net[i + k]
    PROVE  Truthful' /\ \A p \in Pub : UNCHANGED wire /\ Awaited(p)' => Awaited(p)
<1>1. \A i \in Coming' : i \in Nat /\ i + k \in Coming /\ net'[i] = net[i + k]
  BY Zenon DEF Coming
<1>2. \A i, j \in Coming' : net'[i].tag = net'[j].tag => i = j
  <2> SUFFICES ASSUME NEW i \in Coming', NEW j \in Coming', net'[i].tag = net'[j].tag
               PROVE  i = j
    BY Zenon
  <2>1. i + k \in Coming /\ j + k \in Coming /\ net[i + k].tag = net[j + k].tag
    BY <1>1
  <2>2. i + k = j + k
    BY <2>1, Zenon DEF Truthful
  <2> QED
    BY <1>1, <2>2
<1>3. \A p \in Pub : \A c : Answers(c, p)' <=> Answers(c, p)
  BY Zenon DEF Answers
<1>4. \A i \in Coming' : \E j \in Coming : net'[i] = net[j]
  BY <1>1, Zenon
<1>5. Truthful'
  <2>1. \A c \in confirms' : \E p \in Pub : Answers(c, p)'
    BY <1>3, Zenon DEF Truthful
  <2>2. \A i \in Coming' : \E p \in Pub : Answers(net[i], p)'
    BY <1>4 DEF Truthful, Answers
  <2>3. \A i \in Coming', c \in confirms' : net'[i].tag # c.tag
    BY <1>4 DEF Truthful
  <2>4. \A p \in owed' :
            /\ fate'[p] # "none"
            /\ \A c \in confirms' : c.tag # brokerTag'[p]
            /\ \A i \in Coming' : net'[i].tag # brokerTag'[p]
    BY <1>4 DEF Truthful
  <2> QED
    BY <1>2, <2>1, <2>2, <2>3, <2>4, Zenon DEF Truthful
<1>6. \A p \in Pub : UNCHANGED wire /\ Awaited(p)' => Awaited(p)
  <2> SUFFICES ASSUME NEW p \in Pub, UNCHANGED wire, Awaited(p)' PROVE Awaited(p)
    BY Zenon
  <2>1. ASSUME NEW i \in Coming', net'[i].tag = brokerTag[p]
        PROVE  \E j \in Coming : net[j].tag = brokerTag[p]
    BY <1>4, <2>1
  <2> QED
    BY <2>1, Zenon DEF Awaited
<1> QED
  BY <1>5, <1>6, Zenon

\* What holds of the notices on their way holds of the same ones after a step.
LEMMA SameNotice ==
    ASSUME Truthful, UNCHANGED <<brokerTag, fate>>, NEW n, NEW j \in Coming, n = net[j]
    PROVE  /\ \E p \in Pub : /\ fate'[p] # "none" /\ n.tag = brokerTag'[p]
                             /\ n.ack <=> fate'[p] # "nacked"
           /\ \A c \in confirms : n.tag # c.tag
           /\ \A p \in owed : n.tag # brokerTag'[p]
BY Zenon DEF Truthful, Answers

\* Notices that stay where they are.
LEMMA NoShift ==
    ASSUME TypeOK, UNCHANGED net
    PROVE  \A i \in DOMAIN net' : i \in Nat /\ i + 0 \in DOMAIN net /\ net'[i] = net[i + 0]
BY DEF TypeOK

\* The counters and tags of amqp091 and of the broker are typed.
LEMMA NumbersTyped == (TypeOK => Numbers) /\ (TypeOK' => Numbers')
BY Zenon DEF TypeOK, Numbers

\* The steps of publish and of the environment, and the writer's around its
\* register and write: no frame, tag or notice moves.
LEMMA QuietKeeps ==
    ASSUME TypeOK, TypeOK', VInv,
           UNCHANGED <<publishSeq, brokerSeq, wire, brokerTag, fate, owed, pendingTag,
                       net, confirms, received, loop, doomed, alive>>,
           writer' = "write" \/ writer = "write" => writer' = writer /\ cur' = cur,
           \A p \in Pub : \/ settled'[p] = settled[p]
                          \/ Unsent(p) /\ settled'[p] \in NotSent,
           \A p \in Pub : call'[p] \in Verdict => settled'[p] = call'[p]
    PROVE  VInv'
<1> USE DEF VInv
<1>1. Phases'
  BY Zenon DEF Phases, Open
<1>2. Tags'
  <2>1. \A p \in Pub : pendingTag'[p] \in {0, pendingTag[p]}
    BY Zenon
  <2> QED
    BY <2>1, TagsKeep, NumbersTyped
<1>3. Truthful' /\ \A p \in Pub : Awaited(p)' => Awaited(p)
  BY NoShift, TruthfulKeeps, 0 \in Nat, Zenon
<1>4. Kept'
  <2>1. \A p \in Pub : Awaited(p) => ~Unsent(p)
    BY Zenon DEF Awaited, Unsent, Truthful
  <2> QED
    BY <1>3, <2>1, Zenon DEF Kept, Open
<1>5. NotSent \cap (Verdict \cup {"no"}) = {}
  BY Zenon DEF NotSent, Verdict
<1>6. Settlements'
  BY <1>5, Zenon DEF Settlements, Open, Verdict, NotSent
<1>7. Received'
  BY <1>5, Zenon DEF Received, Verdict, TypeOK
<1> QED
  BY <1>1, <1>2, <1>3, <1>4, <1>6, <1>7, Zenon

\* publish, select by select.
LEMMA CallerVInv == ASSUME IInv, IInv', VInv, NEW p \in Pub, CallerNext(p) PROVE VInv'
<1>1. /\ UNCHANGED <<publishSeq, brokerSeq, wire, brokerTag, fate, owed, pendingTag,
                     net, confirms, received, loop, doomed, alive>>
      /\ writer' = "write" \/ writer = "write" => writer' = writer /\ cur' = cur
  BY Zenon DEF CallerNext, PublishStart, TakeSlot, GiveUpAdmission, HandToWriter, GiveUpHandoff,
     SeeCommit, SeeOutcome, StopWaiting, RetireIfWedged
<1>2. \A q \in Pub : \/ settled'[q] = settled[q]
                     \/ settled[q] = "no" /\ Unsent(q) /\ settled'[q] \in NotSent
  <2>1. CASE GiveUpHandoff(p)
    <3>1. Unsent(p)
      BY <2>1, Zenon DEF GiveUpHandoff, IInv, Unwritten, Early
    <3>2. \E r \in NotSent : Settle(p, r)
      BY <2>1, Zenon DEF GiveUpHandoff, NotSent
    <3> QED
      BY <3>1, <3>2, Zenon DEF Settle, IInv, TypeOK
  <2>2. CASE ~GiveUpHandoff(p)
    BY <2>2, Zenon DEF CallerNext, PublishStart, TakeSlot, GiveUpAdmission, HandToWriter,
       SeeCommit, SeeOutcome, StopWaiting
  <2> QED
    BY <2>1, <2>2, Zenon
<1>3. \A q \in Pub : call'[q] \in Verdict => settled'[q] = call'[q]
  <2>1. CASE SeeOutcome(p)
    BY <2>1, Zenon DEF SeeOutcome, Goto, VInv, Settlements, IInv, TypeOK
  <2>2. CASE ~SeeOutcome(p)
    <3>1. UNCHANGED call \/ \E r : call' = [call EXCEPT ![p] = r] /\ r \notin Verdict
      BY <2>2, Zenon DEF CallerNext, PublishStart, TakeSlot, GiveUpAdmission, HandToWriter,
         GiveUpHandoff, SeeCommit, StopWaiting, Goto, Verdict
    <3>2. \A q \in Pub : call'[q] = call[q] \/ call'[q] \notin Verdict
      BY <3>1, Zenon DEF IInv, TypeOK
    <3> QED
      BY <1>2, <3>2, Zenon DEF VInv, Settlements, Verdict
  <2> QED
    BY <2>1, <2>2, Zenon
<1> QED
  BY <1>1, <1>2, <1>3, QuietKeeps, Zenon DEF IInv

\* Contexts that end, time, bindings, the owner's close, and the writer before
\* it registers a publication and after it has written one.
LEMMA ElsewhereVInv ==
    ASSUME IInv, IInv', VInv,
           \/ \E p \in Pub : CancelContext(p) \/ TimePasses(p)
           \/ \E d \in Dests \cap Volatile : Rebind(d)
           \/ OwnerCloses \/ WriterVet \/ WriterStamps \/ WriterExits
    PROVE  VInv'
<1>1. /\ UNCHANGED <<publishSeq, brokerSeq, wire, brokerTag, fate, owed, pendingTag,
                     net, confirms, received, loop, doomed, alive, call>>
      /\ writer' = "write" \/ writer = "write" => writer' = writer /\ cur' = cur
  BY Zenon DEF CancelContext, TimePasses, Rebind, OwnerCloses, WriterVet, WriterStamps,
     WriterExits, Idle
<1>2. \A q \in Pub : \/ settled'[q] = settled[q]
                     \/ settled[q] = "no" /\ Unsent(q) /\ settled'[q] \in NotSent
  <2>1. CASE WriterVet
    <3>1. cur \in Pub /\ Unsent(cur)
      BY <2>1, Zenon DEF WriterVet, IInv, WriterHolds, Unwritten
    <3>2. UNCHANGED settled \/ \E r \in NotSent : Settle(cur, r)
      BY <2>1, Zenon DEF WriterVet, NotSent
    <3> QED
      BY <3>1, <3>2, Zenon DEF Settle, IInv, TypeOK
  <2>2. CASE ~WriterVet
    BY <2>2, Zenon DEF CancelContext, TimePasses, Rebind, OwnerCloses, WriterStamps,
       WriterExits
  <2> QED
    BY <2>1, <2>2, Zenon
<1>3. \A q \in Pub : call'[q] \in Verdict => settled'[q] = call'[q]
  BY <1>1, <1>2, Zenon DEF VInv, Settlements, Verdict
<1> QED
  BY <1>1, <1>2, <1>3, QuietKeeps, Zenon DEF IInv

\* What is written waits under a tag that has been given out.
LEMMA TagBound ==
    ASSUME Numbers, Tags, NEW p \in Pub, pendingTag[p] # 0, ~Unsent(p)
    PROVE  pendingTag[p] <= publishSeq
<1>1. CASE fate[p] # "none"
  BY <1>1 DEF Numbers, Tags
<1>2. CASE \E i \in DOMAIN wire : wire[i] = p
  BY <1>2 DEF Numbers, Tags
<1> QED
  BY <1>1, <1>2, Zenon DEF Unsent

\* register: the next tag is nobody else's.
LEMMA RegisterVInv == ASSUME IInv, IInv', VInv, WriterRegister PROVE VInv'
<1> USE DEF VInv
<1>1. cur \in Pub /\ Unsent(cur) /\ cur' = cur /\ writer = "register" /\ writer' = "write"
  BY Zenon DEF WriterRegister, IInv, WriterHolds, Unwritten
<1>2. /\ UNCHANGED <<publishSeq, brokerSeq, wire, brokerTag, fate, owed, settled, call,
                     net, confirms, received, loop, doomed, alive>>
      /\ pendingTag' = [p \in Pub |-> IF p = cur THEN publishSeq + 1
                                      ELSE IF pendingTag[p] = publishSeq + 1 THEN 0
                                      ELSE pendingTag[p]]
  BY Zenon DEF WriterRegister
<1>3. Numbers /\ Numbers'
  BY NumbersTyped, Zenon DEF IInv
<1>4. /\ pendingTag'[cur] = publishSeq + 1 /\ pendingTag'[cur] # 0
      /\ \A p \in Pub \ {cur} : pendingTag'[p] \in {0, pendingTag[p]}
  BY <1>1, <1>2, <1>3 DEF Numbers
<1>5. \A p \in Pub \ {cur} : pendingTag'[p] # 0 => ~Unsent(p)
  BY <1>1, <1>4, Zenon DEF Tags
<1>6. Phases'
  BY <1>1, <1>2, <1>4, Zenon DEF Phases, Open
<1>7. Tags'
  <2>1. \A i \in DOMAIN wire : wire[i] \in Pub \ {cur}
    BY <1>1, <1>3 DEF Numbers, Unsent
  <2>2. \A p \in Pub : Unsent(p)' <=> Unsent(p)
    BY <1>2, Zenon DEF Unsent
  <2>3. brokerTag[cur] = 0
    BY <1>1, Zenon DEF Tags, Unsent
  <2>4. \A i \in DOMAIN wire : pendingTag'[wire[i]] \in {0, brokerSeq + i}
    BY <1>4, <2>1, Zenon DEF Tags
  <2>5. \A p \in Pub : brokerTag[p] # 0 => pendingTag'[p] \in {0, brokerTag[p]}
    BY <1>4, <2>3, Zenon DEF Tags
  <2>6. \A p \in Pub : pendingTag'[p] # 0 /\ Unsent(p)' =>
              p = cur' /\ writer' = "write" /\ pendingTag'[p] = publishSeq' + 1
    BY <1>1, <1>2, <1>4, <1>5, <2>2, Zenon
  <2> QED
    BY <1>2, <2>4, <2>5, <2>6, Zenon DEF Tags
<1>8. Truthful' /\ \A p \in Pub : Awaited(p)' => Awaited(p)
  BY <1>2, NoShift, TruthfulKeeps, 0 \in Nat, Zenon DEF IInv
<1>9. Kept'
  <2>1. \A p \in Pub : Awaited(p) => ~Unsent(p)
    BY Zenon DEF Awaited, Unsent, Truthful
  <2>2. \A p \in Pub : pendingTag[p] # 0 /\ ~Unsent(p) => pendingTag'[p] = pendingTag[p]
    BY <1>1, <1>2, <1>3, TagBound DEF Numbers
  <2> QED
    BY <1>2, <1>8, <2>1, <2>2, Zenon DEF Kept, Open
<1>10. Settlements'
  BY <1>2, Zenon DEF Settlements, Open
<1>11. Received'
  <2>1. \A p \in received : p \in Pub \ {cur}
    BY <1>1, Zenon DEF Received, Unsent, IInv, TypeOK
  <2> QED
    BY <1>2, <1>4, <2>1, Zenon DEF Received
<1> QED
  BY <1>6, <1>7, <1>8, <1>9, <1>10, <1>11, Zenon

\* The write: the frame goes out under the tag it was registered with.
LEMMA WritesVInv == ASSUME IInv, IInv', VInv, WriterWrites PROVE VInv'
<1> USE DEF VInv
<1>1. cur \in Pub /\ Unsent(cur) /\ cur' = cur /\ writer = "write" /\ writer' = "stamp"
  BY Zenon DEF WriterWrites, IInv, WriterHolds, Unwritten
<1>2. /\ UNCHANGED <<pendingTag, brokerSeq, brokerTag, fate, owed, settled, call,
                     net, confirms, received, loop, doomed, alive>>
      /\ publishSeq' = publishSeq + 1 /\ wire' = Append(wire, cur)
  BY Zenon DEF WriterWrites
<1>3. Numbers /\ Numbers'
  BY NumbersTyped, Zenon DEF IInv
<1>4. /\ Len(wire') = Len(wire) + 1 /\ Len(wire) \in Nat /\ DOMAIN wire = 1..Len(wire)
      /\ DOMAIN wire' = 1..(Len(wire) + 1)
      /\ wire'[Len(wire) + 1] = cur
      /\ \A i \in DOMAIN wire : i \in DOMAIN wire' /\ wire'[i] = wire[i]
      /\ \A i \in DOMAIN wire' : i \in DOMAIN wire \/ i = Len(wire) + 1
  BY <1>1, <1>2, <1>3 DEF Numbers
<1>5. Phases'
  BY <1>1, <1>2, Zenon DEF Phases, Open
<1>6. \A p \in Pub : Unsent(p)' => Unsent(p) /\ p # cur
  BY <1>2, <1>4 DEF Unsent
<1>7. Tags'
  <2>1. publishSeq' = brokerSeq + Len(wire')
    BY <1>2, <1>3, <1>4 DEF Numbers, Tags
  <2>2. \A i, j \in DOMAIN wire' : wire'[i] = wire'[j] => i = j
    BY <1>1, <1>4 DEF Tags, Unsent
  <2>3. brokerTag[cur] = 0 /\ pendingTag[cur] \in {0, publishSeq + 1}
    BY <1>1, Zenon DEF Tags, Unsent
  <2>4. publishSeq + 1 = brokerSeq + (Len(wire) + 1)
    BY <1>3, <1>4 DEF Numbers, Tags
  <2>5. \A i \in DOMAIN wire' :
            brokerTag[wire'[i]] = 0 /\ pendingTag[wire'[i]] \in {0, brokerSeq + i}
    <3> SUFFICES ASSUME NEW i \in DOMAIN wire'
                 PROVE  brokerTag[wire'[i]] = 0 /\ pendingTag[wire'[i]] \in {0, brokerSeq + i}
      BY Zenon
    <3>1. CASE i \in DOMAIN wire
      <4>1. wire'[i] = wire[i]
        BY <1>4, <3>1, Zenon
      <4> QED
        BY <3>1, <4>1, Zenon DEF Tags
    <3>2. CASE i = Len(wire) + 1
      <4>1. wire'[i] = cur /\ publishSeq + 1 = brokerSeq + i
        BY <1>4, <2>4, <3>2, Zenon
      <4> QED
        BY <2>3, <4>1, Zenon
    <3> QED
      BY <1>4, <3>1, <3>2, Zenon
  <2>6. \A p \in Pub : pendingTag[p] # 0 /\ Unsent(p)' => FALSE
    BY <1>6, Zenon DEF Tags
  <2> QED
    BY <1>2, <2>1, <2>2, <2>5, <2>6, Zenon DEF Tags
<1>8. Truthful'
  BY <1>2, NoShift, TruthfulKeeps, 0 \in Nat, Zenon DEF IInv
<1>9. Kept'
  <2> SUFFICES ASSUME Open, NEW p \in Pub, Awaited(p)'
               PROVE  pendingTag[p] # 0 /\ settled[p] = "no"
    BY <1>2, Zenon DEF Kept, Open
  <2>1. Awaited(p) \/ p = cur
    BY <1>2, <1>4, Zenon DEF Awaited, Coming
  <2>2. pendingTag[cur] # 0
    BY <1>1, Zenon DEF Phases
  <2>3. settled[cur] = "no"
    BY <1>1, Zenon DEF IInv, TypeOK, Unwritten, Unsent, Settlements, Verdict
  <2> QED
    BY <2>1, <2>2, <2>3, Zenon DEF Kept
<1>10. Settlements' /\ Received'
  BY <1>2, Zenon DEF Settlements, Received, Open
<1> QED
  BY <1>5, <1>7, <1>8, <1>9, <1>10, Zenon

\* A failed write takes its registration back; it was never on the wire.
LEMMA FailsVInv == ASSUME IInv, IInv', VInv, WriterFails PROVE VInv'
<1> USE DEF VInv
<1>1. cur \in Pub /\ Unsent(cur) /\ writer' = "idle"
  BY Zenon DEF WriterFails, Idle, IInv, WriterHolds, Unwritten
<1>2. /\ UNCHANGED <<publishSeq, brokerSeq, wire, brokerTag, fate, owed, call,
                     net, confirms, received, loop, doomed, alive>>
      /\ pendingTag' = [pendingTag EXCEPT ![cur] = 0]
  BY Zenon DEF WriterFails
<1>3. \A p \in Pub : IF p = cur THEN pendingTag'[p] = 0 ELSE pendingTag'[p] = pendingTag[p]
  BY <1>1, <1>2, Zenon DEF IInv, TypeOK
<1>4. \A p \in Pub : \/ settled'[p] = settled[p]
                     \/ p = cur /\ settled[p] = "no" /\ settled'[p] \in NotSent
  <2>1. \E r \in NotSent : Settle(cur, r)
    BY Zenon DEF WriterFails, NotSent
  <2> QED
    BY <1>1, <2>1, Zenon DEF Settle, IInv, TypeOK
<1>5. Phases'
  BY <1>1, <1>2, Zenon DEF Phases, Open
<1>6. Tags'
  <2>1. \A p \in Pub : pendingTag'[p] \in {0, pendingTag[p]}
    BY <1>3, Zenon
  <2>2. \A p \in Pub : pendingTag'[p] # 0 /\ p = cur /\ writer = "write" =>
                           p = cur' /\ writer' = "write"
    BY <1>3, Zenon
  <2> QED
    BY <1>2, <2>1, <2>2, TagsKeep, NumbersTyped, Zenon DEF IInv
<1>7. Truthful' /\ \A p \in Pub : Awaited(p)' => Awaited(p)
  BY <1>2, NoShift, TruthfulKeeps, 0 \in Nat, Zenon DEF IInv
<1>8. Kept'
  <2>1. ~Awaited(cur)
    BY <1>1, Zenon DEF Awaited, Unsent, Truthful
  <2> QED
    BY <1>2, <1>3, <1>4, <1>7, <2>1, Zenon DEF Kept, Open
<1>9. Settlements'
  BY <1>2, <1>4, Zenon DEF Settlements, Open, Verdict, NotSent
<1>10. Received'
  <2> SUFFICES ASSUME NEW p \in received
               PROVE  /\ settled'[p] # "ErrChannelClosed"
                      /\ pendingTag'[p] = 0 \/ \E c \in confirms : c.tag = brokerTag[p]
    BY <1>2, Zenon DEF Received
  <2>1. p \in Pub
    BY Zenon DEF IInv, TypeOK
  <2>2. settled'[p] # "ErrChannelClosed"
    BY <1>4, <2>1, Zenon DEF Received, NotSent
  <2>3. pendingTag'[p] = 0 \/ pendingTag'[p] = pendingTag[p]
    BY <1>3, <2>1, Zenon
  <2> QED
    BY <2>2, <2>3, Zenon DEF Received
<1> QED
  BY <1>5, <1>6, <1>7, <1>8, <1>9, <1>10, Zenon

\* The end of the channel, the loop's way to the shutdown, and a return.
LEMMA ShutdownVInv ==
    ASSUME IInv, IInv', VInv, ChannelDies \/ LoopReturn \/ LoopSeesClose \/ LoopCloses
    PROVE  VInv'
<1> USE DEF VInv
<1>1. UNCHANGED <<publishSeq, brokerSeq, wire, brokerTag, fate, owed, call, settled,
                  pendingTag, confirms, received, doomed, writer, cur>>
  BY Zenon DEF ChannelDies, LoopReturn, LoopSeesClose, LoopCloses
<1>2. \E k \in Nat : \A i \in DOMAIN net' :
                         i \in Nat /\ i + k \in DOMAIN net /\ net'[i] = net[i + k]
  <2>1. CASE ChannelDies
    <3>1. DOMAIN net' = {}
      BY <2>1 DEF ChannelDies
    <3> QED
      BY <3>1
  <2>2. CASE LoopReturn
    <3>1. \A i \in DOMAIN net' : i \in Nat /\ i + 1 \in DOMAIN net /\ net'[i] = net[i + 1]
      BY <2>2 DEF LoopReturn, IInv, TypeOK
    <3> QED
      BY <3>1
  <2>3. CASE LoopSeesClose \/ LoopCloses
    BY <2>3, NoShift, 0 \in Nat, Zenon DEF LoopSeesClose, LoopCloses, IInv
  <2> QED
    BY <2>1, <2>2, <2>3, Zenon
<1>3. Phases' /\ (Open' <=> Open)
  <2>1. CASE ChannelDies
    BY <2>1, Zenon DEF ChannelDies, Phases, Open
  <2>2. CASE LoopReturn
    <3>1. alive /\ alive' /\ loop' = loop
      BY <2>2, Zenon DEF LoopReturn, Phases, IInv, TypeOK
    <3> QED
      BY <1>1, <3>1, Zenon DEF Phases, Open
  <2>3. CASE LoopSeesClose
    BY <2>3, Zenon DEF LoopSeesClose, Phases, Open
  <2>4. CASE LoopCloses
    BY <2>4, Zenon DEF LoopCloses, Phases, Open
  <2> QED
    BY <2>1, <2>2, <2>3, <2>4, Zenon
<1>4. Tags'
  BY <1>1, TagsKeep, NumbersTyped, Zenon DEF IInv
<1>5. Truthful' /\ \A p \in Pub : Awaited(p)' => Awaited(p)
  BY <1>1, <1>2, TruthfulKeeps, Zenon
<1>6. Kept' /\ Settlements' /\ Received'
  BY <1>1, <1>3, <1>5, Zenon DEF Kept, Settlements, Received
<1> QED
  BY <1>3, <1>4, <1>5, <1>6, Zenon

\* shutdown takes what is pending once nothing received is left, and settles it.
LEMMA TakesVInv == ASSUME IInv, IInv', VInv, LoopTakesPending \/ LoopSettles PROVE VInv'
<1> USE DEF VInv
<1>1. /\ UNCHANGED <<publishSeq, brokerSeq, wire, brokerTag, fate, owed, call, net, alive,
                     confirms, received, writer, cur>>
      /\ ~Open' /\ confirms = {} /\ loop # "run"
  BY Zenon DEF LoopTakesPending, LoopSettles, Phases, Open
<1>2. \A p \in Pub : pendingTag'[p] \in {0, pendingTag[p]}
  BY Zenon DEF LoopTakesPending, LoopSettles
<1>3. \A p \in received : p \notin doomed'
  BY <1>1, Zenon DEF LoopTakesPending, LoopSettles, Received, Pending, IInv, TypeOK
<1>4. \A p \in Pub : \/ settled'[p] = settled[p]
                     \/ /\ settled[p] = "no" /\ settled'[p] = "ErrChannelClosed"
                        /\ p \in doomed
  <2>1. UNCHANGED settled \/ \E p \in doomed : Settle(p, "ErrChannelClosed")
    BY Zenon DEF LoopTakesPending, LoopSettles
  <2> QED
    BY <2>1, Zenon DEF Settle, IInv, TypeOK
<1>5. Phases'
  BY <1>1, Zenon DEF Phases
<1>6. Tags'
  BY <1>1, <1>2, TagsKeep, NumbersTyped, Zenon DEF IInv
<1>7. Truthful'
  BY <1>1, NoShift, TruthfulKeeps, 0 \in Nat, Zenon DEF IInv
<1>8. Kept'
  BY <1>1, Zenon DEF Kept
<1>9. Settlements'
  BY <1>1, <1>4, Zenon DEF Settlements, Verdict
<1>10. Received'
  <2> SUFFICES ASSUME NEW p \in received
               PROVE  /\ fate[p] # "none" /\ p \notin doomed'
                      /\ settled'[p] # "ErrChannelClosed" /\ pendingTag'[p] = 0
    BY <1>1, Zenon DEF Received
  <2>1. p \in Pub /\ pendingTag[p] = 0
    BY <1>1, Zenon DEF Received, IInv, TypeOK
  <2> QED
    BY <1>2, <1>3, <1>4, <2>1, Zenon DEF Received
<1> QED
  BY <1>5, <1>6, <1>7, <1>8, <1>9, <1>10, Zenon

\* The tag of a pending publication is its own at the broker.
LEMMA Aligned == Numbers /\ Tags => TagsAligned
<1> SUFFICES ASSUME Numbers, Tags, NEW p \in Pub, NEW q \in Pub,
                    pendingTag[p] # 0, brokerTag[q] # 0
             PROVE  pendingTag[p] = brokerTag[q] <=> p = q
  BY Zenon DEF TagsAligned
<1>1. CASE brokerTag[p] # 0
  BY <1>1, Zenon DEF Tags
<1>2. CASE \E i \in DOMAIN wire : wire[i] = p
  BY <1>2 DEF Tags, Numbers
<1>3. CASE Unsent(p)
  BY <1>3 DEF Tags, Numbers, Unsent
<1> QED
  BY <1>1, <1>2, <1>3, Zenon DEF Unsent, Tags

\* resolve: the publication under a confirm's tag is the one it answers, still
\* pending and not settled.
LEMMA ConfirmResolves ==
    ASSUME IInv, VInv, LoopConfirm
    PROVE  \E c \in confirms, p \in Pub :
               /\ Answers(c, p) /\ pendingTag[p] = c.tag /\ settled[p] = "no"
               /\ confirms' = confirms \ {c}
               /\ pendingTag' = [pendingTag EXCEPT ![p] = 0]
               /\ settled' = [settled EXCEPT ![p] = ResolveVerdict(p, c.ack)]
<1> USE DEF VInv
<1>1. PICK c \in confirms :
         /\ confirms' = confirms \ {c}
         /\ \/ \E p \in Pending :
                 /\ pendingTag[p] = c.tag
                 /\ pendingTag' = [pendingTag EXCEPT ![p] = 0]
                 /\ Settle(p, ResolveVerdict(p, c.ack))
            \/ /\ \A p \in Pending : pendingTag[p] # c.tag
               /\ UNCHANGED <<pendingTag, slotVars>>
  BY Zenon DEF LoopConfirm
<1>2. PICK p \in Pub : Answers(c, p)
  BY <1>1, Zenon DEF Truthful
<1>3. Numbers /\ TagsAligned
  BY NumbersTyped, Aligned, Zenon DEF IInv
<1>4. brokerTag[p] # 0 /\ c.tag = brokerTag[p]
  BY <1>2, Zenon DEF Answers, Tags
<1>5. pendingTag[p] = c.tag /\ settled[p] = "no"
  <2>1. Awaited(p)
    BY <1>1, <1>2, <1>4, Zenon DEF Awaited, Answers
  <2>2. pendingTag[p] # 0 /\ settled[p] = "no"
    BY <2>1, Zenon DEF Kept, Open, LoopConfirm
  <2> QED
    BY <1>3, <1>4, <2>2, Zenon DEF TagsAligned
<1>6. p \in Pending /\ pendingTag[p] = c.tag
  BY <1>3, <1>4, <1>5, Zenon DEF Pending
<1>7. \A q \in Pending : pendingTag[q] = c.tag => q = p
  <2> SUFFICES ASSUME NEW q \in Pending, pendingTag[q] = c.tag PROVE q = p
    BY Zenon
  <2>1. q \in Pub /\ pendingTag[q] = brokerTag[p] /\ pendingTag[q] # 0
    BY <1>4, Zenon DEF Pending
  <2> QED
    BY <1>3, <1>4, <2>1, Zenon DEF TagsAligned
<1>8. /\ pendingTag' = [pendingTag EXCEPT ![p] = 0]
      /\ settled' = [settled EXCEPT ![p] = ResolveVerdict(p, c.ack)]
  BY <1>1, <1>5, <1>6, <1>7, Zenon DEF Settle
<1> QED
  BY <1>1, <1>2, <1>5, <1>8, Zenon

\* A confirm settles the publication it answers, for the last time it is
\* awaited.
LEMMA ConfirmVInv == ASSUME IInv, IInv', VInv, LoopConfirm PROVE VInv'
<1> USE DEF VInv
<1>1. /\ UNCHANGED <<publishSeq, brokerSeq, wire, brokerTag, fate, owed, call, net, alive,
                     received, writer, cur, loop, doomed>>
      /\ Open
  BY Zenon DEF LoopConfirm, Open
<1>2. PICK c \in confirms, p \in Pub :
         /\ Answers(c, p) /\ pendingTag[p] = c.tag /\ settled[p] = "no"
         /\ confirms' = confirms \ {c}
         /\ pendingTag' = [pendingTag EXCEPT ![p] = 0]
         /\ settled' = [settled EXCEPT ![p] = ResolveVerdict(p, c.ack)]
  BY ConfirmResolves, Zenon
<1>3. Answers(c, p)
  BY <1>2, Zenon
<1>5. brokerTag[p] # 0 /\ ~Unsent(p) /\ c.tag = brokerTag[p]
  BY <1>3, Zenon DEF Answers, Tags, Unsent
<1>6. settled[p] = "no"
  BY <1>2, Zenon
<1>8. \A q \in Pub : IF q = p THEN pendingTag'[q] = 0 ELSE pendingTag'[q] = pendingTag[q]
  BY <1>2, Zenon DEF IInv, TypeOK
<1>9. \A q \in Pub : IF q = p THEN settled'[q] = ResolveVerdict(p, c.ack)
                     ELSE settled'[q] = settled[q]
  BY <1>2, Zenon DEF IInv, TypeOK
<1>10. Phases'
  <2>1. writer = "write" => cur # p
    BY <1>5, Zenon DEF IInv, Unwritten
  <2>2. writer = "write" => pendingTag'[cur] # 0
    BY <1>1, <1>8, <2>1, Zenon DEF Phases, IInv, WriterHolds
  <2> QED
    BY <1>1, <2>2, Zenon DEF Phases, Open
<1>11. Tags'
  <2>1. \A q \in Pub : pendingTag'[q] \in {0, pendingTag[q]}
    BY <1>8, Zenon
  <2> QED
    BY <1>1, <2>1, TagsKeep, NumbersTyped, Zenon DEF IInv
<1>12. Truthful' /\ \A q \in Pub : Awaited(q)' => Awaited(q)
  BY <1>1, <1>2, NoShift, TruthfulKeeps, 0 \in Nat, Zenon DEF IInv
<1>13. \A d \in confirms : d.tag = c.tag => d = c
  <2> SUFFICES ASSUME NEW d \in confirms, d.tag = c.tag PROVE d = c
    BY Zenon
  <2>1. PICK q \in Pub : Answers(d, q)
    BY Zenon DEF Truthful
  <2>2. q = p
    <3>1. brokerTag[q] = brokerTag[p]
      BY <1>5, <2>1, Zenon DEF Answers
    <3> QED
      BY <1>5, <3>1, Zenon DEF Tags
  <2>3. (d.ack <=> c.ack) /\ d \in Confirm /\ c \in Confirm
    BY <1>2, <1>3, <2>1, <2>2, Zenon DEF Answers, IInv, TypeOK
  <2> QED
    BY <2>3 DEF Confirm
<1>14. Kept'
  <2>1. ~Awaited(p)'
    <3>1. \A i \in DOMAIN wire : wire[i] # p
      BY <1>5, Zenon DEF Tags
    <3>2. p \notin owed /\ \A i \in Coming : net[i].tag # brokerTag[p]
      BY <1>2, <1>5, Zenon DEF Truthful
    <3>3. \A d \in confirms' : d.tag # brokerTag[p]
      BY <1>2, <1>5, <1>13, Zenon
    <3> QED
      BY <1>1, <3>1, <3>2, <3>3, Zenon DEF Awaited, Coming
  <2> QED
    BY <1>1, <1>8, <1>9, <1>12, <2>1, Zenon DEF Kept, Open
<1>15. Settlements'
  <2>1. c.ack => fate[p] \in {"routed", "unrouted"}
    BY <1>3, Zenon DEF Answers, IInv, TypeOK
  <2>2. ~c.ack => fate[p] = "nacked"
    BY <1>3, Zenon DEF Answers
  <2>3. call[p] \notin Verdict
    BY <1>6, Zenon DEF Settlements, Verdict
  <2> QED
    BY <1>1, <1>9, <2>1, <2>2, <2>3, Zenon DEF Settlements, ResolveVerdict, Open
<1>16. Received'
  <2> SUFFICES ASSUME NEW q \in received
               PROVE  /\ fate[q] # "none" /\ q \notin doomed
                      /\ settled'[q] # "ErrChannelClosed"
                      /\ pendingTag'[q] = 0 \/ \E d \in confirms' : d.tag = brokerTag[q]
    BY <1>1, Zenon DEF Received
  <2>1. q \in Pub
    BY Zenon DEF IInv, TypeOK
  <2>2. CASE q = p
    BY <1>8, <1>9, <2>1, <2>2, Zenon DEF Received, ResolveVerdict
  <2>3. CASE q # p
    <3>1. brokerTag[q] # c.tag
      BY <1>5, <2>1, <2>3, Zenon DEF Tags
    <3> QED
      BY <1>2, <1>8, <1>9, <2>1, <2>3, <3>1, Zenon DEF Received
  <2> QED
    BY <2>2, <2>3, Zenon
<1> QED
  BY <1>10, <1>11, <1>12, <1>14, <1>15, <1>16, Zenon

\* amqp091 hands a confirm over: it answers what none in the buffer answers.
LEMMA DeliversVInv == ASSUME IInv, IInv', VInv, ReaderDelivers PROVE VInv'
<1> USE DEF VInv
<1> DEFINE h == Head(net)
<1>1. /\ UNCHANGED <<publishSeq, brokerSeq, wire, brokerTag, fate, owed, call, settled,
                     pendingTag, alive, writer, cur, loop, doomed>>
      /\ net # <<>> /\ h.kind = "confirm"
      /\ confirms' = confirms \cup {h}
      /\ received' = received \cup {p \in Pub : brokerTag[p] = h.tag}
      /\ net' = Tail(net)
  BY Zenon DEF ReaderDelivers, ReaderHasConfirm
<1>2. alive /\ loop = "run" /\ Open /\ doomed = {}
  BY <1>1, Zenon DEF Phases, Open
<1>3. 1 \in DOMAIN net /\ net[1] = h
  BY <1>1 DEF IInv, TypeOK
<1> HIDE DEF h
<1>4. 1 \in Coming
  BY <1>1, <1>3, Zenon DEF Coming
<1>5. \A i \in Coming' : i + 1 \in Coming /\ i + 1 # 1 /\ net'[i] = net[i + 1] /\ i \in Nat
  <2>1. \A i \in DOMAIN net' :
            i + 1 \in DOMAIN net /\ i + 1 # 1 /\ net'[i] = net[i + 1] /\ i \in Nat
    BY <1>1 DEF IInv, TypeOK
  <2> QED
    BY <2>1, Zenon DEF Coming
<1>6. \A i \in Coming' : \E j \in Coming : net'[i] = net[j]
  BY <1>5, Zenon
<1>7. PICK p \in Pub : Answers(h, p)
  BY <1>3, <1>4, Zenon DEF Truthful
<1>8. brokerTag[p] # 0 /\ h.tag = brokerTag[p]
  BY <1>7, Zenon DEF Answers, Tags
<1>9. Phases'
  BY <1>1, <1>2, Zenon DEF Phases, Open
<1>10. Tags'
  BY <1>1, TagsKeep, NumbersTyped, Zenon DEF IInv
<1>11. Truthful'
  <2>1. \A c \in confirms' : \E q \in Pub : Answers(c, q)'
    <3>1. \A c : \A q \in Pub : Answers(c, q)' <=> Answers(c, q)
      BY <1>1, Zenon DEF Answers
    <3> QED
      BY <1>1, <1>7, <3>1, Zenon DEF Truthful
  <2>2. ASSUME NEW i \in Coming', NEW m, m = net'[i]
        PROVE  /\ \E q \in Pub : /\ fate'[q] # "none" /\ m.tag = brokerTag'[q]
                                 /\ m.ack <=> fate'[q] # "nacked"
               /\ \A c \in confirms : m.tag # c.tag
               /\ \A q \in owed : m.tag # brokerTag'[q]
    <3>1. PICK j \in Coming : m = net[j]
      BY <1>6, <2>2
    <3>2. Truthful /\ UNCHANGED <<brokerTag, fate>>
      BY <1>1, Zenon
    <3> QED
      BY <3>1, <3>2, SameNotice, Zenon
  <2>3. \A i, j \in Coming' : net'[i].tag = net'[j].tag => i = j
    <3> SUFFICES ASSUME NEW i \in Coming', NEW j \in Coming', net'[i].tag = net'[j].tag
                 PROVE  i = j
      BY Zenon
    <3>1. i + 1 \in Coming /\ j + 1 \in Coming /\ net[i + 1].tag = net[j + 1].tag
      BY <1>5
    <3>2. i + 1 = j + 1
      BY <3>1, Zenon DEF Truthful
    <3> QED
      BY <1>5, <3>2
  <2>4. \A i \in Coming' : net'[i].tag # h.tag
    <3> SUFFICES ASSUME NEW i \in Coming', net'[i].tag = h.tag PROVE FALSE
      BY Zenon
    <3>1. i + 1 \in Coming /\ i + 1 # 1 /\ net[i + 1].tag = net[1].tag
      BY <1>3, <1>5
    <3> QED
      BY <1>4, <3>1, Zenon DEF Truthful
  <2>5. \A i \in Coming' : \E q \in Pub : Answers(net[i], q)'
    BY <2>2, Zenon DEF Answers
  <2>6. \A i \in Coming', c \in confirms' : net'[i].tag # c.tag
    BY <1>1, <2>2, <2>4, Zenon
  <2>7. \A q \in owed : fate'[q] # "none" /\ \A c \in confirms' : c.tag # brokerTag'[q]
    BY <1>1, <1>3, <1>4, Zenon DEF Truthful
  <2>8. \A q \in owed, i \in Coming' : net'[i].tag # brokerTag'[q]
    BY <2>2, Zenon
  <2> QED
    BY <1>1, <2>1, <2>3, <2>5, <2>6, <2>7, <2>8, Zenon DEF Truthful
<1>12. Kept'
  <2>1. \A q \in Pub : Awaited(q)' => Awaited(q)
    BY <1>1, <1>3, <1>4, <1>6, Zenon DEF Awaited
  <2> QED
    BY <1>1, <2>1, Zenon DEF Kept, Open
<1>13. Settlements'
  BY <1>1, Zenon DEF Settlements, Open
<1>14. Received'
  <2> SUFFICES ASSUME NEW q \in received'
               PROVE  /\ fate[q] # "none" /\ q \notin doomed
                      /\ settled[q] # "ErrChannelClosed"
                      /\ pendingTag[q] = 0 \/ \E c \in confirms' : c.tag = brokerTag[q]
    BY <1>1, Zenon DEF Received
  <2>1. CASE q \in received
    BY <1>1, <2>1, Zenon DEF Received
  <2>2. CASE q \in Pub /\ brokerTag[q] = h.tag
    <3>1. fate[q] # "none"
      BY <1>8, <2>2, Zenon DEF Tags
    <3> QED
      BY <1>1, <1>2, <2>2, <3>1, Zenon DEF Settlements
  <2> QED
    BY <1>1, <2>1, <2>2, Zenon
<1> QED
  BY <1>9, <1>10, <1>11, <1>12, <1>13, <1>14, Zenon

\* A confirm sets out for a publication that is owed one, and only once.
LEMMA ConfirmsVInv == ASSUME IInv, IInv', VInv, BrokerConfirms PROVE VInv'
<1> USE DEF VInv
<1>1. PICK p \in owed :
         /\ owed' = owed \ {p}
         /\ net' = Append(net, [kind |-> "confirm", tag |-> brokerTag[p],
                                ack |-> fate[p] # "nacked"])
  BY Zenon DEF BrokerConfirms
<1> DEFINE c == [kind |-> "confirm", tag |-> brokerTag[p], ack |-> fate[p] # "nacked"]
           n == Len(net) + 1
<1>2. /\ UNCHANGED <<publishSeq, brokerSeq, wire, brokerTag, fate, call, settled,
                     pendingTag, alive, writer, cur, loop, doomed, confirms, received>>
      /\ alive /\ p \in Pub /\ fate[p] # "none"
  BY Zenon DEF BrokerConfirms, IInv, TypeOK, Truthful
<1>3. /\ \A i \in DOMAIN net : i # n /\ i \in DOMAIN net' /\ net'[i] = net[i]
      /\ \A i \in DOMAIN net' : i \in DOMAIN net \/ i = n
      /\ net'[n] = c
  <2>1. net \in Seq(Confirm \cup Return) /\ c \in Confirm /\ net' = Append(net, c)
    BY <1>1, <1>2 DEF IInv, TypeOK, Confirm
  <2> HIDE DEF c
  <2> QED
    BY <2>1
<1>4. c.kind = "confirm" /\ c.tag = brokerTag[p] /\ Answers(c, p)
  <2>1. c.ack <=> fate[p] # "nacked"
    BY Zenon
  <2> QED
    BY <1>2, <2>1, Zenon DEF Answers
<1>5. \A i \in Coming' : (i = n /\ net'[i] = c) \/ (i \in Coming /\ net'[i] = net[i])
  BY <1>3, Zenon DEF Coming
<1> HIDE DEF c, n
<1>6. Phases'
  BY <1>2, Zenon DEF Phases, Open
<1>7. Tags'
  BY <1>2, TagsKeep, NumbersTyped, Zenon DEF IInv
<1>8. Truthful'
  <2>1. \A d \in confirms' : \E q \in Pub : Answers(d, q)'
    BY <1>2, Zenon DEF Truthful, Answers
  <2>2. ASSUME NEW i \in Coming', NEW m, m = net'[i]
        PROVE  /\ \E q \in Pub : /\ fate'[q] # "none" /\ m.tag = brokerTag'[q]
                                 /\ m.ack <=> fate'[q] # "nacked"
               /\ \A d \in confirms : m.tag # d.tag
               /\ \A q \in owed' : m.tag # brokerTag'[q]
    <3>1. CASE m = c
      <4>1. \A q \in owed' : brokerTag[q] # brokerTag[p]
        <5>1. \A q \in owed' : q \in Pub /\ q # p /\ fate[q] # "none"
          BY <1>1, Zenon DEF IInv, TypeOK, Truthful
        <5> QED
          BY <1>2, <5>1, Zenon DEF Tags
      <4> QED
        BY <1>1, <1>2, <1>4, <3>1, <4>1, Zenon DEF Truthful, Answers
    <3>2. CASE i \in Coming /\ m = net[i]
      BY <1>1, <1>2, <3>2, SameNotice, Zenon
    <3> QED
      BY <1>5, <2>2, <3>1, <3>2
  <2>3. \A i \in Coming : net[i].tag # brokerTag[p]
    BY <1>1, Zenon DEF Truthful
  <2>4. \A i, j \in Coming' : net'[i].tag = net'[j].tag => i = j
    BY <1>4, <1>5, <2>3 DEF Truthful
  <2>5. \A i \in Coming' : \E q \in Pub : Answers(net[i], q)'
    BY <2>2, Zenon DEF Answers
  <2>6. \A i \in Coming', d \in confirms' : net'[i].tag # d.tag
    BY <1>2, <2>2, Zenon
  <2>7. \A q \in owed' :
            /\ fate'[q] # "none"
            /\ \A d \in confirms' : d.tag # brokerTag'[q]
            /\ \A i \in Coming' : net'[i].tag # brokerTag'[q]
    <3>1. \A q \in owed' : fate'[q] # "none" /\ \A d \in confirms' : d.tag # brokerTag'[q]
      BY <1>1, <1>2, Zenon DEF Truthful
    <3> QED
      BY <2>2, <3>1, Zenon
  <2> QED
    BY <2>1, <2>4, <2>5, <2>6, <2>7, Zenon DEF Truthful
<1>9. Kept'
  <2>1. \A q \in Pub : Awaited(q)' => Awaited(q)
    <3> SUFFICES ASSUME NEW q \in Pub, Awaited(q)' PROVE Awaited(q)
      BY Zenon
    <3>1. CASE \E i \in Coming' : net'[i].tag = brokerTag'[q] /\ fate'[q] # "none"
      <4>1. CASE brokerTag[q] = brokerTag[p]
        <5>1. q = p
          BY <1>2, <4>1, Zenon DEF Tags
        <5> QED
          BY <5>1, Zenon DEF Awaited
      <4>2. CASE brokerTag[q] # brokerTag[p]
        BY <1>2, <1>4, <1>5, <3>1, <4>2, Zenon DEF Awaited
      <4> QED
        BY <4>1, <4>2, Zenon
    <3>2. CASE ~ \E i \in Coming' : net'[i].tag = brokerTag'[q] /\ fate'[q] # "none"
      BY <1>1, <1>2, <3>2, Zenon DEF Awaited
    <3> QED
      BY <3>1, <3>2, Zenon
  <2> QED
    BY <1>2, <2>1, Zenon DEF Kept, Open
<1>10. Settlements' /\ Received'
  BY <1>2, Zenon DEF Settlements, Received, Open
<1> QED
  BY <1>6, <1>7, <1>8, <1>9, <1>10, Zenon
=============================================================================
