------------------------- MODULE PubChannelVerdicts -------------------------
(***************************************************************************)
(* Proofs that a PubChannel has room for every confirm and reports what    *)
(* the broker did, for any finite set of publications and number of        *)
(* confirm slots.  The last needs that a return names one publication      *)
(* only: then the return of an unroutable one is marked before its confirm *)
(* is resolved, and nothing else is marked.                                *)
(***************************************************************************)
EXTENDS PubChannelTags

USE DEF callVars, slotVars, ppVars, loopVars, writerVars, chanVars, brokerVars, inVars,
        MaxOutstandingConfirms

\* The broker takes a frame: no notice has its number yet, and at most a return
\* of its own joins the notices.
Taken(p, f) ==
    /\ wire # <<>> /\ p = Head(wire) /\ fate[p] = "none" /\ brokerTag[p] = 0
    /\ brokerSeq' = brokerSeq + 1 /\ owed' = owed \cup {p}
    /\ \A q \in Pub : IF q = p THEN brokerTag'[q] = brokerSeq + 1 /\ fate'[q] = f
                      ELSE brokerTag'[q] = brokerTag[q] /\ fate'[q] = fate[q]
    /\ \A i \in DOMAIN net : i \in DOMAIN net' /\ net'[i] = net[i]
    /\ \A i \in DOMAIN net' \ DOMAIN net :
           /\ net'[i].kind = "return" /\ net'[i].dest = Ident[p]
           /\ f = "unrouted" /\ p \in Mandatory
    /\ f = "unrouted" /\ p \in Mandatory /\ alive =>
           \E i \in DOMAIN net' : net'[i].kind = "return" /\ net'[i].dest = Ident[p]
    /\ ~alive => net' = net
    /\ \A c \in confirms : c.tag # brokerSeq + 1
    /\ \A i \in Coming : net[i].tag # brokerSeq + 1
    /\ Coming' = Coming

\* BrokerTakes takes the frame at the head of the wire.
LEMMA TakesOne ==
    ASSUME IInv, VInv, BrokerTakes
    PROVE  \E p \in Pub, f \in {"nacked", "routed", "unrouted"} : Taken(p, f)
<1> USE DEF VInv
<1>1. PICK p : p = Head(wire)
  BY Zenon
<1>2. PICK f \in {"nacked", "routed", "unrouted"} :
         /\ wire # <<>> /\ brokerSeq' = brokerSeq + 1
         /\ brokerTag' = [brokerTag EXCEPT ![p] = brokerSeq + 1]
         /\ fate' = [fate EXCEPT ![p] = f]
         /\ owed' = owed \cup {p}
         /\ net' = IF f = "unrouted" /\ p \in Mandatory /\ alive
                   THEN Append(net, [kind |-> "return", dest |-> Ident[p]]) ELSE net
  BY <1>1, Zenon DEF BrokerTakes
<1>3. Numbers
  BY NumbersTyped, Zenon DEF IInv
<1>4. p \in Pub /\ 1 \in DOMAIN wire /\ wire[1] = p
  <2>1. wire \in Seq(Pub) /\ wire # <<>>
    BY <1>2, <1>3, Zenon DEF Numbers
  <2> QED
    BY <1>1, <2>1
<1>5. brokerTag[p] = 0 /\ fate[p] = "none"
  BY <1>4, Zenon DEF Tags
<1>6. \A q \in Pub : IF q = p THEN brokerTag'[q] = brokerSeq + 1 /\ fate'[q] = f
                     ELSE brokerTag'[q] = brokerTag[q] /\ fate'[q] = fate[q]
  BY <1>2, <1>4, Zenon DEF IInv, TypeOK
<1>7. /\ \A c \in confirms : c.tag # brokerSeq + 1
      /\ \A i \in Coming : net[i].tag # brokerSeq + 1
  <2>1. \A q \in Pub : brokerTag[q] # brokerSeq + 1
    BY <1>3 DEF Numbers, Tags
  <2> QED
    BY <2>1 DEF Truthful, Answers
<1> DEFINE r == [kind |-> "return", dest |-> Ident[p]]
<1>8. r \in Return /\ r.kind = "return" /\ r.dest = Ident[p] /\ net \in Seq(Confirm \cup Return)
  BY <1>4 DEF Return, Dests, IInv, TypeOK
<1>9. /\ \A i \in DOMAIN net : i \in DOMAIN net' /\ net'[i] = net[i]
      /\ \A i \in DOMAIN net' \ DOMAIN net :
             net'[i] = r /\ f = "unrouted" /\ p \in Mandatory
      /\ f = "unrouted" /\ p \in Mandatory /\ alive => \E i \in DOMAIN net' : net'[i] = r
  <2>1. CASE f = "unrouted" /\ p \in Mandatory /\ alive
    <3>1. net' = Append(net, r)
      BY <1>2, <2>1, Zenon
    <3> HIDE DEF r
    <3>2. /\ Len(net) + 1 \in DOMAIN net' /\ net'[Len(net) + 1] = r
          /\ \A i \in DOMAIN net : i \in DOMAIN net' /\ net'[i] = net[i]
          /\ \A i \in DOMAIN net' \ DOMAIN net : net'[i] = r
      BY <1>8, <3>1
    <3> QED
      BY <2>1, <3>2, Zenon
  <2>2. CASE ~(f = "unrouted" /\ p \in Mandatory /\ alive)
    <3>1. net' = net
      BY <1>2, <2>2, Zenon
    <3> QED
      BY <2>2, <3>1, Zenon
  <2> QED
    BY <2>1, <2>2, Zenon
<1> HIDE DEF r
<1>10. Coming' = Coming
  BY <1>8, <1>9, Zenon DEF Coming
<1>11. ~alive => net' = net
  BY <1>2, Zenon
<1>12. /\ \A i \in DOMAIN net' \ DOMAIN net :
              /\ net'[i].kind = "return" /\ net'[i].dest = Ident[p]
              /\ f = "unrouted" /\ p \in Mandatory
       /\ f = "unrouted" /\ p \in Mandatory /\ alive =>
              \E i \in DOMAIN net' : net'[i].kind = "return" /\ net'[i].dest = Ident[p]
  BY <1>8, <1>9
<1> QED
  BY <1>1, <1>2, <1>4, <1>5, <1>6, <1>7, <1>9, <1>10, <1>11, <1>12, Zenon DEF Taken

\* The frame gets the number it was registered under.
LEMMA BrokerTakesVInv == ASSUME IInv, IInv', VInv, BrokerTakes PROVE VInv'
<1> USE DEF VInv
<1>0. PICK p \in Pub, f \in {"nacked", "routed", "unrouted"} : Taken(p, f)
  BY TakesOne, Zenon
<1>1. /\ wire # <<>> /\ p = Head(wire) /\ wire' = Tail(wire)
      /\ brokerSeq' = brokerSeq + 1 /\ owed' = owed \cup {p} /\ (~alive => net' = net)
  BY <1>0, Zenon DEF Taken, BrokerTakes
<1>2. UNCHANGED <<publishSeq, call, settled, pendingTag, alive, writer, cur, loop, doomed,
                  confirms, received>>
  BY Zenon DEF BrokerTakes
<1>3. Numbers /\ Numbers'
  BY NumbersTyped, Zenon DEF IInv
<1>4. /\ p \in Pub /\ Len(wire) \in Nat /\ Len(wire) > 0 /\ Len(wire') = Len(wire) - 1
      /\ 1 \in DOMAIN wire /\ wire[1] = p
      /\ \A i \in DOMAIN wire' : /\ i \in Nat /\ i + 1 \in DOMAIN wire /\ i + 1 # 1
                                 /\ wire'[i] = wire[i + 1]
      /\ \A i \in DOMAIN wire :
             wire[i] \in Pub /\ i \in Nat /\ (i # 1 => i - 1 \in DOMAIN wire')
  <2>1. wire \in Seq(Pub) /\ wire # <<>> /\ wire' = Tail(wire) /\ p = Head(wire)
    BY <1>1, <1>3, Zenon DEF Numbers
  <2> QED
    BY <2>1
<1>5. /\ brokerTag[p] = 0 /\ fate[p] = "none" /\ ~Unsent(p)
      /\ pendingTag[p] \in {0, brokerSeq + 1}
  BY <1>0, <1>4, Zenon DEF Taken, Tags, Unsent
<1>6. \A q \in Pub : IF q = p THEN brokerTag'[q] = brokerSeq + 1 /\ fate'[q] = f
                     ELSE brokerTag'[q] = brokerTag[q] /\ fate'[q] = fate[q]
  BY <1>0, Zenon DEF Taken
<1>8. /\ Coming' = Coming /\ \A i \in Coming : net'[i] = net[i] /\ net[i].tag # brokerSeq + 1
      /\ \A c \in confirms : c.tag # brokerSeq + 1
  BY <1>0, Zenon DEF Taken, Coming
<1>9. Phases'
  <2>1. ~alive => net' = <<>>
    BY <1>1, Zenon DEF Phases
  <2> QED
    BY <1>2, <2>1, Zenon DEF Phases, Open
<1>10. \A q \in Pub : Unsent(q)' => Unsent(q)
  <2> SUFFICES ASSUME NEW q \in Pub, Unsent(q)' PROVE Unsent(q)
    BY Zenon
  <2>1. q # p
    BY <1>6, Zenon DEF Unsent
  <2>2. \A i \in DOMAIN wire : wire[i] # q
    <3> SUFFICES ASSUME NEW i \in DOMAIN wire, wire[i] = q PROVE FALSE
      BY Zenon
    <3>1. i # 1
      BY <1>4, <2>1, Zenon
    <3>2. i - 1 \in DOMAIN wire' /\ wire'[i - 1] = wire[i]
      BY <1>4, <3>1
    <3> QED
      BY <3>2, Zenon DEF Unsent
  <2> QED
    BY <1>6, <2>1, <2>2, Zenon DEF Unsent
<1>11. Tags'
  <2>1. publishSeq' = brokerSeq' + Len(wire')
    BY <1>1, <1>2, <1>3, <1>4 DEF Numbers, Tags
  <2>2. \A i, j \in DOMAIN wire' : wire'[i] = wire'[j] => i = j
    <3> SUFFICES ASSUME NEW i \in DOMAIN wire', NEW j \in DOMAIN wire', wire'[i] = wire'[j]
                 PROVE  i = j
      BY Zenon
    <3>1. i + 1 \in DOMAIN wire /\ j + 1 \in DOMAIN wire /\ wire[i + 1] = wire[j + 1]
      BY <1>4
    <3>2. i + 1 = j + 1
      BY <3>1, Zenon DEF Tags
    <3> QED
      BY <1>4, <3>2
  <2>3. \A i \in DOMAIN wire' : brokerTag'[wire'[i]] = 0
    BY <1>4, <1>6 DEF Tags
  <2>4. \A i \in DOMAIN wire' : pendingTag'[wire'[i]] \in {0, brokerSeq' + i}
    <3> SUFFICES ASSUME NEW i \in DOMAIN wire'
                 PROVE  pendingTag[wire'[i]] \in {0, brokerSeq' + i}
      BY <1>2, Zenon
    <3>1. pendingTag[wire[i + 1]] \in {0, brokerSeq + (i + 1)}
      BY <1>4, Zenon DEF Tags
    <3> QED
      BY <1>1, <1>3, <1>4, <3>1 DEF Numbers
  <2>5. \A q \in Pub : brokerTag'[q] <= brokerSeq' /\ (brokerTag'[q] = 0 <=> fate'[q] = "none")
    <3> SUFFICES ASSUME NEW q \in Pub
                 PROVE  /\ brokerTag'[q] <= brokerSeq'
                        /\ brokerTag'[q] = 0 <=> fate'[q] = "none"
      BY Zenon
    <3>1. brokerSeq' = brokerSeq + 1 /\ brokerSeq \in Nat /\ brokerTag[q] \in Nat
      BY <1>1, <1>3, Zenon DEF Numbers
    <3>2. brokerTag[q] <= brokerSeq /\ (brokerTag[q] = 0 <=> fate[q] = "none")
      BY Zenon DEF Tags
    <3> QED
      BY <1>6, <3>1, <3>2
  <2>6. \A q \in Pub : brokerTag'[q] # 0 => pendingTag[q] \in {0, brokerTag'[q]}
    BY <1>5, <1>6, Zenon DEF Tags
  <2>7. \A q \in Pub : pendingTag[q] # 0 /\ Unsent(q)' =>
            q = cur /\ writer = "write" /\ pendingTag[q] = publishSeq + 1
    BY <1>10, Zenon DEF Tags
  <2>8. \A q, s \in Pub : brokerTag'[q] = brokerTag'[s] /\ brokerTag'[q] # 0 => q = s
    <3>1. \A q \in Pub : brokerTag[q] # brokerSeq + 1
      BY <1>3 DEF Numbers, Tags
    <3> QED
      BY <1>6, <3>1 DEF Tags
  <2> QED
    BY <1>2, <2>1, <2>2, <2>3, <2>4, <2>5, <2>6, <2>7, <2>8, Zenon DEF Tags
<1>13. Truthful'
  <2>1. \A q \in Pub : fate[q] # "none" =>
            q # p /\ fate'[q] = fate[q] /\ brokerTag'[q] = brokerTag[q]
    BY <1>5, <1>6, Zenon
  <2>2. \A q \in Pub : \A c : Answers(c, q) => Answers(c, q)'
    BY <2>1, Zenon DEF Answers
  <2>3. \A c \in confirms' : \E q \in Pub : Answers(c, q)'
    BY <1>2, <2>2, Zenon DEF Truthful
  <2>4. \A i \in Coming' : \E q \in Pub : Answers(net[i], q)'
    BY <1>8, <2>1 DEF Truthful, Answers
  <2>5. \A i, j \in Coming' : net'[i].tag = net'[j].tag => i = j
    BY <1>8 DEF Truthful
  <2>6. \A i \in Coming', c \in confirms' : net'[i].tag # c.tag
    BY <1>2, <1>8 DEF Truthful
  <2>7. \A q \in owed' :
            /\ fate'[q] # "none"
            /\ \A c \in confirms' : c.tag # brokerTag'[q]
            /\ \A i \in Coming' : net'[i].tag # brokerTag'[q]
    <3>1. \A q \in owed : q \in Pub /\ fate'[q] # "none" /\ brokerTag'[q] = brokerTag[q]
      BY <2>1, Zenon DEF Truthful, IInv, TypeOK
    <3>2. fate'[p] # "none" /\ brokerTag'[p] = brokerSeq + 1
      BY <1>4, <1>6, Zenon
    <3>3. \A q \in owed : /\ \A c \in confirms : c.tag # brokerTag'[q]
                          /\ \A i \in Coming' : net'[i].tag # brokerTag'[q]
      BY <1>8, <3>1 DEF Truthful
    <3>4. \A i \in Coming' : net'[i].tag # brokerSeq + 1
      BY <1>8
    <3>5. confirms' = confirms /\ owed' = owed \cup {p}
      BY <1>1, <1>2, Zenon
    <3>6. /\ \A c \in confirms : c.tag # brokerTag'[p]
          /\ \A i \in Coming' : net'[i].tag # brokerTag'[p]
      BY <1>8, <3>2, <3>4
    <3> QED
      BY <3>1, <3>2, <3>3, <3>5, <3>6, Zenon
  <2> QED
    BY <2>3, <2>4, <2>5, <2>6, <2>7, Zenon DEF Truthful
<1>14. Kept'
  <2>1. \A q \in Pub : Awaited(q)' => Awaited(q)
    <3> SUFFICES ASSUME NEW q \in Pub, Awaited(q)', q # p PROVE Awaited(q)
      BY <1>4, Zenon DEF Awaited
    <3>1. brokerTag'[q] = brokerTag[q] /\ fate'[q] = fate[q] /\ (q \in owed' => q \in owed)
      BY <1>1, <1>6, Zenon
    <3>2. (\E i \in DOMAIN wire' : wire'[i] = q) => \E i \in DOMAIN wire : wire[i] = q
      BY <1>4, Zenon
    <3> QED
      BY <1>2, <1>8, <3>1, <3>2, Zenon DEF Awaited
  <2> QED
    BY <1>2, <2>1, Zenon DEF Kept, Open
<1>15. Settlements'
  <2>1. settled[p] \notin {"nil", "ErrUnroutable", "ErrPublishNacked"}
    BY <1>4, <1>5, Zenon DEF Settlements
  <2> QED
    BY <1>2, <1>6, <2>1, Zenon DEF Settlements, Open
<1>16. Received'
  <2>1. \A q \in received : q \in Pub /\ q # p
    BY <1>5, Zenon DEF Received, IInv, TypeOK
  <2>2. \A q \in received : fate'[q] = fate[q] /\ brokerTag'[q] = brokerTag[q]
    BY <1>6, <2>1, Zenon
  <2> QED
    BY <1>2, <2>2, Zenon DEF Received
<1> QED
  BY <1>9, <1>11, <1>13, <1>14, <1>15, <1>16, Zenon

\* No step of a caller, the writer, the loop, amqp091, the broker or the
\* environment breaks it.
LEMMA NextVInv == ASSUME IInv, IInv', VInv, [Next]_vars PROVE VInv'
<1>1. CASE UNCHANGED vars
  <2>1. UNCHANGED <<publishSeq, brokerSeq, wire, brokerTag, fate, owed, pendingTag, net,
                    confirms, received, loop, doomed, alive, writer, cur, settled, call>>
    BY <1>1, Zenon DEF vars
  <2>2. \A p \in Pub : call[p] \in Verdict => settled[p] = call[p]
    BY Zenon DEF VInv, Settlements
  <2> QED
    BY <2>1, <2>2, QuietKeeps, Zenon DEF IInv
<1>2. CASE Next
  BY <1>2, CallerVInv, ElsewhereVInv, RegisterVInv, WritesVInv, FailsVInv, ShutdownVInv,
     TakesVInv, ConfirmVInv, DeliversVInv, BrokerTakesVInv, ConfirmsVInv, Zenon
     DEF Next, WriterNext, LoopNext
<1> QED
  BY <1>1, <1>2, Zenon

\* Every behaviour of the publishing channel keeps the tags and the notices in
\* order, whatever the identities of the publications.
LEMMA Orderly == Spec => [](IInv /\ VInv)
<1>1. IInv /\ VInv /\ [Next]_vars => (IInv /\ VInv)'
  BY StepIInv, NextVInv, Zenon
<1>2. Init => IInv /\ VInv
  BY InitIInv, InitVInv, Zenon
<1> QED
  BY <1>1, <1>2, PTL DEF Spec

\* Two confirms in the buffer answer two publications.
LEMMA AnswersOne ==
    ASSUME TypeOK, VInv, NEW p \in Pub, NEW c \in confirms, NEW d \in confirms,
           Answers(c, p), Answers(d, p)
    PROVE  c = d
<1>1. c \in Confirm /\ d \in Confirm /\ c.tag = d.tag /\ (c.ack <=> d.ack)
  BY Zenon DEF Answers, TypeOK
<1> QED
  BY <1>1 DEF Confirm

\* The confirms in the buffer and the next one answer as many publications, all
\* of them holding slots of MaxOutstandingConfirms: amqp091's reader, which
\* serves every channel of the connection, never blocks on this one
\* (pubchan.go:108-110).
THEOREM ConfirmsAlwaysFit == Spec => []ConfirmsFit
<1>1. IInv /\ VInv => ConfirmsFit
  <2> SUFFICES ASSUME IInv, VInv, ReaderHasConfirm
               PROVE  Cardinality(confirms) < MaxOutstandingConfirms
    BY Zenon DEF ConfirmsFit
  <2>1. Open
    BY Zenon DEF ReaderHasConfirm, VInv, Phases, Open
  <2>2. 1 \in Coming /\ net[1] = Head(net)
    BY DEF ReaderHasConfirm, Coming, IInv, TypeOK
  <2>3. PICK h \in Pub : Answers(net[1], h)
    BY <2>2, Zenon DEF VInv, Truthful
  <2>4. h \in Held
    <3>1. Awaited(h)
      BY <2>2, <2>3, Zenon DEF Awaited, Answers
    <3>2. pendingTag[h] # 0 /\ settled[h] = "no"
      BY <2>1, <3>1, Zenon DEF VInv, Kept
    <3> QED
      BY <3>2, Zenon DEF IInv, Tracked, InHand, Held
  <2> DEFINE f == [c \in confirms |-> CHOOSE p \in Pub : Answers(c, p)]
  <2>5. \A c \in confirms : f[c] \in Pub /\ Answers(c, f[c])
    BY Zenon DEF VInv, Truthful
  <2>6. \A c \in confirms : f[c] \in Held \ {h}
    <3> HIDE DEF f
    <3> SUFFICES ASSUME NEW c \in confirms PROVE f[c] \in Held \ {h}
      BY Zenon
    <3>1. Awaited(f[c])
      BY <2>5, Zenon DEF Awaited, Answers
    <3>2. pendingTag[f[c]] # 0 /\ settled[f[c]] = "no"
      BY <2>1, <2>5, <3>1, Zenon DEF VInv, Kept
    <3>3. f[c] # h
      BY <2>2, <2>3, <2>5 DEF VInv, Truthful, Answers
    <3> QED
      BY <2>5, <3>2, <3>3, Zenon DEF IInv, Tracked, InHand, Held
  <2>7. f \in Injection(confirms, Held \ {h})
    <3>1. f \in [confirms -> Held \ {h}]
      BY <2>6, Zenon
    <3> HIDE DEF f
    <3>2. \A c, d \in confirms : f[c] = f[d] => c = d
      BY <2>5, AnswersOne, Zenon DEF IInv
    <3> QED
      BY <3>1, <3>2, Zenon DEF Injection, IsInjective
  <2>8. IsFiniteSet(Held \ {h}) /\ Cardinality(Held \ {h}) = Cardinality(Held) - 1
    BY <2>4, HeldFinite, FS_RemoveElement, Zenon
  <2> HIDE DEF f
  <2>9. Cardinality(confirms) <= Cardinality(Held) - 1 /\ Cardinality(confirms) \in Nat
    <3>1. IsFiniteSet(confirms) /\ Cardinality(confirms) <= Cardinality(Held \ {h})
      BY <2>7, <2>8, FS_Injection, Zenon
    <3> QED
      BY <2>8, <3>1, FS_CardinalityType, Zenon
  <2>10. Cardinality(Held) = slots /\ slots \in 0..MaxOutstandingConfirms
    BY Zenon DEF IInv, SlotAccounting, TypeOK
  <2> QED
    BY <2>9, <2>10, PubAssumption DEF IInv, TypeOK
<1> QED
  BY <1>1, Orderly, PTL

-----------------------------------------------------------------------------
\* No two mandatory publications share message id, exchange and routing key, as
\* where every message has an id of its own.
DistinctReturns == \A p, q \in Mandatory : Ident[p] = Ident[q] => p = q

\* A return on its way, and a mark of markReturned, is that of a publication
\* that reached no queue.
Marked ==
    /\ \A p \in returned : fate[p] = "unrouted"
    /\ \A i \in DOMAIN net : net[i].kind = "return" =>
           \E p \in Mandatory : Ident[p] = net[i].dest /\ fate[p] = "unrouted"

\* While a mandatory publication that reached no queue is pending and not yet
\* marked, its return is on its way, ahead of its confirm.
Unmarked(p) == fate[p] = "unrouted" /\ pendingTag[p] # 0 /\ p \notin returned
Leads(p) == \E i \in DOMAIN net :
                /\ net[i].kind = "return" /\ net[i].dest = Ident[p]
                /\ \A j \in Coming : j < i => net[j].tag # brokerTag[p]
Ahead ==
    \A p \in Mandatory : Unmarked(p) =>
        (\A c \in confirms : c.tag # brokerTag[p]) /\ (alive => Leads(p))

\* So a verdict on routing is the broker's.
Routed ==
    \A p \in Pub :
        /\ settled[p] = "ErrUnroutable" => fate[p] = "unrouted"
        /\ settled[p] = "nil" /\ p \in Mandatory => fate[p] = "routed"

\* Returns reach the publications they are about.
RInv == Marked /\ Ahead /\ Routed

\* A fresh channel has returned nothing.
LEMMA InitRInv == Init => RInv
<1> SUFFICES ASSUME Init PROVE RInv
  BY Zenon
<1>1. DOMAIN net = {}
  BY DEF Init
<1> QED
  BY <1>1, PubAssumption, Zenon DEF Init, RInv, Marked, Ahead, Unmarked, Routed

\* A return stays ahead while nothing moves.
LEMMA SameLeads == ASSUME UNCHANGED <<net, brokerTag>>, NEW p PROVE Leads(p)' <=> Leads(p)
<1>1. Coming' = Coming
  BY Zenon DEF Coming
<1> QED
  BY <1>1, Zenon DEF Leads

\* The steps that move no notice and pass no verdict of the broker's.
LEMMA QuietRInv ==
    ASSUME RInv, UNCHANGED <<fate, brokerTag, returned, net, confirms, alive>>,
           \A p \in Pub : fate[p] # "none" => pendingTag'[p] \in {0, pendingTag[p]},
           \A p \in Pub : \/ settled'[p] = settled[p]
                          \/ settled'[p] \notin {"nil", "ErrUnroutable"}
    PROVE  RInv'
<1>1. Marked'
  BY Zenon DEF RInv, Marked
<1>2. Ahead'
  <2>1. \A p \in Mandatory : Unmarked(p)' => Unmarked(p)
    BY PubAssumption, Zenon DEF Unmarked
  <2> QED
    BY <2>1, SameLeads, Zenon DEF RInv, Ahead
<1>3. Routed'
  BY Zenon DEF RInv, Routed
<1> QED
  BY <1>1, <1>2, <1>3, Zenon DEF RInv

\* publish, the writer, the shutdown and the environment.
LEMMA ElsewhereRInv ==
    ASSUME IInv, VInv, RInv,
           \/ \E p \in Pub : CallerNext(p) \/ CancelContext(p) \/ TimePasses(p)
           \/ \E d \in Dests \cap Volatile : Rebind(d)
           \/ WriterNext \/ OwnerCloses
           \/ LoopSeesClose \/ LoopTakesPending \/ LoopCloses \/ LoopSettles
    PROVE  RInv'
<1>1. UNCHANGED <<fate, brokerTag, returned, net, confirms, alive>>
  BY Zenon DEF CallerNext, PublishStart, TakeSlot, GiveUpAdmission, HandToWriter, GiveUpHandoff,
     SeeCommit, SeeOutcome, StopWaiting, RetireIfWedged, CancelContext, TimePasses, Rebind,
     WriterNext, WriterVet, WriterRegister, WriterWrites, WriterFails, WriterStamps,
     WriterExits,
     OwnerCloses, LoopSeesClose, LoopTakesPending, LoopCloses, LoopSettles
<1>2. \A p \in Pub : fate[p] # "none" => pendingTag'[p] \in {0, pendingTag[p]}
  <2>1. CASE WriterRegister
    <3>1. fate[cur] = "none"
      BY <2>1, Zenon DEF WriterRegister, IInv, Unwritten, Unsent
    <3> QED
      BY <2>1, <3>1, Zenon DEF WriterRegister
  <2>2. CASE WriterFails \/ LoopTakesPending
    BY <2>2, Zenon DEF WriterFails, LoopTakesPending, IInv, TypeOK
  <2>3. CASE ~WriterRegister /\ ~WriterFails /\ ~LoopTakesPending
    <3>1. pendingTag' = pendingTag
      BY <2>3, Zenon DEF CallerNext, PublishStart, TakeSlot, GiveUpAdmission, HandToWriter,
         GiveUpHandoff, SeeCommit, SeeOutcome, StopWaiting, CancelContext, TimePasses, Rebind,
         WriterNext, WriterVet, WriterWrites, WriterStamps, WriterExits,
         OwnerCloses, LoopSeesClose, LoopCloses, LoopSettles
    <3> QED
      BY <3>1, Zenon
  <2> QED
    BY <2>1, <2>2, <2>3, Zenon
<1>3. \A p \in Pub : settled'[p] = settled[p] \/ settled'[p] \notin {"nil", "ErrUnroutable"}
  <2>1. \/ UNCHANGED settled
        \/ \E p \in Pub, r \in NotSent \cup {"ErrChannelClosed"} : Settle(p, r)
    <3>1. CASE WriterVet \/ WriterFails
      <4>1. cur \in Pub
        BY <3>1, Zenon DEF WriterVet, WriterFails, IInv, WriterHolds
      <4>2. \E r \in {"ctxErr", "errChannelGone", "writeErr"} :
                Settle(cur, r) \/ UNCHANGED settled
        BY <3>1, Zenon DEF WriterVet, WriterFails
      <4> QED
        BY <4>1, <4>2, Zenon DEF NotSent
    <3>2. CASE LoopSettles
      <4>1. UNCHANGED settled \/ \E p \in Pub : Settle(p, "ErrChannelClosed")
        BY <3>2, Zenon DEF LoopSettles, IInv, TypeOK
      <4> QED
        BY <4>1, Zenon
    <3>3. CASE ~WriterVet /\ ~WriterFails /\ ~LoopSettles
      BY <3>3, Zenon DEF CallerNext, PublishStart, TakeSlot, GiveUpAdmission, HandToWriter,
         GiveUpHandoff, SeeCommit, SeeOutcome, StopWaiting, CancelContext, TimePasses, Rebind,
         WriterNext, WriterRegister, WriterWrites, WriterStamps, WriterExits, OwnerCloses,
         LoopSeesClose, LoopTakesPending, LoopCloses, NotSent
    <3> QED
      BY <3>1, <3>2, <3>3, Zenon
  <2> QED
    BY <2>1, Zenon DEF IInv, TypeOK, Settle, NotSent
<1> QED
  BY <1>1, <1>2, <1>3, QuietRInv, Zenon

\* resolve: what is marked was returned, and what is not marked was routed.
LEMMA ConfirmRInv == ASSUME IInv, VInv, RInv, LoopConfirm PROVE RInv'
<1>1. UNCHANGED <<brokerTag, fate, net, alive, returned>>
  BY Zenon DEF LoopConfirm
<1>2. PICK c \in confirms, p \in Pub :
         /\ Answers(c, p) /\ pendingTag[p] = c.tag /\ settled[p] = "no"
         /\ confirms' = confirms \ {c}
         /\ pendingTag' = [pendingTag EXCEPT ![p] = 0]
         /\ settled' = [settled EXCEPT ![p] = ResolveVerdict(p, c.ack)]
  BY ConfirmResolves, Zenon
<1>3. \A q \in Pub : pendingTag'[q] \in {0, pendingTag[q]}
  BY <1>2, Zenon DEF IInv, TypeOK
<1>4. \A q \in Pub : IF q = p THEN settled'[q] = ResolveVerdict(p, c.ack)
                     ELSE settled'[q] = settled[q]
  BY <1>2, Zenon DEF IInv, TypeOK
<1>5. Marked'
  BY <1>1, Zenon DEF RInv, Marked
<1>6. Ahead'
  <2>1. \A q \in Mandatory : Unmarked(q)' => Unmarked(q)
    BY <1>1, <1>3, PubAssumption, Zenon DEF Unmarked
  <2> QED
    BY <1>1, <1>2, <2>1, SameLeads, Zenon DEF RInv, Ahead
<1>7. Routed'
  <2>1. ResolveVerdict(p, c.ack) = "ErrUnroutable" => fate[p] = "unrouted"
    BY Zenon DEF ResolveVerdict, RInv, Marked
  <2>2. ResolveVerdict(p, c.ack) = "nil" /\ p \in Mandatory => fate[p] = "routed"
    <3> SUFFICES ASSUME c.ack, p \notin returned, p \in Mandatory PROVE fate[p] = "routed"
      BY Zenon DEF ResolveVerdict
    <3>1. c.tag = brokerTag[p] /\ fate[p] \in {"routed", "unrouted"}
      BY <1>2, Zenon DEF Answers, IInv, TypeOK
    <3>2. pendingTag[p] # 0
      BY <1>2, <3>1, Zenon DEF Answers, VInv, Tags
    <3> QED
      BY <1>2, <3>1, <3>2, Zenon DEF RInv, Ahead, Unmarked
  <2> QED
    BY <1>1, <1>4, <2>1, <2>2, Zenon DEF RInv, Routed
<1> QED
  BY <1>5, <1>6, <1>7, Zenon DEF RInv

\* A notice leaves from the front: the returns behind it stay ahead of their
\* confirms.
LEMMA LeadsOn ==
    ASSUME TypeOK, net # <<>>, net' = Tail(net), UNCHANGED brokerTag, NEW p, Leads(p)
    PROVE  \/ Leads(p)' /\ (net[1].kind = "confirm" => net[1].tag # brokerTag[p])
           \/ net[1].kind = "return" /\ net[1].dest = Ident[p]
<1>1. PICK i \in DOMAIN net : /\ net[i].kind = "return" /\ net[i].dest = Ident[p]
                              /\ \A j \in Coming : j < i => net[j].tag # brokerTag[p]
  BY Zenon DEF Leads
<1>2. CASE i = 1
  BY <1>1, <1>2, Zenon
<1>3. CASE i # 1
  <2>1. net \in Seq(Confirm \cup Return)
    BY Zenon DEF TypeOK
  <2>2. /\ i - 1 \in DOMAIN net' /\ net'[i - 1] = net[i] /\ 1 < i /\ i \in Nat
        /\ 1 \in DOMAIN net
        /\ \A j \in DOMAIN net' : j \in Nat /\ j + 1 \in DOMAIN net /\ net'[j] = net[j + 1]
    BY <1>3, <2>1
  <2>3. net[1].kind = "confirm" => net[1].tag # brokerTag[p]
    BY <1>1, <2>2, Zenon DEF Coming
  <2>4. \A j \in Coming' : j < i - 1 => net'[j].tag # brokerTag[p]
    <3> SUFFICES ASSUME NEW j \in Coming', j < i - 1 PROVE net'[j].tag # brokerTag[p]
      BY Zenon
    <3>1. j \in DOMAIN net' /\ net'[j].kind = "confirm"
      BY Zenon DEF Coming
    <3>2. j + 1 \in Coming /\ j + 1 < i /\ net'[j] = net[j + 1]
      BY <2>2, <3>1 DEF Coming
    <3> QED
      BY <1>1, <3>2, Zenon
  <2>5. net'[i - 1].kind = "return" /\ net'[i - 1].dest = Ident[p]
    BY <1>1, <2>2, Zenon
  <2>6. Leads(p)'
    BY <2>2, <2>4, <2>5, Zenon DEF Leads
  <2> QED
    BY <2>3, <2>6, Zenon
<1> QED
  BY <1>2, <1>3, Zenon

\* markReturned marks the publication that the broker returned.
LEMMA ReturnRInv ==
    ASSUME DistinctReturns, IInv, VInv, RInv, LoopReturn
    PROVE  RInv'
<1> DEFINE S == Candidates(Head(net).dest)
<1>1. /\ UNCHANGED <<fate, brokerTag, pendingTag, settled, confirms, alive>>
      /\ net # <<>> /\ Head(net).kind = "return" /\ net' = Tail(net)
      /\ returned' = returned \cup Oldest(S)
  BY Zenon DEF LoopReturn
<1>2. /\ 1 \in DOMAIN net /\ net[1] = Head(net)
      /\ \A i \in DOMAIN net' : i + 1 \in DOMAIN net /\ net'[i] = net[i + 1]
  BY <1>1 DEF IInv, TypeOK
<1>3. PICK p \in Mandatory : Ident[p] = Head(net).dest /\ fate[p] = "unrouted"
  BY <1>1, <1>2, Zenon DEF RInv, Marked
<1>4. S \subseteq {p}
  BY <1>3, Zenon DEF Candidates, DistinctReturns
<1>5. p \in S => p \in Oldest(S)
  <2>1. p \in Pub /\ pendingTag[p] \in Nat
    BY PubAssumption, Zenon DEF IInv, TypeOK
  <2>2. pendingTag[p] <= pendingTag[p]
    BY <2>1
  <2> QED
    BY <1>4, <2>2, Zenon DEF Oldest
<1>6. Marked'
  <2>1. \A q \in returned' : fate'[q] = "unrouted"
    BY <1>1, <1>3, <1>4, Zenon DEF Oldest, RInv, Marked
  <2>2. \A i \in DOMAIN net' : net'[i].kind = "return" =>
            \E q \in Mandatory : Ident[q] = net'[i].dest /\ fate'[q] = "unrouted"
    BY <1>1, <1>2 DEF RInv, Marked
  <2> QED
    BY <2>1, <2>2, Zenon DEF Marked
<1>7. Ahead'
  <2> SUFFICES ASSUME NEW q \in Mandatory, Unmarked(q)'
               PROVE  (\A c \in confirms : c.tag # brokerTag[q]) /\ (alive => Leads(q)')
    BY <1>1, Zenon DEF Ahead
  <2>1. Unmarked(q) /\ q \notin Oldest(S)
    BY <1>1, Zenon DEF Unmarked
  <2>2. (\A c \in confirms : c.tag # brokerTag[q]) /\ (alive => Leads(q))
    BY <2>1, Zenon DEF RInv, Ahead
  <2>3. ~(net[1].kind = "return" /\ net[1].dest = Ident[q])
    <3> SUFFICES ASSUME net[1].dest = Ident[q] PROVE FALSE
      BY Zenon
    <3>1. q = p
      BY <1>2, <1>3 DEF DistinctReturns
    <3>2. p \in S
      BY <1>3, <2>1, <3>1, PubAssumption, Zenon DEF Candidates, Pending, Unmarked
    <3> QED
      BY <1>5, <2>1, <3>1, <3>2, Zenon
  <2>4. alive => Leads(q)'
    BY <1>1, <2>2, <2>3, LeadsOn, Zenon DEF IInv
  <2> QED
    BY <2>2, <2>4, Zenon
<1>8. Routed'
  BY <1>1, Zenon DEF RInv, Routed
<1> QED
  BY <1>6, <1>7, <1>8, Zenon DEF RInv

\* amqp091 delivers a confirm: the return of its publication, if there was one,
\* has been delivered.
LEMMA DeliversRInv == ASSUME IInv, VInv, RInv, ReaderDelivers PROVE RInv'
<1>1. /\ UNCHANGED <<fate, brokerTag, pendingTag, settled, returned, alive>>
      /\ net # <<>> /\ Head(net).kind = "confirm" /\ net' = Tail(net)
      /\ confirms' = confirms \cup {Head(net)}
  BY Zenon DEF ReaderDelivers, ReaderHasConfirm
<1>2. /\ 1 \in DOMAIN net /\ net[1] = Head(net)
      /\ \A i \in DOMAIN net' : i + 1 \in DOMAIN net /\ net'[i] = net[i + 1]
  BY <1>1 DEF IInv, TypeOK
<1>3. alive
  BY <1>1, Zenon DEF VInv, Phases
<1>4. Marked'
  <2>1. \A i \in DOMAIN net' : net'[i].kind = "return" =>
            \E q \in Mandatory : Ident[q] = net'[i].dest /\ fate'[q] = "unrouted"
    BY <1>1, <1>2 DEF RInv, Marked
  <2> QED
    BY <1>1, <2>1, Zenon DEF RInv, Marked
<1>5. Ahead'
  <2> SUFFICES ASSUME NEW q \in Mandatory, Unmarked(q)'
               PROVE  (\A c \in confirms' : c.tag # brokerTag[q]) /\ Leads(q)'
    BY <1>1, Zenon DEF Ahead
  <2>1. (\A c \in confirms : c.tag # brokerTag[q]) /\ Leads(q)
    BY <1>1, <1>3, Zenon DEF RInv, Ahead, Unmarked
  <2>2. Leads(q)' /\ net[1].tag # brokerTag[q]
    BY <1>1, <1>2, <2>1, LeadsOn, Zenon DEF IInv
  <2> QED
    BY <1>1, <1>2, <2>1, <2>2, Zenon
<1>6. Routed'
  BY <1>1, Zenon DEF RInv, Routed
<1> QED
  BY <1>4, <1>5, <1>6, Zenon DEF RInv

\* The broker returns what it cannot route before it can confirm it.
LEMMA BrokerTakesRInv == ASSUME IInv, VInv, RInv, BrokerTakes PROVE RInv'
<1>0. PICK p \in Pub, f \in {"nacked", "routed", "unrouted"} : Taken(p, f)
  BY TakesOne, Zenon
<1>1. UNCHANGED <<pendingTag, settled, returned, alive, confirms>>
  BY Zenon DEF BrokerTakes
<1>2. \A q \in Pub : fate[q] # "none" => /\ fate'[q] = fate[q] /\ q # p
                                         /\ brokerTag'[q] = brokerTag[q]
  BY <1>0, Zenon DEF Taken
<1>3. Marked'
  <2>1. \A q \in returned' : fate'[q] = "unrouted"
    BY <1>1, <1>2, Zenon DEF RInv, Marked, IInv, TypeOK
  <2>2. ASSUME NEW i \in DOMAIN net', net'[i].kind = "return"
        PROVE  \E q \in Mandatory : Ident[q] = net'[i].dest /\ fate'[q] = "unrouted"
    <3>1. CASE i \in DOMAIN net
      <4>1. net'[i] = net[i]
        BY <1>0, <3>1, Zenon DEF Taken
      <4>2. \E q \in Mandatory : Ident[q] = net[i].dest /\ fate[q] = "unrouted"
        BY <2>2, <3>1, <4>1 DEF RInv, Marked
      <4> QED
        BY <1>2, <4>1, <4>2, PubAssumption
    <3>2. CASE i \notin DOMAIN net
      BY <1>0, <3>2, Zenon DEF Taken
    <3> QED
      BY <3>1, <3>2, Zenon
  <2> QED
    BY <2>1, <2>2, Zenon DEF Marked
<1>4. Ahead'
  <2> SUFFICES ASSUME NEW q \in Mandatory, Unmarked(q)'
               PROVE  (\A c \in confirms : c.tag # brokerTag'[q]) /\ (alive => Leads(q)')
    BY <1>1, Zenon DEF Ahead
  <2>1. q \in Pub
    BY PubAssumption, Zenon
  <2>2. CASE q = p
    <3>1. f = "unrouted" /\ brokerTag'[q] = brokerSeq + 1
      BY <1>0, <2>1, <2>2, Zenon DEF Taken, Unmarked
    <3>2. /\ \A c \in confirms : c.tag # brokerTag'[q]
          /\ \A j \in Coming' : net'[j].tag # brokerTag'[q]
      BY <1>0, <3>1 DEF Taken, Coming
    <3>3. alive => \E i \in DOMAIN net' : net'[i].kind = "return" /\ net'[i].dest = Ident[q]
      BY <1>0, <2>2, <3>1, Zenon DEF Taken
    <3> QED
      BY <3>2, <3>3, Zenon DEF Leads
  <2>3. CASE q # p
    <3>1. Unmarked(q) /\ brokerTag'[q] = brokerTag[q]
      BY <1>0, <1>1, <2>1, <2>3, Zenon DEF Taken, Unmarked
    <3>2. (\A c \in confirms : c.tag # brokerTag[q]) /\ (alive => Leads(q))
      BY <3>1, Zenon DEF RInv, Ahead
    <3>3. /\ \A i \in DOMAIN net : i \in DOMAIN net' /\ net'[i] = net[i]
          /\ Coming' = Coming
      BY <1>0, Zenon DEF Taken
    <3>4. Leads(q) => Leads(q)'
      BY <3>1, <3>3 DEF Leads, Coming
    <3> QED
      BY <3>1, <3>2, <3>4, Zenon
  <2> QED
    BY <2>2, <2>3, Zenon
<1>5. Routed'
  <2>1. settled[p] \notin {"nil", "ErrUnroutable"}
    BY <1>0, Zenon DEF Taken, VInv, Settlements
  <2>2. \A q \in Pub \ {p} : fate'[q] = fate[q]
    BY <1>0, Zenon DEF Taken
  <2> QED
    BY <1>1, <2>1, <2>2, Zenon DEF RInv, Routed
<1> QED
  BY <1>3, <1>4, <1>5, Zenon DEF RInv

\* A confirm joins the notices behind the return of its publication.
LEMMA BrokerConfirmsRInv == ASSUME IInv, VInv, RInv, BrokerConfirms PROVE RInv'
<1>1. PICK p \in owed :
         net' = Append(net, [kind |-> "confirm", tag |-> brokerTag[p],
                             ack |-> fate[p] # "nacked"])
  BY Zenon DEF BrokerConfirms
<1>2. UNCHANGED <<fate, brokerTag, pendingTag, settled, returned, alive, confirms>>
  BY Zenon DEF BrokerConfirms
<1> DEFINE c == [kind |-> "confirm", tag |-> brokerTag[p], ack |-> fate[p] # "nacked"]
           n == Len(net) + 1
<1>3. net \in Seq(Confirm \cup Return) /\ c \in Confirm /\ net' = Append(net, c)
  BY <1>1 DEF IInv, TypeOK, Confirm
<1>4. c.kind # "return"
  BY Zenon
<1> HIDE DEF c
<1>5. /\ \A i \in DOMAIN net : i < n /\ ~(n < i) /\ i \in DOMAIN net' /\ net'[i] = net[i]
      /\ \A i \in DOMAIN net' : i \in DOMAIN net \/ (i = n /\ net'[i] = c)
  BY <1>3
<1> HIDE DEF n
<1>6. Marked'
  <2>1. ASSUME NEW i \in DOMAIN net', net'[i].kind = "return"
        PROVE  \E q \in Mandatory : Ident[q] = net'[i].dest /\ fate'[q] = "unrouted"
    <3>1. i \in DOMAIN net /\ net'[i] = net[i]
      BY <1>4, <1>5, <2>1
    <3> QED
      BY <1>2, <2>1, <3>1 DEF RInv, Marked
  <2> QED
    BY <1>2, <2>1, Zenon DEF RInv, Marked
<1>7. Ahead'
  <2>1. \A q \in Mandatory : Leads(q) => Leads(q)'
    <3> SUFFICES ASSUME NEW q \in Mandatory, Leads(q) PROVE Leads(q)'
      BY Zenon
    <3>1. PICK i \in DOMAIN net : /\ net[i].kind = "return" /\ net[i].dest = Ident[q]
                                  /\ \A j \in Coming : j < i => net[j].tag # brokerTag[q]
      BY Zenon DEF Leads
    <3>2. \A j \in Coming' : j < i => j \in Coming /\ net'[j] = net[j]
      BY <1>5, Zenon DEF Coming
    <3>3. \A j \in Coming' : j < i => net'[j].tag # brokerTag'[q]
      BY <1>2, <3>1, <3>2
    <3>4. i \in DOMAIN net' /\ net'[i].kind = "return" /\ net'[i].dest = Ident[q]
      BY <1>5, <3>1, Zenon
    <3> QED
      BY <3>3, <3>4, Zenon DEF Leads
  <2>2. \A q \in Mandatory : Unmarked(q)' => Unmarked(q)
    BY <1>2, Zenon DEF Unmarked
  <2> QED
    BY <1>2, <2>1, <2>2, Zenon DEF RInv, Ahead
<1>8. Routed'
  BY <1>2, Zenon DEF RInv, Routed
<1> QED
  BY <1>6, <1>7, <1>8, Zenon DEF RInv

\* A dead channel brings neither returns nor confirms.
LEMMA DiesRInv == ASSUME RInv, ChannelDies PROVE RInv'
<1>1. DOMAIN net' = {}
  BY DEF ChannelDies
<1>2. ~alive' /\ UNCHANGED <<fate, brokerTag, pendingTag, settled, returned, confirms>>
  BY Zenon DEF ChannelDies
<1>3. Marked'
  BY <1>1, <1>2, Zenon DEF RInv, Marked
<1>4. Ahead'
  <2>1. alive
    BY Zenon DEF ChannelDies
  <2> QED
    BY <1>2, <2>1, Zenon DEF RInv, Ahead, Unmarked
<1>5. Routed'
  BY <1>2, Zenon DEF RInv, Routed
<1> QED
  BY <1>3, <1>4, <1>5, Zenon DEF RInv

\* No step sends a return astray.
LEMMA NextRInv == ASSUME DistinctReturns, IInv, VInv, RInv, [Next]_vars PROVE RInv'
<1>1. CASE UNCHANGED vars
  <2>1. UNCHANGED <<fate, brokerTag, pendingTag, settled, returned, net, confirms, alive>>
    BY <1>1, Zenon DEF vars
  <2> QED
    BY <2>1, QuietRInv, Zenon
<1>2. CASE Next
  BY <1>2, ElsewhereRInv, ConfirmRInv, ReturnRInv, DeliversRInv, BrokerTakesRInv,
     BrokerConfirmsRInv, DiesRInv, Zenon DEF Next, LoopNext
<1> QED
  BY <1>1, <1>2, Zenon

\* Whatever dies, fails, is nacked, returned, confirmed late or out of order:
\* when no two mandatory publications share message id, exchange and routing
\* key, publish reports what the broker did with that publication, its tag is
\* the broker's number for it, and a confirm received before the close wins
\* (pubchan.go:139-223, 265-302).
THEOREM TrueVerdicts == ASSUME DistinctReturns PROVE Spec => []VerdictsTrue
<1>1. Init => RInv
  BY InitRInv
<1>2. IInv /\ VInv /\ RInv /\ [Next]_vars => RInv'
  BY NextRInv
<1>3. IInv /\ VInv /\ RInv => VerdictsTrue
  <2> SUFFICES ASSUME IInv, VInv, RInv PROVE VerdictsTrue
    BY Zenon
  <2>1. TagsAligned
    BY NumbersTyped, Aligned, Zenon DEF IInv, VInv
  <2>2. ReceivedConfirmWins
    BY Zenon DEF VInv, Received, ReceivedConfirmWins
  <2>3. \A p \in Pub : call[p] \in Verdict => settled[p] = call[p]
    BY Zenon DEF VInv, Settlements
  <2>4. RefusalIsReal
    BY <2>3, Zenon DEF VInv, Settlements, RInv, Routed, RefusalIsReal, Verdict
  <2>5. NilMeansRouted
    BY <2>3, Zenon DEF VInv, Settlements, RInv, Routed, NilMeansRouted, Verdict
  <2> QED
    BY <2>1, <2>2, <2>4, <2>5, Zenon DEF VerdictsTrue
<1> QED
  BY <1>1, <1>2, <1>3, Orderly, PTL DEF Spec

\* Whatever the message ids are, a tag is the broker's number for its
\* publication and a confirm received before the close decides the verdict
\* (pubchan.go:139-223, 265-287).
THEOREM AlignedAlways == Spec => [](TagsAligned /\ ReceivedConfirmWins)
<1>1. IInv /\ VInv => TagsAligned /\ ReceivedConfirmWins
  BY NumbersTyped, Aligned, Zenon DEF IInv, VInv, Received, ReceivedConfirmWins
<1> QED
  BY <1>1, Orderly, PTL
=============================================================================
