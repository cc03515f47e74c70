---------------------------- MODULE StreamProofs ----------------------------
(***************************************************************************)
(* Proofs about Stream: what the service, the frames on their way and the  *)
(* caller's side keep through every step; that a request is acknowledged   *)
(* only behind its final frame; that a streaming call keeps its promise    *)
(* when its handler's re-runs produce the same frames; and that the count  *)
(* of what all streams buffer is exact.                                    *)
(***************************************************************************)
EXTENDS Stream, TLAPS

\* The server side: a delivery is held while its handler runs, and a run that
\* has not failed to publish holds exactly its latest response back.
Service(c) ==
    /\ handler[c] # "none" => request[c] = "held"
    /\ handler[c] = "ack" \/ request[c] = "acked" => c \in finals \cup cancelled
    /\ sent[c] <= plan[c].n
    /\ handler[c] \in {"runs", "finish"} /\ c \notin broken =>
          \/ pending[c] = Empty /\ seq[c] = 0 /\ sent[c] = 0
          \/ pending[c] # Empty /\ pending[c] = sent[c] /\ seq[c] = sent[c] - 1
          \/ handler[c] = "finish" /\ result[c] = "err" /\ pending[c] = Empty /\ seq[c] = sent[c]

ServerTyped ==
    /\ plan \in [Calls -> Plans]
    /\ request \in [Calls -> {"none", "queued", "held", "acked", "dead"}]
    /\ handler \in [Calls -> {"none", "runs", "finish", "ack"}]
    /\ sent \in [Calls -> 0..MaxFrames] /\ pending \in [Calls -> 0..MaxFrames]
    /\ seq \in [Calls -> 0..(MaxFrames + 1)]
    /\ result \in [Calls -> {"nil", "err"}]
Server == ServerTyped /\ \A c \in Calls : Service(c)

\* The frames on their way.
Wire ==
    /\ net \in [Calls -> Seq(Frame)]
    /\ hand = NoFrame \/ hand \in [call : Calls, frame : Frame]

\* The client side: a stream with an error has ended, a loop has a verdict once
\* it leaves, and one that waits with something to see has a wake-up coming.
Waiting(c) ==
    /\ verdict[c] = "none" <=> loop[c] \notin {"leaving", "over"}
    /\ err[c] # "none" \/ loop[c] = "over" => c \in ended
    /\ err[c] = "released" => loop[c] = "over"
    /\ loop[c] = "over" => chunks[c] = <<>>
    /\ loop[c] = "wait" /\ (c \in ended \/ chunks[c] # <<>>) => c \in notify

ClientTyped ==
    /\ chunks \in [Calls -> Seq(1..Panic)] /\ lastSeq \in [Calls -> -1..(MaxFrames + 1)]
    /\ err \in [Calls -> {"none", "sequence", "backpressure", "disconnected", "released"}]
    /\ loop \in [Calls -> {"idle", "publishing", "loop", "body", "wait", "leaving", "over"}]
    /\ yielded \in [Calls -> Seq(1..MaxFrames)]
    /\ verdict \in [Calls -> Errors \cup {"none", "clean", "remote"}]
Client == ClientTyped /\ \A c \in Calls : Waiting(c)

-----------------------------------------------------------------------------
\* What the frames of a call are when every run produces what its plan says:
\* numbered from 0, the last of them final; the answer to a panic has no number.
Last(p) == IF ~p.ok THEN p.n ELSE IF p.n = 0 THEN 0 ELSE p.n - 1
Body(p, i) == IF i < p.n THEN i + 1 ELSE IF p.ok THEN Empty ELSE Failure
Genuine(p, f) ==
    \/ f.seq = -1 /\ ~f.final /\ f.body = Panic
    \/ f.seq \in 0..Last(p) /\ f.body = Body(p, f.seq) /\ (f.final <=> f.seq = Last(p))

\* A run that finishes has sent everything and returned what it had to.
Returned(c) ==
    handler[c] = "finish" /\ c \notin broken \cup cancelled =>
        sent[c] = plan[c].n /\ result[c] = (IF plan[c].ok THEN "nil" ELSE "err")

\* Up to a panic's answer, what is buffered are the responses in order after
\* the k that the caller has been given, and then the handler's error.
Ordered(p, k, buf) ==
    \A i \in 1..Len(buf) :
        (\A j \in 1..i : buf[j] # Panic) =>
            buf[i] = IF k + i <= p.n THEN k + i ELSE Failure

\* Without a panic's answer, given and buffered are all that the frames up to
\* number last carried.
Counted(p, k, buf, last) ==
    (\A i \in 1..Len(buf) : buf[i] # Panic) =>
        k + Len(buf) = IF p.ok /\ p.n = 0 THEN 0 ELSE last + 1

\* Only a handler that fails has its error buffered.
Blamed(p, buf) == \A i \in 1..Len(buf) : buf[i] = Failure => ~p.ok

Given(c) ==
    /\ Len(yielded[c]) <= plan[c].n
    /\ lastSeq[c] <= Last(plan[c])
    /\ Blamed(plan[c], chunks[c])
    /\ c \in ended /\ err[c] = "none" => lastSeq[c] = Last(plan[c])
    /\ verdict[c] = "none" /\ err[c] = "none" =>
          /\ Ordered(plan[c], Len(yielded[c]), chunks[c])
          /\ Counted(plan[c], Len(yielded[c]), chunks[c], lastSeq[c])

Authentic ==
    /\ \A c \in Calls : \A i \in 1..Len(net[c]) : Genuine(plan[c], net[c][i])
    /\ hand # NoFrame => Genuine(plan[hand.call], hand.frame)

Faithful == Authentic /\ \A c \in Calls : Returned(c) /\ Given(c)

IInv == Server /\ Wire /\ Client

-----------------------------------------------------------------------------
USE DEF requestVars, serverVars, netVars, clientVars, loopVars

\* What is taken from the front of a buffer, and what stays in it.
LEMMA HeadTyped ==
    ASSUME NEW S, NEW s \in Seq(S), s # <<>>
    PROVE  /\ Head(s) \in S /\ Tail(s) \in Seq(S) /\ Head(s) = s[1] /\ 1 \in 1..Len(s)
           /\ Len(s) \in Nat /\ Len(Tail(s)) = Len(s) - 1
           /\ \A i \in 1..Len(Tail(s)) : i + 1 \in 1..Len(s) /\ Tail(s)[i] = s[i + 1]
  OBVIOUS

\* A handler produces at most MaxFrames responses.
LEMMA PlanTyped ==
    ASSUME ServerTyped, NEW c \in Calls
    PROVE  plan[c].n \in 0..MaxFrames /\ plan[c].ok \in BOOLEAN /\ MaxFrames \in Nat
  BY StreamAssumption DEF ServerTyped

\* What each step leaves alone: the service's steps the caller's side, the
\* caller's steps the service, and none of them what a call is to produce.
LEMMA ServiceFrame ==
    ASSUME NEW c \in Calls, ServiceNext(c) \/ HandlerPanics(c) \/ ServiceLost(c)
    PROVE  UNCHANGED <<plan, hand, clientVars, loopVars>>
<1>1. CASE HandlerStarts(c) \/ HandlerReturns(c) \/ Acks(c) \/ ServiceLost(c)
  BY <1>1, Zenon DEF HandlerStarts, HandlerReturns, Acks, ServiceLost
<1>2. CASE HandlerSends(c) \/ HandlerPanics(c)
  BY <1>2, Zenon DEF HandlerSends, HandlerPanics
<1>3. CASE Finishes(c)
  BY <1>3, Zenon DEF Finishes
<1> QED
  BY <1>1, <1>2, <1>3, Zenon DEF ServiceNext

\* The caller's steps change nothing of the service.
LEMMA CallerFrame ==
    ASSUME NEW c \in Calls,
           \/ CallerNext(c) \/ CallStarts(c) \/ LoopGivesUp(c) \/ ContextEnds(c) \/ FailsPending(c)
    PROVE  UNCHANGED <<plan, request, serverVars, net, hand>>
<1>1. CASE PublishReturns(c) \/ LoopTakes(c) \/ BodyEnds(c)
  BY <1>1, Zenon DEF PublishReturns, LoopTakes, BodyEnds
<1>2. CASE LoopWakes(c) \/ Releases(c) \/ CallStarts(c)
  BY <1>2, Zenon DEF LoopWakes, Releases, CallStarts
<1>3. CASE LoopGivesUp(c) \/ ContextEnds(c) \/ FailsPending(c)
  BY <1>3, Zenon DEF LoopGivesUp, ContextEnds, FailsPending
<1> QED
  BY <1>1, <1>2, <1>3, Zenon DEF CallerNext

\* A frame that is routed or lost touches neither side.
LEMMA FrameFrame ==
    ASSUME NEW c \in Calls, FrameLost(c) \/ Routes(c)
    PROVE  UNCHANGED <<plan, request, serverVars, clientVars, loopVars>>
  BY Zenon DEF FrameLost, Routes

\* So does a request that arrives,
LEMMA RequestFrame ==
    ASSUME NEW c \in Calls, RequestArrives(c)
    PROVE  UNCHANGED <<plan, serverVars, net, hand, clientVars, loopVars>>
  BY Zenon DEF RequestArrives

\* and a cancel notice that arrives leaves the caller alone.
LEMMA NoticeFrame ==
    ASSUME NEW c \in Calls, NoticeArrives(c)
    PROVE  UNCHANGED <<plan, net, hand, clientVars, loop, ctxDone, yielded, verdict>>
  BY Zenon DEF NoticeArrives

\* The reader and a lost connection change only the streams and the frames.
LEMMA ReaderFrame ==
    ASSUME Pushes \/ CallerLost \/ UNCHANGED vars
    PROVE  UNCHANGED <<plan, request, serverVars, loopVars>>
  BY Zenon DEF Pushes, CallerLost, vars

\* What a call is to produce never changes.
LEMMA PlanKept == ASSUME [Next]_vars PROVE plan' = plan
  BY ServiceFrame, CallerFrame, FrameFrame, RequestFrame, NoticeFrame, ReaderFrame, Zenon
     DEF Next, ReaderNext

\* A failed attempt leaves the request queued or dead.
LEMMA RetriesTyped ==
    ASSUME ServerTyped, NEW c \in Calls, Retries(c)
    PROVE  /\ request' \in [Calls -> {"none", "queued", "held", "acked", "dead"}]
           /\ request'[c] \in {"queued", "dead"}
           /\ \A d \in Calls \ {c} : request'[d] = request[d]
  BY Zenon DEF ServerTyped, Retries

\* serverStream.publish counts the frame once the broker has confirmed it.
LEMMA PublishesTyped ==
    ASSUME ServerTyped, NEW c \in Calls, NEW b \in Bodies, NEW fin \in BOOLEAN,
           NEW out \in Outcomes,
           seq[c] \in 0..MaxFrames, Publishes(c, b, fin, out)
    PROVE  /\ seq' \in [Calls -> 0..(MaxFrames + 1)] /\ \A d \in Calls \ {c} : seq'[d] = seq[d]
           /\ seq'[c] = IF out = "ok" THEN seq[c] + 1 ELSE seq[c]
           /\ finals \subseteq finals' /\ (fin /\ out = "ok" => c \in finals')
<1>1. MaxFrames \in Nat
  BY StreamAssumption, Zenon
<1>2. /\ seq' \in [Calls -> 0..(MaxFrames + 1)] /\ \A d \in Calls \ {c} : seq'[d] = seq[d]
      /\ seq'[c] = IF out = "ok" THEN seq[c] + 1 ELSE seq[c]
  BY <1>1 DEF Publishes, ServerTyped
<1> QED
  BY <1>2, Zenon DEF Publishes

\* What a run holds back, and the number its next frame has.
LEMMA NextFrame ==
    ASSUME Server, NEW c \in Calls, handler[c] \in {"runs", "finish"}, c \notin broken
    PROVE  /\ seq[c] \in 0..MaxFrames /\ pending[c] \in 0..MaxFrames
           /\ pending[c] # Empty => pending[c] = sent[c] /\ seq[c] = sent[c] - 1
<1>1. Service(c) /\ ServerTyped /\ plan[c].n \in 0..MaxFrames /\ MaxFrames \in Nat
  BY PlanTyped, Zenon DEF Server
<1> QED
  BY <1>1 DEF Service, ServerTyped, Empty

\* A step of one call leaves the service of the others as it is.
LEMMA ServiceElsewhere ==
    ASSUME NEW d \in Calls, Service(d), plan' = plan, request'[d] = request[d],
           handler'[d] = handler[d], sent'[d] = sent[d], pending'[d] = pending[d],
           seq'[d] = seq[d], result'[d] = result[d], d \in broken' <=> d \in broken,
           finals \subseteq finals', d \in cancelled => d \in cancelled'
    PROVE  Service(d)'
  BY Zenon DEF Service

\* The end of a run, however it comes about, leaves nothing running for its
\* delivery, which is acknowledged only after the final frame or a cancel.
LEMMA OverKeeps ==
    ASSUME Server, NEW c \in Calls, Over(c), UNCHANGED <<plan, sent, broken, result, cancelled>>,
           request' \in [Calls -> {"none", "queued", "held", "acked", "dead"}],
           request'[c] = "acked" => c \in finals \cup cancelled,
           \A d \in Calls \ {c} : request'[d] = request[d],
           seq' \in [Calls -> 0..(MaxFrames + 1)], \A d \in Calls \ {c} : seq'[d] = seq[d],
           UNCHANGED pending \/ pending' = [pending EXCEPT ![c] = Empty], finals \subseteq finals'
    PROVE  Server'
<1>1. /\ handler' \in [Calls -> {"none", "runs", "finish", "ack"}] /\ handler'[c] = "none"
      /\ \A d \in Calls \ {c} : handler'[d] = handler[d]
  BY Zenon DEF Server, ServerTyped, Over
<1>2. pending' \in [Calls -> 0..MaxFrames] /\ \A d \in Calls \ {c} : pending'[d] = pending[d]
  BY StreamAssumption DEF Server, ServerTyped, Empty
<1>3. ServerTyped'
  BY <1>1, <1>2, Zenon DEF Server, ServerTyped
<1>4. Service(c)'
  BY <1>1, Zenon DEF Server, Service
<1>5. ASSUME NEW d \in Calls, d # c PROVE Service(d)'
  BY <1>1, <1>2, <1>5, ServiceElsewhere, Zenon DEF Server
<1> QED
  BY <1>3, <1>4, <1>5, Zenon DEF Server

\* Send: the response before goes out, and this one is held back.
LEMMA SendsKeeps == ASSUME Server, NEW c \in Calls, HandlerSends(c) PROVE Server'
<1>1. ServerTyped /\ Service(c) /\ plan[c].n \in 0..MaxFrames /\ MaxFrames \in Nat
  BY PlanTyped, Zenon DEF Server
<1>2. PICK out \in Outcomes :
         /\ IF pending[c] = Empty THEN out = "ok" /\ UNCHANGED <<seq, finals>>
            ELSE Publishes(c, pending[c], FALSE, out)
         /\ broken' = IF out = "ok" THEN broken ELSE broken \cup {c}
         /\ pending' = IF out = "ok" THEN [pending EXCEPT ![c] = sent[c] + 1] ELSE pending
         /\ sent' = [sent EXCEPT ![c] = @ + 1]
  BY Zenon DEF HandlerSends
<1>3. /\ handler[c] = "runs" /\ sent[c] < plan[c].n /\ c \notin broken \cup cancelled
      /\ UNCHANGED <<plan, request, handler, result, cancelled>>
  BY Zenon DEF HandlerSends
<1>4. /\ seq' \in [Calls -> 0..(MaxFrames + 1)] /\ \A d \in Calls \ {c} : seq'[d] = seq[d]
      /\ finals \subseteq finals'
      /\ out = "ok" => seq'[c] = sent[c]
  <2>1. CASE pending[c] = Empty
    BY <1>1, <1>2, <1>3, <2>1, Zenon DEF ServerTyped, Service
  <2>2. CASE pending[c] # Empty
    <3>1. /\ seq[c] \in 0..MaxFrames /\ seq[c] = sent[c] - 1 /\ sent[c] \in Int
          /\ pending[c] \in Bodies
      BY <1>1, <1>3, <2>2, NextFrame DEF ServerTyped, Bodies, Panic
    <3>2. /\ seq' \in [Calls -> 0..(MaxFrames + 1)] /\ \A d \in Calls \ {c} : seq'[d] = seq[d]
          /\ finals \subseteq finals' /\ seq'[c] = IF out = "ok" THEN seq[c] + 1 ELSE seq[c]
      BY <1>1, <1>2, <2>2, <3>1, PublishesTyped, Zenon
    <3> QED
      BY <3>1, <3>2
  <2> QED
    BY <2>1, <2>2, Zenon
<1>5. /\ sent[c] \in Nat /\ sent[c] + 1 \in 0..MaxFrames /\ sent'[c] = sent[c] + 1
      /\ sent' \in [Calls -> 0..MaxFrames] /\ pending' \in [Calls -> 0..MaxFrames]
      /\ \A d \in Calls \ {c} : sent'[d] = sent[d] /\ pending'[d] = pending[d]
      /\ out = "ok" => pending'[c] = sent[c] + 1
  BY <1>1, <1>2, <1>3 DEF ServerTyped
<1>6. ServerTyped'
  BY <1>1, <1>3, <1>4, <1>5, Zenon DEF ServerTyped
<1>7. Service(c)'
  <2>1. c \notin broken' => out = "ok"
    BY <1>2, Zenon
  <2> QED
    BY <1>1, <1>3, <1>4, <1>5, <2>1 DEF Service, Empty
<1>8. ASSUME NEW d \in Calls, d # c PROVE Service(d)'
  <2>1. d \in broken' <=> d \in broken
    BY <1>2, <1>8, Zenon
  <2> QED
    BY <1>3, <1>4, <1>5, <1>8, <2>1, ServiceElsewhere, Zenon DEF Server
<1> QED
  BY <1>6, <1>7, <1>8, Zenon DEF Server

\* finish: what is held, then the last word; a run whose publish failed is over.
LEMMA FinishKeeps == ASSUME Server, NEW c \in Calls, Finishes(c) PROVE Server'
<1>1. /\ ServerTyped /\ Service(c) /\ handler[c] = "finish"
      /\ UNCHANGED <<plan, sent, broken, result, cancelled>>
  BY Zenon DEF Server, Finishes
\* The handler goes on or waits for its acknowledgement.
<1>2. ASSUME NEW h \in {"finish", "ack"}, handler' = [handler EXCEPT ![c] = h], UNCHANGED request,
             seq' \in [Calls -> 0..(MaxFrames + 1)], \A d \in Calls \ {c} : seq'[d] = seq[d],
             UNCHANGED pending \/ pending' = [pending EXCEPT ![c] = Empty],
             finals \subseteq finals',
             h = "ack" => c \in finals' \cup cancelled,
             h = "finish" => result[c] = "err" /\ pending'[c] = Empty /\ seq'[c] = sent[c]
      PROVE  Server'
  <2>1. /\ pending' \in [Calls -> 0..MaxFrames] /\ handler'[c] = h
        /\ handler' \in [Calls -> {"none", "runs", "finish", "ack"}]
        /\ \A d \in Calls \ {c} : pending'[d] = pending[d] /\ handler'[d] = handler[d]
    BY <1>1, <1>2, StreamAssumption DEF ServerTyped, Empty
  <2>2. ServerTyped'
    BY <1>1, <1>2, <2>1, Zenon DEF ServerTyped
  <2>3. Service(c)'
    BY <1>1, <1>2, <2>1, Zenon DEF Service
  <2>4. ASSUME NEW d \in Calls, d # c PROVE Service(d)'
    BY <1>1, <1>2, <2>1, <2>4, ServiceElsewhere, Zenon DEF Server
  <2> QED
    BY <2>2, <2>3, <2>4, Zenon DEF Server
<1>3. CASE c \in cancelled
  <2>1. /\ handler' = [handler EXCEPT ![c] = "ack"]
        /\ UNCHANGED <<request, pending, seq, finals>>
    BY <1>3, Zenon DEF Finishes
  <2> QED
    BY <1>1, <1>2, <1>3, <2>1, Zenon DEF ServerTyped
<1>4. CASE c \in broken \ cancelled
  <2>1. Retries(c) /\ Over(c) /\ UNCHANGED <<pending, seq, finals>>
    BY <1>4, Zenon DEF Finishes
  <2> QED
    BY <1>1, <2>1, RetriesTyped, OverKeeps, Zenon DEF ServerTyped
<1>5. CASE c \notin broken \cup cancelled /\ FinishHasPending(c)
  <2>1. PICK out \in Outcomes :
           /\ Publishes(c, pending[c], FALSE, out)
           /\ pending' = [pending EXCEPT ![c] = Empty]
           /\ IF out = "ok" THEN UNCHANGED <<request, handler>> ELSE Retries(c) /\ Over(c)
    BY <1>5, Zenon DEF Finishes
  <2>2. /\ seq[c] \in 0..MaxFrames /\ seq[c] = sent[c] - 1 /\ sent[c] \in Int /\ result[c] = "err"
        /\ pending[c] \in Bodies
    BY <1>1, <1>5, NextFrame, StreamAssumption DEF ServerTyped, FinishHasPending, Bodies, Panic
  <2>3. /\ seq' \in [Calls -> 0..(MaxFrames + 1)] /\ \A d \in Calls \ {c} : seq'[d] = seq[d]
        /\ finals \subseteq finals' /\ seq'[c] = IF out = "ok" THEN seq[c] + 1 ELSE seq[c]
    BY <1>1, <2>1, <2>2, PublishesTyped, Zenon
  <2>4. CASE out # "ok"
    BY <1>1, <2>1, <2>3, <2>4, RetriesTyped, OverKeeps, Zenon
  <2>5. CASE out = "ok"
    <3>1. handler' = [handler EXCEPT ![c] = "finish"] /\ pending'[c] = Empty
      BY <1>1, <2>1, <2>5, Zenon DEF ServerTyped
    <3>2. seq'[c] = sent[c]
      BY <2>2, <2>3, <2>5
    <3> QED
      BY <1>2, <2>1, <2>2, <2>3, <2>5, <3>1, <3>2, Zenon
  <2> QED
    BY <2>4, <2>5, Zenon
<1>6. CASE c \notin broken \cup cancelled /\ ~FinishHasPending(c)
  <2>1. PICK out \in Outcomes :
           /\ Publishes(c, IF result[c] = "err" THEN Failure ELSE pending[c], TRUE, out)
           /\ IF out = "ok" THEN handler' = [handler EXCEPT ![c] = "ack"] /\ UNCHANGED request
              ELSE Retries(c) /\ Over(c)
    BY <1>6, Zenon DEF Finishes
  <2>2. UNCHANGED pending
    BY <1>6, Zenon DEF Finishes
  <2>3. seq[c] \in 0..MaxFrames /\ (IF result[c] = "err" THEN Failure ELSE pending[c]) \in Bodies
    BY <1>1, <1>6, NextFrame, StreamAssumption DEF Bodies, Panic, Failure
  <2>4. /\ seq' \in [Calls -> 0..(MaxFrames + 1)] /\ \A d \in Calls \ {c} : seq'[d] = seq[d]
        /\ finals \subseteq finals' /\ (out = "ok" => c \in finals')
    BY <1>1, <2>1, <2>3, PublishesTyped, Zenon
  <2>5. CASE out # "ok"
    BY <1>1, <2>1, <2>2, <2>4, <2>5, RetriesTyped, OverKeeps, Zenon
  <2>6. CASE out = "ok"
    BY <1>2, <2>1, <2>2, <2>4, <2>6, Zenon
  <2> QED
    BY <2>5, <2>6, Zenon
<1> QED
  BY <1>3, <1>4, <1>5, <1>6, Zenon

\* The server side through every step.
LEMMA ServerKeeps == ASSUME Server, [Next]_vars PROVE Server'
<1>1. ASSUME NEW c \in Calls, HandlerStarts(c) PROVE Server'
  <2>1. ServerTyped'
    BY <1>1, StreamAssumption DEF Server, ServerTyped, HandlerStarts, Empty
  <2>2. Service(c)'
    BY <1>1, PlanTyped DEF Server, ServerTyped, Service, HandlerStarts, Empty
  <2>3. ASSUME NEW d \in Calls, d # c PROVE Service(d)'
    BY <1>1, <2>3 DEF Server, ServerTyped, Service, HandlerStarts
  <2> QED
    BY <2>1, <2>2, <2>3, Zenon DEF Server
<1>2. ASSUME NEW c \in Calls, HandlerReturns(c) PROVE Server'
  <2>1. ServerTyped'
    BY <1>2, Zenon DEF Server, ServerTyped, HandlerReturns
  <2>2. Service(c)'
    BY <1>2, Zenon DEF Server, ServerTyped, Service, HandlerReturns
  <2>3. ASSUME NEW d \in Calls, d # c PROVE Service(d)'
    BY <1>2, <2>3 DEF Server, ServerTyped, Service, HandlerReturns
  <2> QED
    BY <2>1, <2>2, <2>3, Zenon DEF Server
<1>3. ASSUME NEW c \in Calls, Acks(c) \/ HandlerPanics(c) \/ ServiceLost(c) PROVE Server'
  <2>1. /\ UNCHANGED <<plan, sent, pending, seq, broken, result, cancelled, finals>> /\ Over(c)
        /\ \/ \E r \in {"queued", "acked"} :
                 /\ request' = [request EXCEPT ![c] = r]
                 /\ r = "acked" => handler[c] = "ack" \/ c \in cancelled
           \/ Retries(c)
    BY <1>3, Zenon DEF Acks, HandlerPanics, ServiceLost
  <2>2. /\ request' \in [Calls -> {"none", "queued", "held", "acked", "dead"}]
        /\ request'[c] = "acked" => handler[c] = "ack" \/ c \in cancelled
        /\ \A d \in Calls \ {c} : request'[d] = request[d]
    <3>1. ASSUME NEW r \in {"queued", "acked"}, request' = [request EXCEPT ![c] = r]
          PROVE  /\ request' \in [Calls -> {"none", "queued", "held", "acked", "dead"}]
                 /\ request'[c] = r /\ \A d \in Calls \ {c} : request'[d] = request[d]
      BY <3>1, Zenon DEF Server, ServerTyped
    <3> QED
      BY <2>1, <3>1, RetriesTyped, Zenon DEF Server
  <2>3. handler[c] = "ack" => c \in finals \cup cancelled
    BY Zenon DEF Server, Service
  <2> QED
    BY <2>1, <2>2, <2>3, OverKeeps, Zenon DEF Server, ServerTyped
<1>4. ASSUME NEW c \in Calls, NoticeArrives(c) PROVE Server'
  BY <1>4, ServiceElsewhere, Zenon DEF Server, ServerTyped, NoticeArrives
<1>5. ASSUME NEW c \in Calls, RequestArrives(c) PROVE Server'
  <2>1. ServerTyped'
    BY <1>5, Zenon DEF Server, ServerTyped, RequestArrives
  <2>2. ASSUME NEW d \in Calls PROVE Service(d)'
    BY <1>5, Zenon DEF Server, ServerTyped, Service, RequestArrives
  <2> QED
    BY <2>1, <2>2, Zenon DEF Server
<1>6. ASSUME UNCHANGED <<plan, request, serverVars>> PROVE Server'
  BY <1>6 DEF Server, ServerTyped, Service
<1>7. ASSUME NEW c \in Calls, ServiceNext(c) PROVE Server'
  BY <1>1, <1>2, <1>3, <1>7, SendsKeeps, FinishKeeps, Zenon DEF ServiceNext
<1> QED
  BY <1>3, <1>4, <1>5, <1>6, <1>7, CallerFrame, FrameFrame, ReaderFrame, Zenon DEF Next,
     ReaderNext

\* The server side in every state.
LEMMA ServerInvariance == Spec => []Server
<1>1. Init => Server
  <2> SUFFICES ASSUME Init PROVE Server
    BY Zenon
  <2>1. ServerTyped
    BY StreamAssumption DEF Init, ServerTyped, Empty
  <2>2. \A c \in Calls : Service(c)
    BY <2>1, PlanTyped DEF Init, Service, Empty
  <2> QED
    BY <2>1, <2>2, Zenon DEF Server
<1>2. Server /\ [Next]_vars => Server'
  BY ServerKeeps, Zenon
<1> QED
  BY <1>1, <1>2, PTL DEF Spec

\* Whatever is lost, retried or cancelled: the request of a stream is
\* acknowledged only once the last frame is with the broker, or the caller has
\* cancelled it (stream.go:89-114).
THEOREM AckedAfterFinal == Spec => []FinalBeforeAck
<1>1. Server => FinalBeforeAck
  BY Zenon DEF Server, Service, FinalBeforeAck
<1> QED
  BY <1>1, ServerInvariance, PTL

-----------------------------------------------------------------------------
\* The frames on their way, and the caller's side of the stream.

\* A publish adds its frame to what is on its way, or nothing.
LEMMA PublishesFrame ==
    ASSUME NEW c \in Calls, NEW b \in Bodies, NEW fin \in BOOLEAN, NEW out,
           Publishes(c, b, fin, out),
           plan[c].n \in 0..MaxFrames, seq[c] \in 0..MaxFrames,
           Returned(c) => /\ seq[c] <= Last(plan[c]) /\ b = Body(plan[c], seq[c])
                          /\ fin <=> seq[c] = Last(plan[c])
    PROVE  \/ UNCHANGED net
           \/ \E f \in Frame : /\ net' = [net EXCEPT ![c] = Append(@, f)]
                               /\ Returned(c) => Genuine(plan[c], f)
<1> DEFINE f == [seq |-> seq[c], final |-> fin, body |-> b]
<1>1. MaxFrames \in Nat
  BY StreamAssumption, Zenon
<1>2. f \in Frame
  BY <1>1 DEF Frame
<1>3. f.seq = seq[c] /\ (f.final <=> fin) /\ f.body = b
  BY Zenon
<1>4. UNCHANGED net \/ net' = [net EXCEPT ![c] = Append(@, f)]
  BY Zenon DEF Publishes
<1> HIDE DEF f
<1>5. Last(plan[c]) \in Nat
  BY <1>1 DEF Last
<1>6. Returned(c) => Genuine(plan[c], f)
  BY <1>3, <1>5 DEF Genuine
<1> QED
  BY <1>2, <1>4, <1>6, Zenon

\* A step of the service adds one frame of its call at most, and a genuine one
\* when every run produces the same.
LEMMA ServicePublishes ==
    ASSUME Server, NEW c \in Calls, ServiceNext(c) \/ HandlerPanics(c)
    PROVE  \/ UNCHANGED net
           \/ \E f \in Frame : /\ net' = [net EXCEPT ![c] = Append(@, f)]
                               /\ Returned(c) => Genuine(plan[c], f)
<1>1. /\ ServerTyped /\ Service(c) /\ plan[c].n \in 0..MaxFrames /\ plan[c].ok \in BOOLEAN
      /\ MaxFrames \in Nat
  BY PlanTyped, Zenon DEF Server
<1>2. CASE HandlerSends(c)
  <2>1. CASE pending[c] = Empty
    BY <1>2, <2>1, Zenon DEF HandlerSends
  <2>2. CASE pending[c] # Empty
    <3>1. PICK out \in Outcomes : Publishes(c, pending[c], FALSE, out)
      BY <1>2, <2>2, Zenon DEF HandlerSends
    <3>2. /\ seq[c] \in 0..MaxFrames /\ pending[c] \in 0..MaxFrames /\ sent[c] < plan[c].n
          /\ pending[c] = sent[c] /\ seq[c] = sent[c] - 1
      BY <1>2, <2>2, NextFrame, Zenon DEF HandlerSends
    <3>3. seq[c] <= Last(plan[c]) /\ seq[c] # Last(plan[c]) /\ pending[c] = Body(plan[c], seq[c])
      BY <1>1, <3>2 DEF Last, Body
    <3>4. pending[c] \in Bodies
      BY <1>1, <3>2 DEF Bodies, Panic
    <3> QED
      BY <1>1, <3>1, <3>2, <3>3, <3>4, PublishesFrame, Zenon
  <2> QED
    BY <2>1, <2>2, Zenon
<1>3. CASE Finishes(c)
  <2>1. CASE c \in broken \cup cancelled
    BY <1>3, <2>1, Zenon DEF Finishes
  <2>2. CASE c \notin broken \cup cancelled
    <3>1. /\ handler[c] = "finish" /\ seq[c] \in 0..MaxFrames /\ pending[c] \in 0..MaxFrames
          /\ pending[c] # Empty => pending[c] = sent[c] /\ seq[c] = sent[c] - 1
      BY <1>3, <2>2, NextFrame, Zenon DEF Finishes
    <3>2. Returned(c) => sent[c] = plan[c].n /\ result[c] = (IF plan[c].ok THEN "nil" ELSE "err")
      BY <2>2, <3>1, Zenon DEF Returned
    <3>3. CASE FinishHasPending(c)
      <4>1. PICK out \in Outcomes : Publishes(c, pending[c], FALSE, out)
        BY <1>3, <2>2, <3>3, Zenon DEF Finishes
      <4>2. Returned(c) => seq[c] < Last(plan[c]) /\ pending[c] = Body(plan[c], seq[c])
        BY <1>1, <3>1, <3>2, <3>3 DEF Last, Body, FinishHasPending
      <4>3. Returned(c) => seq[c] <= Last(plan[c]) /\ seq[c] # Last(plan[c])
        BY <1>1, <3>1, <4>2 DEF Last
      <4>4. pending[c] \in Bodies
        BY <1>1, <3>1 DEF Bodies, Panic
      <4> QED
        BY <1>1, <3>1, <4>1, <4>2, <4>3, <4>4, PublishesFrame, Zenon
    <3>4. CASE ~FinishHasPending(c)
      <4> DEFINE b == IF result[c] = "err" THEN Failure ELSE pending[c]
      <4>1. PICK out \in Outcomes : Publishes(c, b, TRUE, out)
        BY <1>3, <2>2, <3>4, Zenon DEF Finishes
      <4>2. Returned(c) => seq[c] = Last(plan[c]) /\ b = Body(plan[c], seq[c])
        <5>1. CASE plan[c].ok
          BY <1>1, <2>2, <3>1, <3>2, <5>1 DEF Service, Last, Body, Empty
        <5>2. CASE ~plan[c].ok
          BY <1>1, <2>2, <3>1, <3>2, <3>4, <5>2 DEF Service, Last, Body, FinishHasPending, Empty
        <5> QED
          BY <5>1, <5>2, Zenon
      <4>3. b \in Bodies
        BY <1>1, <3>1 DEF Failure, Bodies, Panic
      <4>4. Returned(c) => seq[c] <= Last(plan[c])
        BY <1>1, <3>1, <4>2 DEF Last
      <4> HIDE DEF b
      <4> QED
        BY <1>1, <3>1, <4>1, <4>2, <4>3, <4>4, PublishesFrame, Zenon
    <3> QED
      BY <3>3, <3>4, Zenon
  <2> QED
    BY <2>1, <2>2, Zenon
<1>4. CASE HandlerPanics(c)
  <2> DEFINE f == [seq |-> -1, final |-> FALSE, body |-> Panic]
  <2>1. f \in Frame /\ f.seq = -1 /\ ~f.final /\ f.body = Panic
    BY <1>1 DEF Frame, Bodies, Panic
  <2>2. UNCHANGED net \/ net' = [net EXCEPT ![c] = Append(@, f)]
    BY <1>4, Zenon DEF HandlerPanics
  <2> HIDE DEF f
  <2>3. Genuine(plan[c], f)
    BY <2>1, Zenon DEF Genuine
  <2> QED
    BY <2>1, <2>2, <2>3, Zenon
<1> QED
  BY <1>2, <1>3, <1>4, Zenon DEF ServiceNext, HandlerStarts, HandlerReturns, Acks

\* When every run produces the same, one that finishes has produced it all.
LEMMA ReturnedKeeps ==
    ASSUME SameReruns, Server, \A c \in Calls : Returned(c), [Next]_vars
    PROVE  \A c \in Calls : Returned(c)'
<1>1. plan' = plan /\ ServerTyped
  BY PlanKept, Zenon DEF Server
<1>2. ASSUME NEW c \in Calls, HandlerStarts(c) PROVE \A d \in Calls : Returned(d)'
  BY <1>1, <1>2, Zenon DEF ServerTyped, HandlerStarts, Returned
<1>3. ASSUME NEW c \in Calls, HandlerSends(c) PROVE \A d \in Calls : Returned(d)'
  <2>1. /\ UNCHANGED <<handler, result, cancelled>> /\ handler[c] = "runs"
        /\ \A d \in Calls \ {c} : sent'[d] = sent[d] /\ (d \in broken' <=> d \in broken)
    BY <1>1, <1>3, Zenon DEF ServerTyped, HandlerSends
  <2> QED
    BY <1>1, <2>1, Zenon DEF Returned
<1>4. ASSUME NEW c \in Calls, HandlerReturns(c) PROVE \A d \in Calls : Returned(d)'
  BY <1>1, <1>4 DEF ServerTyped, HandlerReturns, Returned
<1>5. ASSUME NEW c \in Calls, Finishes(c) \/ Acks(c) \/ HandlerPanics(c) \/ ServiceLost(c)
      PROVE  \A d \in Calls : Returned(d)'
  <2>1. /\ UNCHANGED <<sent, broken, result, cancelled>>
        /\ UNCHANGED handler \/ \E h \in {"none", "ack"} : handler' = [handler EXCEPT ![c] = h]
    BY <1>5, Zenon DEF Finishes, Acks, HandlerPanics, ServiceLost, Over
  <2> QED
    BY <1>1, <2>1 DEF ServerTyped, Returned
<1>6. ASSUME NEW c \in Calls, NoticeArrives(c) PROVE \A d \in Calls : Returned(d)'
  BY <1>1, <1>6, Zenon DEF NoticeArrives, Returned
<1>7. ASSUME UNCHANGED serverVars PROVE \A d \in Calls : Returned(d)'
  BY <1>1, <1>7, Zenon DEF Returned
<1> QED
  BY <1>2, <1>3, <1>4, <1>5, <1>6, <1>7, CallerFrame, FrameFrame, RequestFrame, ReaderFrame,
     Zenon
     DEF Next, ServiceNext, ReaderNext

\* The frames on their way through every step: one is added at the end or taken
\* from the front, and when every run produces the same all of them are genuine.
LEMMA WireKeeps ==
    ASSUME Server, Wire, [Next]_vars
    PROVE  Wire' /\ (Authentic /\ (\A c \in Calls : Returned(c)) => Authentic')
<1> DEFINE Sound == Authentic /\ \A c \in Calls : Returned(c)
<1>1. plan' = plan
  BY PlanKept, Zenon
<1>2. ASSUME NEW c \in Calls, NEW f \in Frame, net' = [net EXCEPT ![c] = Append(@, f)],
             Returned(c) => Genuine(plan[c], f), UNCHANGED hand
      PROVE  Wire' /\ (Sound => Authentic')
  <2>1. /\ net[c] \in Seq(Frame) /\ net'[c] = Append(net[c], f)
        /\ \A d \in Calls \ {c} : net'[d] = net[d]
    BY <1>2, Zenon DEF Wire
  <2>2. Append(net[c], f) \in Seq(Frame)
    BY <2>1
  <2>3. Wire'
    BY <1>2, <2>2, Zenon DEF Wire
  <2>4. ASSUME Sound, NEW d \in Calls, NEW i \in 1..Len(net'[d]) PROVE Genuine(plan[d], net'[d][i])
    <3>1. CASE d # c
      BY <2>1, <2>4, <3>1, Zenon DEF Authentic
    <3>2. CASE d = c
      <4>1. (i \in 1..Len(net[c]) /\ net'[c][i] = net[c][i]) \/ net'[c][i] = f
        BY <2>1, <2>4, <3>2
      <4> QED
        BY <1>2, <2>4, <3>2, <4>1, Zenon DEF Authentic
    <3> QED
      BY <3>1, <3>2, Zenon
  <2> QED
    BY <1>1, <1>2, <2>3, <2>4, Zenon DEF Authentic
<1>3. ASSUME NEW c \in Calls, net[c] # <<>>, net' = [net EXCEPT ![c] = Tail(@)]
      PROVE  /\ net' \in [Calls -> Seq(Frame)] /\ Head(net[c]) \in Frame
             /\ Sound => /\ \A d \in Calls : \A i \in 1..Len(net'[d]) : Genuine(plan[d], net'[d][i])
                         /\ Genuine(plan[c], Head(net[c]))
  <2>1. /\ Tail(net[c]) \in Seq(Frame) /\ Head(net[c]) \in Frame /\ Head(net[c]) = net[c][1]
        /\ 1 \in 1..Len(net[c])
        /\ \A i \in 1..Len(Tail(net[c])) :
              i + 1 \in 1..Len(net[c]) /\ Tail(net[c])[i] = net[c][i + 1]
    BY <1>3, HeadTyped, Zenon DEF Wire
  <2>2. /\ net' \in [Calls -> Seq(Frame)] /\ net'[c] = Tail(net[c])
        /\ \A d \in Calls \ {c} : net'[d] = net[d]
    BY <1>3, <2>1, Zenon DEF Wire
  <2>3. ASSUME Sound, NEW d \in Calls, NEW i \in 1..Len(net'[d]) PROVE Genuine(plan[d], net'[d][i])
    <3>1. CASE d # c
      BY <2>2, <2>3, <3>1, Zenon DEF Authentic
    <3>2. CASE d = c
      BY <2>1, <2>2, <2>3, <3>2, Zenon DEF Authentic
    <3> QED
      BY <3>1, <3>2, Zenon
  <2> QED
    BY <2>1, <2>2, <2>3, Zenon DEF Authentic
<1>4. ASSUME UNCHANGED <<net, hand>> PROVE Wire' /\ (Sound => Authentic')
  BY <1>1, <1>4, Zenon DEF Wire, Authentic
<1>5. ASSUME NEW c \in Calls, ServiceNext(c) \/ HandlerPanics(c)
      PROVE  Wire' /\ (Sound => Authentic')
  BY <1>2, <1>4, <1>5, ServicePublishes, ServiceFrame, Zenon
<1>6. ASSUME NEW c \in Calls, FrameLost(c) PROVE Wire' /\ (Sound => Authentic')
  <2>1. net[c] # <<>> /\ net' = [net EXCEPT ![c] = Tail(@)] /\ UNCHANGED hand
    BY <1>6, Zenon DEF FrameLost
  <2> QED
    BY <1>1, <1>3, <2>1, Zenon DEF Wire, Authentic
<1>7. ASSUME NEW c \in Calls, Routes(c) PROVE Wire' /\ (Sound => Authentic')
  <2>1. /\ net[c] # <<>> /\ net' = [net EXCEPT ![c] = Tail(@)]
        /\ hand' = NoFrame \/ hand' = [call |-> c, frame |-> Head(net[c])]
    BY <1>7, Zenon DEF Routes
  <2>2. Wire'
    BY <1>3, <2>1 DEF Wire
  <2>3. hand' # NoFrame => hand'.call = c /\ hand'.frame = Head(net[c])
    BY <2>1
  <2> QED
    BY <1>1, <1>3, <2>1, <2>2, <2>3, Zenon DEF Authentic
<1>8. CASE Pushes
  <2>1. hand' = NoFrame /\ UNCHANGED net
    BY <1>8, Zenon DEF Pushes
  <2> QED
    BY <1>1, <2>1, Zenon DEF Wire, Authentic
<1>9. CASE CallerLost
  <2>1. UNCHANGED hand /\ \A d \in Calls : net'[d] = net[d] \/ net'[d] = <<>>
    BY <1>9, Zenon DEF CallerLost
  <2>2. net' \in [Calls -> Seq(Frame)]
    BY <1>9 DEF CallerLost, Wire
  <2>3. ASSUME Sound, NEW d \in Calls, NEW i \in 1..Len(net'[d]) PROVE Genuine(plan[d], net'[d][i])
    BY <2>1, <2>3 DEF Authentic
  <2> QED
    BY <1>1, <2>1, <2>2, <2>3, Zenon DEF Wire, Authentic
<1>10. CASE UNCHANGED vars
  BY <1>4, <1>10, Zenon DEF vars
<1>11. ASSUME NEW c \in Calls, ServiceLost(c) PROVE UNCHANGED <<net, hand>>
  BY <1>11, Zenon DEF ServiceLost
<1> QED
  BY <1>4, <1>5, <1>6, <1>7, <1>8, <1>9, <1>10, <1>11, CallerFrame, RequestFrame, NoticeFrame,
     Zenon
     DEF Next, ReaderNext

\* What leaves the buffer, the error and the loop of a call alone leaves its
\* stream as it was.
LEMMA WaitingElsewhere ==
    ASSUME NEW d \in Calls, Waiting(d), chunks'[d] = chunks[d], err'[d] = err[d],
           loop'[d] = loop[d], verdict'[d] = verdict[d], d \in ended' <=> d \in ended,
           d \in notify => d \in notify'
    PROVE  Waiting(d)'
  BY Zenon DEF Waiting

\* The caller's loop goes on to l, with its verdict once it leaves.
Moves(c, l) ==
    /\ loop' = [loop EXCEPT ![c] = l]
    /\ \/ l \notin {"leaving", "over"} /\ UNCHANGED verdict
       \/ /\ l = "leaving"
          /\ \E why \in Errors \cup {"clean", "remote"} : verdict' = [verdict EXCEPT ![c] = why]

\* Such a move keeps the types, and concerns the one call.
LEMMA MovesTyped ==
    ASSUME ClientTyped, NEW c \in Calls, verdict[c] = "none",
           NEW l \in {"publishing", "loop", "body", "wait", "leaving"}, Moves(c, l)
    PROVE  /\ loop' \in [Calls -> {"idle", "publishing", "loop", "body", "wait", "leaving", "over"}]
           /\ verdict' \in [Calls -> Errors \cup {"none", "clean", "remote"}]
           /\ loop'[c] = l /\ (verdict'[c] = "none" <=> l # "leaving")
           /\ \A d \in Calls \ {c} : loop'[d] = loop[d] /\ verdict'[d] = verdict[d]
<1>1. /\ loop' \in [Calls -> {"idle", "publishing", "loop", "body", "wait", "leaving", "over"}]
      /\ loop'[c] = l /\ \A d \in Calls \ {c} : loop'[d] = loop[d]
  BY Zenon DEF ClientTyped, Moves
<1>2. CASE l # "leaving"
  BY <1>1, <1>2, Zenon DEF ClientTyped, Moves
<1>3. CASE l = "leaving"
  <2>1. PICK why \in Errors \cup {"clean", "remote"} : verdict' = [verdict EXCEPT ![c] = why]
    BY <1>3, Zenon DEF Moves
  <2>2. why # "none"
    BY <2>1, Zenon DEF Errors
  <2> QED
    BY <1>1, <1>3, <2>1, <2>2, Zenon DEF ClientTyped
<1> QED
  BY <1>2, <1>3, Zenon

\* The loop's steps: it waits only for a stream that has nothing for it, or
\* that will wake it.
LEMMA MoveKeeps ==
    ASSUME Client, NEW c \in Calls, NEW l \in {"publishing", "loop", "body", "wait", "leaving"},
           Moves(c, l), loop[c] \notin {"leaving", "over"},
           UNCHANGED <<lastSeq, ended, err>>, notify \ {c} \subseteq notify',
           \/ UNCHANGED chunks
           \/ chunks[c] # <<>> /\ chunks' = [chunks EXCEPT ![c] = Tail(@)],
           yielded' \in [Calls -> Seq(1..MaxFrames)],
           l = "wait" => c \notin ended /\ chunks'[c] = <<>>
    PROVE  Client'
<1>1. ClientTyped /\ Waiting(c) /\ verdict[c] = "none"
  BY Zenon DEF Client, Waiting
<1>2. /\ loop' \in [Calls -> {"idle", "publishing", "loop", "body", "wait", "leaving", "over"}]
      /\ verdict' \in [Calls -> Errors \cup {"none", "clean", "remote"}]
      /\ loop'[c] = l /\ (verdict'[c] = "none" <=> l # "leaving")
      /\ \A d \in Calls \ {c} : loop'[d] = loop[d] /\ verdict'[d] = verdict[d]
  BY <1>1, MovesTyped, Zenon
<1>3. chunks' \in [Calls -> Seq(1..Panic)] /\ \A d \in Calls \ {c} : chunks'[d] = chunks[d]
  <2>1. CASE UNCHANGED chunks
    BY <1>1, <2>1, Zenon DEF ClientTyped
  <2>2. CASE chunks[c] # <<>> /\ chunks' = [chunks EXCEPT ![c] = Tail(@)]
    <3>1. Tail(chunks[c]) \in Seq(1..Panic)
      BY <1>1, <2>2 DEF ClientTyped
    <3> QED
      BY <1>1, <2>2, <3>1, Zenon DEF ClientTyped
  <2> QED
    BY <2>1, <2>2, Zenon
<1>4. ClientTyped'
  BY <1>1, <1>2, <1>3, Zenon DEF ClientTyped
<1>5. Waiting(c)'
  BY <1>1, <1>2, Zenon DEF Waiting
<1>6. ASSUME NEW d \in Calls, d # c PROVE Waiting(d)'
  BY <1>2, <1>3, <1>6, WaitingElsewhere, Zenon DEF Client
<1> QED
  BY <1>4, <1>5, <1>6, Zenon DEF Client

\* A loop that leaves has its verdict.
LEMMA LeavesMoves ==
    ASSUME NEW c \in Calls, NEW why \in Errors \cup {"clean", "remote"}, NEW fin,
           Leaves(c, why, fin)
    PROVE  Moves(c, "leaving")
  BY Zenon DEF Leaves, Moves

\* What the loop finds in its stream.
LEMMA TakeKeeps == ASSUME Client, NEW c \in Calls, LoopTakes(c) PROVE Client'
<1>1. /\ ClientTyped /\ Waiting(c) /\ loop[c] = "loop" /\ MaxFrames \in Nat
      /\ chunks[c] \in Seq(1..Panic) /\ yielded \in [Calls -> Seq(1..MaxFrames)]
      /\ UNCHANGED <<lastSeq, ended, err, notify>>
  BY StreamAssumption, Zenon DEF LoopTakes, Client, ClientTyped
<1>2. CASE /\ err[c] # "none" /\ Leaves(c, err[c], err[c] = "disconnected")
           /\ UNCHANGED <<chunks, yielded>>
  <2>1. err[c] \in Errors
    BY <1>1, <1>2, Zenon DEF ClientTyped, Waiting, Errors
  <2>2. Moves(c, "leaving")
    BY <1>2, <2>1, LeavesMoves, Zenon
  <2> QED
    BY <1>1, <1>2, <2>2, MoveKeeps, Zenon
<1>3. CASE /\ chunks[c] # <<>> /\ chunks' = [chunks EXCEPT ![c] = Tail(@)] /\ UNCHANGED yielded
           /\ \E why \in {"ctx", "remote", "panicked"}, fin \in {FALSE, Finished(c)} :
                 Leaves(c, why, fin)
  <2>1. Moves(c, "leaving")
    BY <1>3, LeavesMoves, Zenon DEF Errors
  <2> QED
    BY <1>1, <1>3, <2>1, MoveKeeps, Zenon
<1>4. CASE /\ chunks[c] # <<>> /\ chunks' = [chunks EXCEPT ![c] = Tail(@)]
           /\ Head(chunks[c]) \notin {Failure, Panic}
           /\ yielded' = [yielded EXCEPT ![c] = Append(@, Head(chunks[c]))]
           /\ loop' = [loop EXCEPT ![c] = "body"] /\ UNCHANGED verdict
  <2>1. Head(chunks[c]) \in 1..Panic
    BY <1>1, <1>4, HeadTyped, Zenon
  <2>2. Head(chunks[c]) \in 1..MaxFrames
    <3>1. MaxFrames \in Nat /\ Head(chunks[c]) \notin {Failure, Panic}
      BY <1>1, <1>4, Zenon
    <3> QED
      BY <2>1, <3>1 DEF Failure, Panic
  <2>3. yielded' \in [Calls -> Seq(1..MaxFrames)]
    BY <1>1, <1>4, <2>2
  <2>4. Moves(c, "body")
    BY <1>4, Zenon DEF Moves
  <2> QED
    BY <1>1, <1>4, <2>3, <2>4, MoveKeeps, Zenon
<1>5. CASE Leaves(c, "clean", TRUE) /\ UNCHANGED <<chunks, yielded>>
  <2>1. Moves(c, "leaving")
    BY <1>5, LeavesMoves, Zenon
  <2> QED
    BY <1>1, <1>5, <2>1, MoveKeeps, Zenon
<1>6. CASE /\ c \notin ended /\ chunks[c] = <<>> /\ loop' = [loop EXCEPT ![c] = "wait"]
           /\ UNCHANGED <<chunks, yielded, verdict>>
  <2>1. Moves(c, "wait")
    BY <1>6, Zenon DEF Moves
  <2> QED
    BY <1>1, <1>6, <2>1, MoveKeeps, Zenon
<1> QED
  BY <1>2, <1>3, <1>4, <1>5, <1>6, Zenon DEF LoopTakes

\* push: what it makes of the buffer and the error of its stream.
LEMMA PushKeeps == ASSUME Client, Wire, Pushes PROVE Client'
<1>1. UNCHANGED <<loop, yielded, verdict>>
  BY Zenon DEF Pushes
<1>2. PICK c \in Calls, f \in Frame : Push(c, f) /\ notify' = notify \cup {c}
  BY Zenon DEF Pushes, Wire
<1>3. /\ ClientTyped /\ Waiting(c) /\ MaxFrames \in Nat
      /\ f.seq \in -1..MaxFrames /\ f.body \in 0..Panic
  BY StreamAssumption, Zenon DEF Client, Frame, Bodies
<1>4. /\ chunks' \in [Calls -> Seq(1..Panic)] /\ \A d \in Calls \ {c} : chunks'[d] = chunks[d]
      /\ c \in ended => chunks'[c] = chunks[c]
  <2>1. f.body # Empty => Append(chunks[c], f.body) \in Seq(1..Panic)
    BY <1>3 DEF ClientTyped, Empty, Panic
  <2>2. \/ UNCHANGED chunks
        \/ c \notin ended /\ chunks' = [chunks EXCEPT ![c] = <<>>]
        \/ c \notin ended /\ f.body # Empty /\ chunks' = [chunks EXCEPT ![c] = Append(@, f.body)]
    BY <1>2, Zenon DEF Push, Breaks, Drops
  <2>3. CASE UNCHANGED chunks
    BY <1>3, <2>3, Zenon DEF ClientTyped
  <2>4. CASE c \notin ended /\ chunks' = [chunks EXCEPT ![c] = <<>>]
    BY <1>3, <2>4 DEF ClientTyped
  <2>5. CASE c \notin ended /\ f.body # Empty /\ chunks' = [chunks EXCEPT ![c] = Append(@, f.body)]
    BY <1>3, <2>1, <2>5, Zenon DEF ClientTyped
  <2> QED
    BY <2>2, <2>3, <2>4, <2>5, Zenon
<1>5. lastSeq' \in [Calls -> -1..(MaxFrames + 1)]
  <2>1. UNCHANGED lastSeq \/ lastSeq' = [lastSeq EXCEPT ![c] = f.seq]
    BY <1>2, Zenon DEF Push
  <2>2. f.seq \in -1..(MaxFrames + 1)
    BY <1>3
  <2> QED
    BY <1>3, <2>1, <2>2, Zenon DEF ClientTyped
<1>6. /\ err' \in [Calls -> {"none", "sequence", "backpressure", "disconnected", "released"}]
      /\ \A d \in Calls \ {c} : err'[d] = err[d] /\ (d \in ended' <=> d \in ended)
      /\ err'[c] = err[c] \/ (err'[c] \in {"sequence", "backpressure"} /\ c \in ended')
      /\ ended \subseteq ended'
  <2>1. \/ UNCHANGED err /\ ended' \in {ended, ended \cup {c}}
        \/ \E why \in {"sequence", "backpressure"} : Breaks(c, why)
    BY <1>2, Zenon DEF Push
  <2>2. CASE UNCHANGED err /\ ended' \in {ended, ended \cup {c}}
    BY <1>3, <2>2, Zenon DEF ClientTyped
  <2>3. ASSUME NEW why \in {"sequence", "backpressure"}, Breaks(c, why)
        PROVE  /\ err' = [err EXCEPT ![c] = why] /\ ended' = ended \cup {c}
               /\ why \in {"none", "sequence", "backpressure", "disconnected", "released"}
    BY <2>3, Zenon DEF Breaks
  <2>4. CASE \E why \in {"sequence", "backpressure"} : Breaks(c, why)
    BY <1>3, <2>3, <2>4, Zenon DEF ClientTyped
  <2> QED
    BY <2>1, <2>2, <2>4, Zenon
<1>7. ClientTyped'
  BY <1>1, <1>3, <1>4, <1>5, <1>6, Zenon DEF ClientTyped
<1>8. Waiting(c)'
  BY <1>1, <1>2, <1>3, <1>4, <1>6, Zenon DEF Waiting
<1>9. ASSUME NEW d \in Calls, d # c PROVE Waiting(d)'
  BY <1>1, <1>2, <1>4, <1>6, <1>9, WaitingElsewhere, Zenon DEF Client
<1> QED
  BY <1>7, <1>8, <1>9, Zenon DEF Client

\* The client side through every step.
LEMMA ClientKeeps == ASSUME Client, Wire, [Next]_vars PROVE Client'
<1>1. ASSUME UNCHANGED <<chunks, lastSeq, ended, err, notify, loop, yielded, verdict>> PROVE Client'
  BY <1>1, Zenon DEF Client, ClientTyped, Waiting
<1>2. ASSUME NEW c \in Calls, FailsPending(c) \/ Releases(c) PROVE Client'
  <2>1. /\ UNCHANGED <<lastSeq, yielded, verdict>> /\ notify \subseteq notify'
        /\ \/ c \in ended /\ UNCHANGED <<chunks, ended, err, loop>> /\ c \in notify'
           \/ /\ chunks' = [chunks EXCEPT ![c] = <<>>] /\ ended' = ended \cup {c}
              /\ \/ /\ c \notin ended /\ err' = [err EXCEPT ![c] = "disconnected"]
                    /\ UNCHANGED loop /\ c \in notify'
                 \/ /\ loop[c] = "leaving" /\ loop' = [loop EXCEPT ![c] = "over"]
                    /\ err' = IF err[c] = "none" THEN [err EXCEPT ![c] = "released"] ELSE err
    BY <1>2, Zenon DEF FailsPending, Breaks, Drops, Releases
  <2>2. CASE UNCHANGED <<chunks, ended, err, loop>>
    BY <2>1, <2>2, Zenon DEF Client, ClientTyped, Waiting
  <2>3. CASE /\ chunks' = [chunks EXCEPT ![c] = <<>>] /\ ended' = ended \cup {c}
             /\ \/ /\ c \notin ended /\ err' = [err EXCEPT ![c] = "disconnected"]
                   /\ UNCHANGED loop /\ c \in notify'
                \/ /\ loop[c] = "leaving" /\ loop' = [loop EXCEPT ![c] = "over"]
                   /\ err' = IF err[c] = "none" THEN [err EXCEPT ![c] = "released"] ELSE err
    <3>1. ClientTyped /\ Waiting(c)
      BY Zenon DEF Client
    <3>2. /\ chunks' \in [Calls -> Seq(1..Panic)] /\ chunks'[c] = <<>> /\ c \in ended'
          /\ \A d \in Calls \ {c} : chunks'[d] = chunks[d] /\ (d \in ended' <=> d \in ended)
      BY <2>3, <3>1 DEF ClientTyped
    <3>3. /\ err' \in [Calls -> {"none", "sequence", "backpressure", "disconnected", "released"}]
          /\ loop' \in [Calls -> {"idle", "publishing", "loop", "body", "wait", "leaving", "over"}]
          /\ \A d \in Calls \ {c} : err'[d] = err[d] /\ loop'[d] = loop[d]
          /\ \/ err'[c] = "disconnected" /\ loop'[c] = loop[c] /\ c \notin ended /\ c \in notify'
             \/ loop[c] = "leaving" /\ loop'[c] = "over"
      <4>1. CASE c \notin ended /\ err' = [err EXCEPT ![c] = "disconnected"] /\ UNCHANGED loop
        BY <2>3, <3>1, <4>1, Zenon DEF ClientTyped
      <4>2. CASE /\ loop[c] = "leaving" /\ loop' = [loop EXCEPT ![c] = "over"]
                 /\ err' = IF err[c] = "none" THEN [err EXCEPT ![c] = "released"] ELSE err
        BY <3>1, <4>2, Zenon DEF ClientTyped
      <4> QED
        BY <2>3, <4>1, <4>2, Zenon
    <3>4. ClientTyped'
      BY <2>1, <3>1, <3>2, <3>3, Zenon DEF ClientTyped
    <3>5. Waiting(c)'
      BY <2>1, <3>1, <3>2, <3>3, Zenon DEF Waiting
    <3>6. ASSUME NEW d \in Calls, d # c PROVE Waiting(d)'
      BY <2>1, <3>2, <3>3, <3>6, WaitingElsewhere, Zenon DEF Client
    <3> QED
      BY <3>4, <3>5, <3>6, Zenon DEF Client
  <2> QED
    BY <2>1, <2>2, <2>3, Zenon
<1>3. ASSUME NEW c \in Calls,
             CallStarts(c) \/ PublishReturns(c) \/ BodyEnds(c) \/ LoopWakes(c) \/ LoopGivesUp(c)
      PROVE  Client'
  <2>1. /\ UNCHANGED <<chunks, lastSeq, ended, err, yielded>> /\ notify \ {c} \subseteq notify'
        /\ loop[c] \notin {"leaving", "over"}
    BY <1>3, Zenon DEF CallStarts, PublishReturns, BodyEnds, LoopWakes, LoopGivesUp
  <2>2. Moves(c, "publishing") \/ Moves(c, "loop") \/ Moves(c, "leaving")
    BY <1>3, Zenon DEF CallStarts, PublishReturns, BodyEnds, LoopWakes, LoopGivesUp, Leaves,
       Moves,
       Errors
  <2> QED
    BY <2>1, <2>2, MoveKeeps, Zenon DEF Client, ClientTyped
<1>4. ASSUME NEW c \in Calls, ContextEnds(c)
      PROVE  UNCHANGED <<chunks, lastSeq, ended, err, notify, loop, yielded, verdict>>
  BY <1>4, Zenon DEF ContextEnds
<1>5. CallerLost \/ UNCHANGED vars =>
          UNCHANGED <<chunks, lastSeq, ended, err, notify, loop, yielded, verdict>>
  BY Zenon DEF CallerLost, vars
<1> QED
  BY <1>1, <1>2, <1>3, <1>4, <1>5, TakeKeeps, PushKeeps, ServiceFrame, FrameFrame, RequestFrame,
     NoticeFrame DEF Next, ReaderNext, CallerNext

\* The frames and the client side in every state.
LEMMA Invariance == Spec => []IInv
<1>1. Init => Wire /\ Client
  <2> SUFFICES ASSUME Init PROVE Wire /\ Client
    BY Zenon
  <2>1. Wire
    BY DEF Init, Wire
  <2>2. ClientTyped
    BY StreamAssumption DEF Init, ClientTyped, Errors
  <2>3. \A c \in Calls : Waiting(c)
    BY Zenon DEF Init, Waiting
  <2> QED
    BY <2>1, <2>2, <2>3, Zenon DEF Client
<1>2. Server /\ Wire /\ Client /\ [Next]_vars => Wire' /\ Client'
  BY WireKeeps, ClientKeeps, Zenon
<1> QED
  BY <1>1, <1>2, ServerInvariance, PTL DEF Spec, IInv

-----------------------------------------------------------------------------
\* The buffer of a stream, when only genuine frames arrive. A plan p has p.n
\* responses, of which the caller has been given k.

\* The loop takes the first of what is buffered.
LEMMA TakeFirst ==
    ASSUME NEW p, NEW k \in Nat, NEW last \in Int, NEW buf \in Seq(1..Panic), buf # <<>>
    PROVE  /\ Blamed(p, buf) => Blamed(p, Tail(buf))
           /\ buf[1] # Panic /\ Ordered(p, k, buf) => Ordered(p, k + 1, Tail(buf))
           /\ buf[1] # Panic /\ Counted(p, k, buf, last) => Counted(p, k + 1, Tail(buf), last)
<1>1. /\ Len(buf) \in Nat /\ Len(Tail(buf)) = Len(buf) - 1
      /\ \A i \in 1..Len(Tail(buf)) : i + 1 \in 1..Len(buf) /\ Tail(buf)[i] = buf[i + 1]
  BY HeadTyped, Zenon
<1>2. ASSUME NEW i \in Int, \A j \in 1..i : j \in 1..Len(Tail(buf)) /\ Tail(buf)[j] # Panic,
             buf[1] # Panic
      PROVE  \A j \in 1..(i + 1) : buf[j] # Panic
  <2>1. ASSUME NEW j \in 1..(i + 1), j # 1 PROVE buf[j] # Panic
    <3>1. j - 1 \in 1..i /\ (j - 1) + 1 = j
      BY <1>2, <2>1
    <3> QED
      BY <1>1, <1>2, <3>1, Zenon
  <2> QED
    BY <1>2, <2>1, Zenon
<1>3. ASSUME buf[1] # Panic, Ordered(p, k, buf) PROVE Ordered(p, k + 1, Tail(buf))
  <2>1. ASSUME NEW i \in 1..Len(Tail(buf)), \A j \in 1..i : Tail(buf)[j] # Panic
        PROVE  Tail(buf)[i] = IF (k + 1) + i <= p.n THEN (k + 1) + i ELSE Failure
    <3>1. i \in Int /\ i + 1 \in 1..Len(buf) /\ \A j \in 1..i : j \in 1..Len(Tail(buf))
      BY <1>1, <2>1
    <3>2. \A j \in 1..(i + 1) : buf[j] # Panic
      BY <1>2, <1>3, <2>1, <3>1, Zenon
    <3>3. buf[i + 1] = IF k + (i + 1) <= p.n THEN k + (i + 1) ELSE Failure
      BY <1>3, <3>1, <3>2, Zenon DEF Ordered
    <3>4. k + (i + 1) = (k + 1) + i
      BY <3>1
    <3> QED
      BY <1>1, <2>1, <3>3, <3>4, Zenon
  <2> QED
    BY <2>1, Zenon DEF Ordered
<1>4. ASSUME buf[1] # Panic, Counted(p, k, buf, last) PROVE Counted(p, k + 1, Tail(buf), last)
  <2>1. ASSUME \A j \in 1..Len(Tail(buf)) : Tail(buf)[j] # Panic
        PROVE  \A j \in 1..Len(buf) : buf[j] # Panic
    <3>1. Len(Tail(buf)) \in Int /\ Len(Tail(buf)) + 1 = Len(buf)
      BY <1>1
    <3> QED
      BY <1>2, <1>4, <2>1, <3>1, Zenon
  <2>2. (k + 1) + Len(Tail(buf)) = k + Len(buf)
    BY <1>1
  <2> QED
    BY <1>4, <2>1, <2>2, Zenon DEF Counted
<1>5. Blamed(p, buf) => Blamed(p, Tail(buf))
  BY <1>1, Zenon DEF Blamed
<1> QED
  BY <1>3, <1>4, <1>5, Zenon

\* The first of what is buffered: the response after the last that was given,
\* the handler's error after all of them, or a panic's answer. Nothing is
\* missing from a stream that is at its end and has nothing buffered.
LEMMA FirstIsNext ==
    ASSUME NEW p \in [n : 0..MaxFrames, ok : BOOLEAN], NEW k \in 0..p.n, NEW last \in Int,
           NEW buf \in Seq(1..Panic), Blamed(p, buf), Ordered(p, k, buf), Counted(p, k, buf, last)
    PROVE  /\ buf # <<>> /\ Head(buf) \notin {Failure, Panic} => Head(buf) = k + 1 /\ k < p.n
           /\ buf # <<>> /\ Head(buf) = Failure => k = p.n /\ ~p.ok
           /\ buf = <<>> /\ last = Last(p) => k = p.n /\ p.ok
<1>1. MaxFrames \in Nat /\ p.n \in 0..MaxFrames /\ k \in Nat /\ k <= p.n
  BY StreamAssumption
<1>2. CASE buf # <<>>
  <2>1. Head(buf) = buf[1] /\ 1 \in 1..Len(buf) /\ \A j \in 1..1 : j = 1
    BY <1>2, HeadTyped
  <2>2. buf[1] # Panic => buf[1] = IF k + 1 <= p.n THEN k + 1 ELSE Failure
    BY <2>1, Zenon DEF Ordered
  <2>3. buf[1] = Failure => ~p.ok
    BY <2>1, Zenon DEF Blamed
  <2>4. Failure # Panic /\ Failure \notin 0..MaxFrames
    BY <1>1 DEF Failure, Panic
  <2> QED
    BY <1>1, <1>2, <2>1, <2>2, <2>3, <2>4
<1>3. CASE buf = <<>>
  <2>1. Len(buf) = 0 /\ \A i \in 1..Len(buf) : buf[i] # Panic
    BY <1>3
  <2>2. k + 0 = IF p.ok /\ p.n = 0 THEN 0 ELSE last + 1
    BY <2>1, Zenon DEF Counted
  <2> QED
    BY <1>1, <1>3, <2>2 DEF Last
<1> QED
  BY <1>2, <1>3, Zenon

\* A frame at the end of the buffer: the next response, the handler's error
\* after the last one, or the answer to a panic.
LEMMA PutLast ==
    ASSUME NEW p \in [n : 0..MaxFrames, ok : BOOLEAN], NEW k \in Nat, NEW last \in Int, last >= -1,
           NEW buf \in Seq(1..Panic), NEW b \in 1..Panic
    PROVE  LET new == Append(buf, b)
           IN /\ Blamed(p, buf) /\ (b = Failure => ~p.ok) => Blamed(p, new)
              /\ b = Panic /\ Ordered(p, k, buf) => Ordered(p, k, new)
              /\ b = Panic => Counted(p, k, new, last)
              /\ /\ ~(p.ok /\ p.n = 0) /\ b = (IF last + 1 < p.n THEN last + 2 ELSE Failure)
                 /\ Ordered(p, k, buf) /\ Counted(p, k, buf, last)
                 => Ordered(p, k, new) /\ Counted(p, k, new, last + 1)
<1> DEFINE new == Append(buf, b)
<1>1. /\ MaxFrames \in Nat /\ p.n \in 0..MaxFrames /\ Len(buf) \in Nat /\ Len(new) = Len(buf) + 1
      /\ \A i \in 1..Len(buf) : i \in 1..Len(new) /\ new[i] = buf[i]
      /\ new[Len(buf) + 1] = b
      /\ \A i \in 1..Len(new) : i \in 1..Len(buf) \/ i = Len(buf) + 1
  BY StreamAssumption
<1> HIDE DEF new
<1>2. Blamed(p, buf) /\ (b = Failure => ~p.ok) => Blamed(p, new)
  BY <1>1, Zenon DEF Blamed
\* What was in order before the new one still is.
<1>3. ASSUME Ordered(p, k, buf), NEW i \in 1..Len(buf), \A j \in 1..i : new[j] # Panic
      PROVE  new[i] = IF k + i <= p.n THEN k + i ELSE Failure
  <2>1. \A j \in 1..i : j \in 1..Len(buf)
    BY <1>1, <1>3
  <2>2. \A j \in 1..i : buf[j] # Panic
    BY <1>1, <1>3, <2>1, Zenon
  <2> QED
    BY <1>1, <1>3, <2>2, Zenon DEF Ordered
<1>4. ASSUME b = Panic, Ordered(p, k, buf) PROVE Ordered(p, k, new)
  <2>1. ASSUME NEW i \in 1..Len(new), \A j \in 1..i : new[j] # Panic PROVE i \in 1..Len(buf)
    <3>1. i \in 1..i
      BY <2>1
    <3> QED
      BY <1>1, <1>4, <2>1, <3>1, Zenon
  <2> QED
    BY <1>3, <1>4, <2>1, Zenon DEF Ordered
<1>5. b = Panic => Counted(p, k, new, last)
  <2>1. Len(buf) + 1 \in 1..Len(new)
    BY <1>1
  <2> QED
    BY <1>1, <2>1, Zenon DEF Counted
<1>6. ASSUME ~(p.ok /\ p.n = 0), b = (IF last + 1 < p.n THEN last + 2 ELSE Failure),
             Ordered(p, k, buf), Counted(p, k, buf, last)
      PROVE  Ordered(p, k, new) /\ Counted(p, k, new, last + 1)
  <2>1. (\A j \in 1..Len(buf) : new[j] # Panic) => k + Len(buf) = last + 1
    BY <1>1, <1>6, Zenon DEF Counted
  <2>2. ASSUME NEW i, i = Len(buf) + 1, \A j \in 1..i : new[j] # Panic
        PROVE  new[i] = IF k + i <= p.n THEN k + i ELSE Failure
    <3>1. \A j \in 1..Len(buf) : new[j] # Panic
      BY <1>1, <2>2, Zenon
    <3>2. k + i = last + 2
      BY <1>1, <2>1, <2>2, <3>1
    <3>3. k + i <= p.n <=> last + 1 < p.n
      BY <1>1, <3>2
    <3> QED
      BY <1>1, <1>6, <2>2, <3>2, <3>3, Zenon
  <2>3. Ordered(p, k, new)
    BY <1>1, <1>3, <1>6, <2>2, Zenon DEF Ordered
  <2>4. ASSUME \A j \in 1..Len(new) : new[j] # Panic PROVE k + Len(new) = (last + 1) + 1
    <3>1. k + Len(buf) = last + 1
      BY <1>1, <2>1, <2>4, Zenon
    <3> QED
      BY <1>1, <3>1
  <2>5. Counted(p, k, new, last + 1)
    BY <1>6, <2>4, Zenon DEF Counted
  <2> QED
    BY <2>3, <2>5, Zenon
<1> QED
  BY <1>2, <1>4, <1>5, <1>6, Zenon DEF new

\* A frame that carries something carries the next response or the error.
LEMMA NextBody ==
    ASSUME NEW p \in [n : 0..MaxFrames, ok : BOOLEAN], NEW i \in 0..Last(p), Body(p, i) # Empty
    PROVE  /\ Body(p, i) = (IF i < p.n THEN i + 1 ELSE Failure)
           /\ Body(p, i) = Failure => ~p.ok
           /\ ~(p.ok /\ p.n = 0) /\ Body(p, i) \in 1..Panic
<1>1. MaxFrames \in Nat /\ p.n \in 0..MaxFrames /\ p.ok \in BOOLEAN
  BY StreamAssumption, Zenon
<1>2. CASE p.ok
  BY <1>1, <1>2 DEF Body, Last, Empty, Failure, Panic
<1>3. CASE ~p.ok
  BY <1>1, <1>3 DEF Body, Last, Empty, Failure, Panic
<1> QED
  BY <1>2, <1>3, Zenon

\* What the caller's loop finds next in its stream.
LEMMA NextGiven ==
    ASSUME IInv, Faithful, NEW c \in Calls, verdict[c] = "none", err[c] = "none"
    PROVE  /\ chunks[c] # <<>> /\ Head(chunks[c]) \notin {Failure, Panic} =>
                 Head(chunks[c]) = Len(yielded[c]) + 1 /\ Len(yielded[c]) < plan[c].n
           /\ chunks[c] # <<>> /\ Head(chunks[c]) = Failure =>
                 Len(yielded[c]) = plan[c].n /\ ~plan[c].ok
           /\ chunks[c] = <<>> /\ c \in ended => Len(yielded[c]) = plan[c].n /\ plan[c].ok
<1>1. /\ plan[c] \in [n : 0..MaxFrames, ok : BOOLEAN] /\ lastSeq[c] \in Int
      /\ chunks[c] \in Seq(1..Panic) /\ yielded[c] \in Seq(1..MaxFrames) /\ Given(c)
  BY StreamAssumption DEF IInv, Server, ServerTyped, Client, ClientTyped, Faithful
<1>2. Len(yielded[c]) \in 0..plan[c].n
  BY <1>1, StreamAssumption DEF Given
<1> QED
  BY <1>1, <1>2, FirstIsNext DEF Given

\* A step of one call gives the others nothing and takes nothing from them; a
\* verdict ends what a stream owes.
LEMMA GivenElsewhere ==
    ASSUME NEW d \in Calls, Given(d), plan' = plan, yielded'[d] = yielded[d],
           lastSeq'[d] = lastSeq[d], chunks'[d] = chunks[d], d \in ended' <=> d \in ended,
           err'[d] = err[d], verdict'[d] = verdict[d] \/ verdict'[d] # "none"
    PROVE  Given(d)'
  BY Zenon DEF Given

\* A stream that has failed and holds nothing owes nothing.
LEMMA GivenNothing ==
    ASSUME NEW c \in Calls, Given(c), plan' = plan, yielded'[c] = yielded[c],
           lastSeq'[c] <= Last(plan[c]), chunks'[c] = <<>>, err'[c] # "none"
    PROVE  Given(c)'
<1>1. Blamed(plan[c], <<>>)
  BY DEF Blamed
<1> QED
  BY <1>1, Zenon DEF Given

\* The loop takes from its stream.
LEMMA TakeGiven ==
    ASSUME IInv, Faithful, plan' = plan, NEW c \in Calls, LoopTakes(c)
    PROVE  \A d \in Calls : Given(d)'
<1>1. /\ UNCHANGED <<lastSeq, ended, err>> /\ loop[c] = "loop" /\ verdict[c] = "none" /\ ClientTyped
      /\ chunks[c] \in Seq(1..Panic) /\ yielded[c] \in Seq(1..MaxFrames) /\ lastSeq[c] \in Int
      /\ plan[c].n \in Nat
  <2>1. ServerTyped /\ ClientTyped /\ Waiting(c)
    BY Zenon DEF IInv, Server, Client
  <2>2. UNCHANGED <<lastSeq, ended, err>> /\ loop[c] = "loop"
    BY Zenon DEF LoopTakes
  <2>3. /\ chunks[c] \in Seq(1..Panic) /\ yielded[c] \in Seq(1..MaxFrames)
        /\ lastSeq[c] \in -1..(MaxFrames + 1) /\ plan[c].n \in 0..MaxFrames /\ MaxFrames \in Nat
    BY <2>1, PlanTyped, Zenon DEF ClientTyped
  <2>4. lastSeq[c] \in Int /\ plan[c].n \in Nat
    BY <2>3
  <2> QED
    BY <2>1, <2>2, <2>3, <2>4, Zenon DEF Waiting
<1>2. \A d \in Calls : Given(d)
  BY Zenon DEF Faithful
<1>3. /\ \A d \in Calls \ {c} : /\ chunks'[d] = chunks[d] /\ yielded'[d] = yielded[d]
                                /\ verdict'[d] = verdict[d]
      /\ \/ /\ chunks'[c] = chunks[c] /\ yielded'[c] = yielded[c]
            /\ verdict'[c] \in {"none", err[c], "clean"}
         \/ /\ chunks[c] # <<>> /\ err[c] = "none" /\ chunks'[c] = Tail(chunks[c])
            /\ \/ yielded'[c] = yielded[c] /\ verdict'[c] # "none"
               \/ /\ Head(chunks[c]) \notin {Failure, Panic} /\ verdict'[c] = "none"
                  /\ yielded'[c] = Append(yielded[c], Head(chunks[c]))
  BY <1>1 DEF LoopTakes, Leaves, ClientTyped
<1>4. ASSUME NEW d \in Calls, d # c PROVE Given(d)'
  BY <1>1, <1>2, <1>3, <1>4, GivenElsewhere, Zenon
<1>5. CASE /\ chunks'[c] = chunks[c] /\ yielded'[c] = yielded[c]
           /\ verdict'[c] \in {"none", err[c], "clean"}
  <2>1. verdict'[c] = verdict[c] \/ verdict'[c] # "none"
    BY <1>1, <1>5, Zenon
  <2>2. Given(c)'
    BY <1>1, <1>2, <1>5, <2>1, GivenElsewhere, Zenon
  <2> QED
    BY <1>4, <2>2, Zenon
<1>6. CASE /\ chunks[c] # <<>> /\ err[c] = "none" /\ chunks'[c] = Tail(chunks[c])
           /\ \/ yielded'[c] = yielded[c] /\ verdict'[c] # "none"
              \/ /\ Head(chunks[c]) \notin {Failure, Panic} /\ verdict'[c] = "none"
                 /\ yielded'[c] = Append(yielded[c], Head(chunks[c]))
  <2>1. Blamed(plan[c], chunks'[c])
    BY <1>1, <1>2, <1>6, TakeFirst, Zenon DEF Given
  <2>2. CASE yielded'[c] = yielded[c] /\ verdict'[c] # "none"
    <3>1. Given(c)'
      BY <1>1, <1>2, <2>1, <2>2, Zenon DEF Given
    <3> QED
      BY <1>4, <3>1, Zenon
  <2>3. CASE /\ Head(chunks[c]) \notin {Failure, Panic} /\ verdict'[c] = "none"
             /\ yielded'[c] = Append(yielded[c], Head(chunks[c]))
    <3>1. /\ Head(chunks[c]) = chunks[c][1] /\ Len(yielded[c]) < plan[c].n
          /\ Len(yielded[c]) \in Nat /\ Len(yielded'[c]) = Len(yielded[c]) + 1
      <4>1. Head(chunks[c]) = chunks[c][1] /\ Len(yielded[c]) < plan[c].n
        BY <1>1, <1>6, <2>3, NextGiven, HeadTyped, Zenon
      <4> QED
        BY <1>1, <2>3, <4>1
    <3>2. /\ Ordered(plan[c], Len(yielded[c]), chunks[c])
          /\ Counted(plan[c], Len(yielded[c]), chunks[c], lastSeq[c])
      BY <1>1, <1>2, <1>6, Zenon DEF Given
    <3>3. /\ Ordered(plan[c], Len(yielded[c]) + 1, Tail(chunks[c]))
          /\ Counted(plan[c], Len(yielded[c]) + 1, Tail(chunks[c]), lastSeq[c])
      BY <1>1, <1>6, <2>3, <3>1, <3>2, TakeFirst, Zenon
    <3>4. Len(yielded'[c]) <= plan[c].n
      BY <1>1, <3>1
    <3>5. Given(c)'
      BY <1>1, <1>2, <1>6, <2>1, <3>1, <3>3, <3>4, Zenon DEF Given
    <3> QED
      BY <1>4, <3>5, Zenon
  <2> QED
    BY <1>6, <2>2, <2>3, Zenon
<1> QED
  BY <1>3, <1>5, <1>6, Zenon

\* push gives its stream the next genuine frame, or fails it.
LEMMA PushGiven ==
    ASSUME IInv, Faithful, plan' = plan, Pushes
    PROVE  \A d \in Calls : Given(d)'
<1>1. UNCHANGED <<yielded, verdict>> /\ ClientTyped /\ \A d \in Calls : Given(d) /\ Waiting(d)
  BY Zenon DEF Pushes, IInv, Client, Faithful
<1>2. PICK c \in Calls, f \in Frame : Genuine(plan[c], f) /\ Push(c, f)
  BY Zenon DEF Pushes, IInv, Wire, Faithful, Authentic
<1> DEFINE p == plan[c]
           k == Len(yielded[c])
<1>3. /\ p \in [n : 0..MaxFrames, ok : BOOLEAN] /\ MaxFrames \in Nat /\ p.n \in 0..MaxFrames
      /\ lastSeq[c] \in Int /\ lastSeq[c] >= -1 /\ f.seq \in Int /\ f.body \in 0..Panic
      /\ chunks[c] \in Seq(1..Panic) /\ k \in Nat /\ Last(p) \in Nat
  <2>1. /\ p \in Plans /\ lastSeq[c] \in -1..(MaxFrames + 1) /\ chunks[c] \in Seq(1..Panic)
        /\ yielded[c] \in Seq(1..MaxFrames)
    BY <1>1, Zenon DEF IInv, Server, ServerTyped, ClientTyped
  <2>2. MaxFrames \in Nat /\ p \in [n : 0..MaxFrames, ok : BOOLEAN]
    BY <2>1, StreamAssumption, Zenon
  <2>3. p.n \in 0..MaxFrames /\ lastSeq[c] \in Int /\ lastSeq[c] >= -1 /\ k \in Nat
    BY <2>1, <2>2
  <2>4. f.seq \in -1..MaxFrames /\ f.body \in 0..Panic
    BY Zenon DEF Frame, Bodies
  <2>5. f.seq \in Int /\ Last(p) \in Nat
    BY <2>2, <2>3, <2>4 DEF Last
  <2> QED
    BY <2>1, <2>2, <2>3, <2>4, <2>5, Zenon
<1>4. \A d \in Calls \ {c} : /\ chunks'[d] = chunks[d] /\ lastSeq'[d] = lastSeq[d]
                             /\ err'[d] = err[d] /\ (d \in ended' <=> d \in ended)
  BY <1>1, <1>2 DEF Push, Breaks, Drops, ClientTyped
<1>5. ASSUME NEW d \in Calls, d # c PROVE Given(d)'
  BY <1>1, <1>4, <1>5, GivenElsewhere
<1>6. /\ lastSeq[c] <= Last(p) /\ f.seq <= Last(p)
      /\ f.seq = -1 => ~f.final /\ f.body = Panic
      /\ f.seq # -1 => /\ f.seq >= 0 /\ f.body = Body(p, f.seq) /\ (f.final <=> f.seq = Last(p))
  <2>1. lastSeq[c] <= Last(p)
    BY <1>1, Zenon DEF Given
  <2>2. \/ f.seq = -1 /\ ~f.final /\ f.body = Panic
        \/ f.seq \in 0..Last(p) /\ f.body = Body(p, f.seq) /\ (f.final <=> f.seq = Last(p))
    BY <1>2, Zenon DEF Genuine
  <2> HIDE DEF p
  <2> QED
    BY <1>3, <2>1, <2>2
<1>7. ASSUME NEW why \in {"sequence", "backpressure"}, Breaks(c, why), lastSeq'[c] <= Last(p)
      PROVE  Given(c)'
  <2>1. chunks'[c] = <<>> /\ err'[c] # "none"
    BY <1>1, <1>7, Zenon DEF Breaks, Drops, ClientTyped
  <2> QED
    BY <1>1, <1>7, <2>1, GivenNothing, Zenon
<1>8. ASSUME c \in ended, UNCHANGED <<chunks, lastSeq, ended, err>> PROVE Given(c)'
  BY <1>1, <1>8, GivenElsewhere, Zenon
\* A repeated frame.
<1>9. ASSUME f.seq # -1, f.seq < lastSeq[c] + 1, UNCHANGED <<chunks, lastSeq, err>>,
             ended' = IF f.final THEN ended \cup {c} ELSE ended
      PROVE  Given(c)'
  <2>1. f.final => lastSeq[c] = Last(p)
    BY <1>3, <1>6, <1>9
  <2> QED
    BY <1>1, <1>9, <2>1, Zenon DEF Given
\* The answer to a panic.
<1>10. ASSUME f.seq = -1, UNCHANGED <<lastSeq, err, ended>>,
              chunks' = [chunks EXCEPT ![c] = Append(@, f.body)]
       PROVE  Given(c)'
  <2>1. f.body = Panic /\ Panic # Failure /\ Panic \in 1..Panic
    BY <1>3, <1>6, <1>10 DEF Panic, Failure
  <2>2. chunks'[c] = Append(chunks[c], Panic)
    BY <1>1, <1>10, <2>1, Zenon DEF ClientTyped
  <2>3. /\ Blamed(p, chunks[c]) => Blamed(p, chunks'[c])
        /\ Ordered(p, k, chunks[c]) => Ordered(p, k, chunks'[c])
        /\ Counted(p, k, chunks'[c], lastSeq[c])
    <3>1. Blamed(p, chunks[c]) => Blamed(p, Append(chunks[c], Panic))
      BY <1>3, <2>1, PutLast, Zenon
    <3>2. /\ Ordered(p, k, chunks[c]) => Ordered(p, k, Append(chunks[c], Panic))
          /\ Counted(p, k, Append(chunks[c], Panic), lastSeq[c])
      BY <1>3, <2>1, PutLast, Zenon
    <3> QED
      BY <2>2, <3>1, <3>2, Zenon
  <2> QED
    BY <1>1, <1>10, <2>3, Zenon DEF Given
\* The next frame, which carries nothing: the whole of an empty stream.
<1>11. ASSUME f.seq = lastSeq[c] + 1, f.seq # -1, lastSeq' = [lastSeq EXCEPT ![c] = f.seq],
              f.body = Empty, UNCHANGED <<chunks, err>>,
              ended' = IF f.final THEN ended \cup {c} ELSE ended
       PROVE  Given(c)'
  <2>1. f.seq = 0 /\ p.n = 0 /\ p.ok /\ Last(p) = 0
    BY <1>3, <1>6, <1>11 DEF Body, Last, Empty, Failure
  <2>2. lastSeq'[c] = 0 /\ lastSeq'[c] <= Last(p)
    <3>1. lastSeq'[c] = 0
      BY <1>1, <1>11, <2>1, Zenon DEF ClientTyped
    <3> QED
      BY <2>1, <3>1
  <2>3. Counted(p, k, chunks[c], lastSeq[c]) => Counted(p, k, chunks[c], 0)
    BY <2>1, Zenon DEF Counted
  <2> QED
    BY <1>1, <1>11, <2>1, <2>2, <2>3, Zenon DEF Given
\* The next frame.
<1>12. ASSUME f.seq = lastSeq[c] + 1, f.seq # -1, lastSeq' = [lastSeq EXCEPT ![c] = f.seq],
              f.body # Empty, chunks' = [chunks EXCEPT ![c] = Append(@, f.body)], UNCHANGED err,
              ended' = IF f.final THEN ended \cup {c} ELSE ended, c \notin ended
       PROVE  Given(c)'
  <2>1. /\ f.body = (IF lastSeq[c] + 1 < p.n THEN lastSeq[c] + 2 ELSE Failure)
        /\ f.body = Failure => ~p.ok
        /\ ~(p.ok /\ p.n = 0) /\ f.body \in 1..Panic
    <3>1. f.seq \in 0..Last(p) /\ f.body = Body(p, f.seq) /\ f.seq + 1 = lastSeq[c] + 2
      BY <1>3, <1>6, <1>12
    <3> QED
      BY <1>3, <1>12, <3>1, NextBody, Zenon
  <2>2. chunks'[c] = Append(chunks[c], f.body) /\ lastSeq'[c] = lastSeq[c] + 1
    BY <1>1, <1>12, Zenon DEF ClientTyped
  <2>3. /\ Blamed(p, chunks[c]) => Blamed(p, chunks'[c])
        /\ Ordered(p, k, chunks[c]) /\ Counted(p, k, chunks[c], lastSeq[c]) =>
              Ordered(p, k, chunks'[c]) /\ Counted(p, k, chunks'[c], lastSeq[c] + 1)
    <3>1. Blamed(p, chunks[c]) => Blamed(p, Append(chunks[c], f.body))
      BY <1>3, <2>1, PutLast, Zenon
    <3>2. Ordered(p, k, chunks[c]) /\ Counted(p, k, chunks[c], lastSeq[c]) =>
              /\ Ordered(p, k, Append(chunks[c], f.body))
              /\ Counted(p, k, Append(chunks[c], f.body), lastSeq[c] + 1)
      BY <1>3, <2>1, PutLast, Zenon
    <3> QED
      BY <2>2, <3>1, <3>2, Zenon
  <2>4. lastSeq'[c] <= Last(p) /\ (c \in ended' => lastSeq'[c] = Last(p))
    BY <1>6, <1>12, <2>2, Zenon
  <2> QED
    BY <1>1, <1>12, <2>2, <2>3, <2>4, Zenon DEF Given
<1>13. Given(c)'
  <2>1. f.seq = -1 => ~f.final /\ f.body # Empty
    BY <1>3, <1>6 DEF Empty, Panic
  <2>2. CASE f.seq \in {-1, lastSeq[c] + 1} /\ Breaks(c, "backpressure")
    <3>1. lastSeq'[c] <= Last(p)
      BY <1>1, <1>2, <1>6, <2>2, Zenon DEF Push, ClientTyped
    <3> QED
      BY <1>7, <2>2, <3>1, Zenon
  <2>3. CASE Breaks(c, "sequence") /\ UNCHANGED lastSeq
    BY <1>6, <1>7, <2>3, Zenon
  <2> QED
    BY <1>2, <1>8, <1>9, <1>10, <1>11, <1>12, <2>1, <2>2, <2>3, Zenon DEF Push
<1> QED
  BY <1>5, <1>13, Zenon

\* What is given and buffered through every step.
LEMMA GivenKeeps ==
    ASSUME IInv, Faithful, [Next]_vars
    PROVE  \A c \in Calls : Given(c)'
<1>1. plan' = plan /\ ClientTyped /\ \A d \in Calls : Given(d)
  BY PlanKept, Zenon DEF IInv, Client, Faithful
<1>2. ASSUME UNCHANGED <<chunks, lastSeq, ended, err, yielded>>,
             \A d \in Calls : verdict'[d] = verdict[d] \/ verdict'[d] # "none"
      PROVE  \A d \in Calls : Given(d)'
  BY <1>1, <1>2, GivenElsewhere, Zenon
<1>3. ASSUME NEW c \in Calls, FailsPending(c) \/ Releases(c) PROVE \A d \in Calls : Given(d)'
  <2>1. /\ UNCHANGED <<lastSeq, yielded, verdict>>
        /\ \A d \in Calls \ {c} : /\ chunks'[d] = chunks[d] /\ err'[d] = err[d]
                                  /\ d \in ended' <=> d \in ended
        /\ \/ UNCHANGED <<chunks, ended, err>>
           \/ chunks'[c] = <<>> /\ err'[c] # "none"
    BY <1>1, <1>3 DEF FailsPending, Breaks, Drops, Releases, ClientTyped
  <2>2. ASSUME NEW d \in Calls, d # c PROVE Given(d)'
    BY <1>1, <2>1, <2>2, GivenElsewhere, Zenon
  <2>3. lastSeq'[c] <= Last(plan[c])
    BY <1>1, <2>1, Zenon DEF Given
  <2>4. Given(c)'
    BY <1>1, <2>1, <2>3, GivenElsewhere, GivenNothing, Zenon
  <2> QED
    BY <2>2, <2>4, Zenon
<1>4. ASSUME NEW c \in Calls, PublishReturns(c) \/ BodyEnds(c) \/ LoopGivesUp(c)
      PROVE  \A d \in Calls : Given(d)'
  <2>1. /\ UNCHANGED <<chunks, lastSeq, ended, err, yielded>>
        /\ \/ UNCHANGED verdict
           \/ \E why \in {"publish", "broke", "idle", "ctx"} :
                 verdict' = [verdict EXCEPT ![c] = why]
    BY <1>4, Zenon DEF PublishReturns, BodyEnds, LoopGivesUp, Leaves
  <2>2. \A d \in Calls : verdict'[d] = verdict[d] \/ verdict'[d] # "none"
    BY <1>1, <2>1, Zenon DEF ClientTyped
  <2> QED
    BY <1>2, <2>1, <2>2, Zenon
<1>5. ASSUME NEW c \in Calls, CallStarts(c) \/ LoopWakes(c) \/ ContextEnds(c)
      PROVE  UNCHANGED <<chunks, lastSeq, ended, err, yielded, verdict>>
  BY <1>5, Zenon DEF CallStarts, LoopWakes, ContextEnds
<1>6. CallerLost \/ UNCHANGED vars => UNCHANGED <<chunks, lastSeq, ended, err, yielded, verdict>>
  BY Zenon DEF CallerLost, vars
<1> QED
  BY <1>1, <1>2, <1>3, <1>4, <1>5, <1>6, TakeGiven, PushGiven, ServiceFrame, FrameFrame,
     RequestFrame, NoticeFrame DEF Next, ReaderNext, CallerNext

\* When every run produces the same, only genuine frames travel.
LEMMA Faithfulness == ASSUME SameReruns PROVE Spec => []Faithful
<1>1. Init => Faithful
  <2> SUFFICES ASSUME Init PROVE Faithful
    BY Zenon
  <2>1. Authentic
    BY DEF Init, Authentic
  <2>2. ASSUME NEW c \in Calls PROVE Returned(c) /\ Given(c)
    <3>1. plan[c].n \in 0..MaxFrames /\ plan[c].ok \in BOOLEAN /\ MaxFrames \in Nat
      BY StreamAssumption DEF Init
    <3>2. Ordered(plan[c], 0, <<>>) /\ Counted(plan[c], 0, <<>>, -1) /\ Blamed(plan[c], <<>>)
      BY <3>1 DEF Ordered, Counted, Blamed
    <3>3. Returned(c)
      BY Zenon DEF Init, Returned
    <3>4. -1 <= Last(plan[c])
      BY <3>1 DEF Last
    <3> QED
      BY <3>1, <3>2, <3>3, <3>4 DEF Init, Given
  <2> QED
    BY <2>1, <2>2, Zenon DEF Faithful
<1>2. IInv /\ Faithful /\ [Next]_vars => Faithful'
  BY WireKeeps, ReturnedKeeps, GivenKeeps, Zenon DEF Faithful, IInv
<1> QED
  BY <1>1, <1>2, Invariance, PTL DEF Spec

-----------------------------------------------------------------------------
\* A handler whose re-runs produce the same frames gives the caller its responses
\* in order and once each, then a clean end or its error after the last of them:
\* each step of the call is a step of the promise or changes nothing of it.
THEOREM StreamKeepsPromise == ASSUME SameReruns PROVE Spec => PromiseKept
<1>1. Init => Promise!Init
  BY Zenon DEF Init, Promise!Init
<1>2. ASSUME IInv, Faithful, [Next]_vars PROVE [Promise!Next]_<<plan, yielded, verdict>>
  <2>1. plan' = plan /\ ClientTyped /\ \A d \in Calls : Waiting(d)
    BY <1>2, PlanKept, Zenon DEF IInv, Client
  <2>2. ASSUME NEW c \in Calls, NEW why \in Errors, loop[c] \notin {"leaving", "over"},
               verdict' = [verdict EXCEPT ![c] = why], UNCHANGED yielded
        PROVE  Promise!Next
    <3>1. verdict[c] = "none"
      BY <2>1, <2>2, Zenon DEF Waiting
    <3>2. Promise!Fails(c)
      BY <2>2, <3>1, Zenon DEF Promise!Fails
    <3> QED
      BY <2>1, <3>2, Zenon DEF Promise!Next
  <2>3. ASSUME NEW c \in Calls, LoopTakes(c) PROVE [Promise!Next]_<<plan, yielded, verdict>>
    <3>1. loop[c] = "loop" /\ verdict[c] = "none"
      BY <2>1, <2>3, Zenon DEF LoopTakes, Waiting
    <3>2. CASE err[c] # "none" /\ Leaves(c, err[c], err[c] = "disconnected") /\ UNCHANGED yielded
      <4>1. err[c] \in Errors
        BY <2>1, <3>1, <3>2, Zenon DEF ClientTyped, Waiting, Errors
      <4> QED
        BY <2>2, <3>1, <3>2, <4>1, Zenon DEF Leaves
    <3>3. CASE Leaves(c, "ctx", Finished(c)) /\ UNCHANGED yielded
      BY <2>2, <3>1, <3>3, Zenon DEF Leaves, Errors
    <3>4. CASE /\ err[c] = "none" /\ chunks[c] # <<>> /\ Head(chunks[c]) \in {Failure, Panic}
               /\ Leaves(c, IF Head(chunks[c]) = Failure THEN "remote" ELSE "panicked", FALSE)
               /\ UNCHANGED yielded
      <4>1. CASE Head(chunks[c]) = Failure
        <5>1. Len(yielded[c]) = plan[c].n /\ ~plan[c].ok
          BY <1>2, <3>1, <3>4, <4>1, NextGiven, Zenon
        <5>2. Promise!Ends(c)
          BY <3>1, <3>4, <4>1, <5>1, Zenon DEF Promise!Ends, Leaves
        <5> QED
          BY <2>1, <5>2, Zenon DEF Promise!Next
      <4>2. CASE Head(chunks[c]) # Failure
        BY <2>2, <3>1, <3>4, <4>2, Zenon DEF Leaves, Errors
      <4> QED
        BY <4>1, <4>2, Zenon
    <3>5. CASE /\ err[c] = "none" /\ chunks[c] # <<>> /\ Head(chunks[c]) \notin {Failure, Panic}
               /\ yielded' = [yielded EXCEPT ![c] = Append(@, Head(chunks[c]))]
               /\ UNCHANGED verdict
      <4>1. Head(chunks[c]) = Len(yielded[c]) + 1 /\ Len(yielded[c]) < plan[c].n
        BY <1>2, <3>1, <3>5, NextGiven, Zenon
      <4>2. Promise!Yields(c)
        BY <3>1, <3>5, <4>1, Zenon DEF Promise!Yields
      <4> QED
        BY <2>1, <4>2, Zenon DEF Promise!Next
    <3>6. CASE Finished(c) /\ chunks[c] = <<>> /\ Leaves(c, "clean", TRUE) /\ UNCHANGED yielded
      <4>1. Len(yielded[c]) = plan[c].n /\ plan[c].ok
        BY <1>2, <3>1, <3>6, NextGiven, Zenon DEF Finished
      <4>2. Promise!Ends(c)
        BY <3>1, <3>6, <4>1, Zenon DEF Promise!Ends, Leaves
      <4> QED
        BY <2>1, <4>2, Zenon DEF Promise!Next
    <3>7. CASE UNCHANGED <<yielded, verdict>>
      BY <2>1, <3>7, Zenon
    <3> QED
      BY <2>3, <3>2, <3>3, <3>4, <3>5, <3>6, <3>7, Zenon DEF LoopTakes
  <2>4. ASSUME NEW c \in Calls, PublishReturns(c) \/ BodyEnds(c) \/ LoopGivesUp(c)
        PROVE  [Promise!Next]_<<plan, yielded, verdict>>
    <3>1. /\ loop[c] \notin {"leaving", "over"} /\ UNCHANGED yielded
          /\ \/ UNCHANGED verdict
             \/ \E why \in {"publish", "broke", "idle", "ctx"} :
                   verdict' = [verdict EXCEPT ![c] = why]
      BY <2>4, Zenon DEF PublishReturns, BodyEnds, LoopGivesUp, Leaves
    <3> QED
      BY <2>1, <2>2, <3>1, Zenon DEF Errors
  <2>5. ASSUME NEW c \in Calls,
               CallStarts(c) \/ LoopWakes(c) \/ ContextEnds(c) \/ FailsPending(c) \/ Releases(c)
        PROVE  UNCHANGED <<yielded, verdict>>
    BY <2>5, Zenon DEF CallStarts, LoopWakes, ContextEnds, FailsPending, Releases
  <2> QED
    BY <1>2, <2>1, <2>3, <2>4, <2>5, ServiceFrame, FrameFrame, RequestFrame, NoticeFrame,
       ReaderFrame, Zenon
       DEF Next, ReaderNext, CallerNext
<1> QED
  BY <1>1, <1>2, Invariance, Faithfulness, PTL DEF Spec, PromiseKept, Promise!Spec

-----------------------------------------------------------------------------
\* The buffers of all streams together.

\* What is left of TypeOK.
Rest ==
    /\ tries \in [Calls -> 0..MaxRetries] /\ reran \subseteq Calls
    /\ broken \subseteq Calls /\ cancelled \subseteq Calls /\ finals \subseteq Calls
    /\ queue \subseteq Calls /\ streams \subseteq Calls /\ failing \subseteq Calls
    /\ ended \subseteq Calls /\ notify \subseteq Calls /\ ctxDone \subseteq Calls
    /\ notice \in [Calls -> {"none", "sent", "gone"}] /\ faults \in 0..MaxFaults

\* The first two conjuncts of BufferAccounted and each stream's limits.
Accounts ==
    /\ total = FrameBytes * Cardinality(Held) /\ total <= MaxTotal
    /\ \A c \in Calls : Len(chunks[c]) <= MaxChunks /\ Bytes(c) <= MaxBytes

\* The chunks of streams that hold len[c] chunks each.
Cells(len) == {x \in Calls \X (1..MaxChunks) : x[2] <= len[x[1]]}

\* What the argument needs of Cardinality; FiniteSetTheorems has it, at the end.
Others(len, c) == {x \in Cells(len) : x[1] # c}
Counting ==
    /\ Cardinality({}) = 0
    /\ \A len \in [Calls -> 0..MaxChunks], c \in Calls :
          /\ Cardinality(Others(len, c)) \in Nat /\ Cardinality(Cells(len)) \in Nat
          /\ Cardinality(Cells(len)) = Cardinality(Others(len, c)) + len[c]

\* Multiples of a frame's size.
LEMMA FrameMultiples ==
    ASSUME NEW b \in Nat, NEW n \in Nat
    PROVE  /\ FrameBytes * b \in Nat /\ b * FrameBytes = FrameBytes * b
           /\ FrameBytes * (b + n) = FrameBytes * b + n * FrameBytes
           /\ (n + 1) * FrameBytes = n * FrameBytes + FrameBytes
BY StreamAssumption

\* A stream's buffer gets another length, and the count its difference.
LEMMA AccountsStep ==
    ASSUME Counting, ClientTyped, Accounts, NEW c \in Calls, NEW n \in Nat,
           chunks' \in [Calls -> Seq(1..Panic)],
           Len(chunks'[c]) = n, \A d \in Calls \ {c} : chunks'[d] = chunks[d],
           n <= MaxChunks, n * FrameBytes <= MaxBytes,
           total' = total - Bytes(c) + n * FrameBytes, total' <= MaxTotal
    PROVE  Accounts'
<1> DEFINE len == [d \in Calls |-> Len(chunks[d])]
           new == [d \in Calls |-> Len(chunks'[d])]
           others == Others(len, c)
<1>1. \A d \in Calls : Len(chunks[d]) \in 0..MaxChunks
  BY StreamAssumption DEF ClientTyped, Accounts
<1>2. \A d \in Calls : Len(chunks'[d]) \in 0..MaxChunks
  <2>1. n \in 0..MaxChunks
    BY StreamAssumption
  <2> QED
    BY <1>1, <2>1, Zenon
<1>3. len \in [Calls -> 0..MaxChunks] /\ new \in [Calls -> 0..MaxChunks]
  BY <1>1, <1>2, Zenon
<1>4. Held = Cells(len) /\ Held' = Cells(new)
  BY DEF Held, Cells
<1>5. Others(new, c) = others
  BY DEF Cells, Others
<1>6. len[c] = Len(chunks[c]) /\ new[c] = n
  BY Zenon
<1> HIDE DEF len, new
<1>7. /\ Cardinality(others) \in Nat
      /\ Cardinality(Held) = Cardinality(others) + Len(chunks[c])
      /\ Cardinality(Held') = Cardinality(others) + n
  <2>1. /\ Cardinality(others) \in Nat /\ Cardinality(Cells(len)) = Cardinality(others) + len[c]
    BY <1>3, Zenon DEF Counting
  <2>2. Cardinality(Cells(new)) = Cardinality(Others(new, c)) + new[c]
    BY <1>3, Zenon DEF Counting
  <2> QED
    BY <1>4, <1>5, <1>6, <2>1, <2>2, Zenon
<1> HIDE DEF others
<1>8. total' = FrameBytes * Cardinality(Held')
  <2>1. Len(chunks[c]) \in Nat
    BY <1>1, StreamAssumption
  <2>2. /\ FrameBytes * (Cardinality(others) + Len(chunks[c]))
             = FrameBytes * Cardinality(others) + Len(chunks[c]) * FrameBytes
        /\ FrameBytes * (Cardinality(others) + n)
             = FrameBytes * Cardinality(others) + n * FrameBytes
    BY <1>7, <2>1, FrameMultiples, Zenon
  <2>3. total = FrameBytes * Cardinality(others) + Bytes(c)
    BY <1>7, <2>2, Zenon DEF Accounts, Bytes
  <2>4. FrameBytes * Cardinality(others) \in Int /\ Bytes(c) \in Int /\ n * FrameBytes \in Int
    BY <1>7, <2>1, StreamAssumption DEF Bytes
  <2> QED
    BY <1>7, <2>2, <2>3, <2>4
<1>9. ASSUME NEW d \in Calls PROVE Len(chunks'[d]) <= MaxChunks /\ Bytes(d)' <= MaxBytes
  <2>1. CASE d = c
    BY <2>1, Zenon DEF Bytes
  <2>2. CASE d # c
    BY <2>2, Zenon DEF Accounts, Bytes
  <2> QED
    BY <2>1, <2>2, Zenon
<1> QED
  BY <1>8, <1>9, Zenon DEF Accounts

\* The count is a number.
LEMMA TotalTyped == ASSUME Counting, ClientTyped, Accounts PROVE total \in Nat
<1>1. Held = Cells([d \in Calls |-> Len(chunks[d])])
  BY DEF Held, Cells
<1>2. [d \in Calls |-> Len(chunks[d])] \in [Calls -> 0..MaxChunks]
  BY StreamAssumption DEF ClientTyped, Accounts
<1>3. CASE Calls = {}
  <2>1. Held = {}
    BY <1>3, Zenon DEF Held
  <2> QED
    BY <2>1, StreamAssumption DEF Counting, Accounts
<1>4. ASSUME NEW c \in Calls PROVE total \in Nat
  <2>1. Cardinality(Held) \in Nat
    BY <1>1, <1>2, Zenon DEF Counting
  <2> QED
    BY <2>1, StreamAssumption DEF Accounts
<1> QED
  BY <1>3, <1>4, Zenon

\* Dropping a stream's chunks.
LEMMA AccountsDrop ==
    ASSUME Counting, ClientTyped, Accounts, NEW c \in Calls, Drops(c) PROVE Accounts'
<1>1. Len(chunks[c]) \in Nat /\ total \in Nat /\ Bytes(c) \in Nat /\ total <= MaxTotal
  <2>1. Len(chunks[c]) \in Nat
    BY DEF ClientTyped
  <2>2. Bytes(c) \in Nat
    BY <2>1, StreamAssumption DEF Bytes
  <2> QED
    BY <2>1, <2>2, TotalTyped, Zenon DEF Accounts
<1>2. /\ chunks' \in [Calls -> Seq(1..Panic)] /\ Len(chunks'[c]) = 0
      /\ \A d \in Calls \ {c} : chunks'[d] = chunks[d]
  BY DEF ClientTyped, Drops
<1>3. 0 * FrameBytes = 0 /\ 0 <= MaxChunks /\ 0 <= MaxBytes /\ 0 \in Nat
  BY StreamAssumption
<1>4. total' = total - Bytes(c) + 0 * FrameBytes /\ total' <= MaxTotal
  BY <1>1, <1>3, StreamAssumption DEF Drops
<1> QED
  BY <1>2, <1>3, <1>4, AccountsStep, Zenon

\* push counts a chunk when it buffers it.
LEMMA AccountsPush ==
    ASSUME Counting, ClientTyped, Accounts, NEW c \in Calls, NEW f \in Frame, Push(c, f) PROVE Accounts'
<1>1. CASE UNCHANGED <<chunks, total>>
  BY <1>1, Zenon DEF Accounts, Held, Bytes
<1>2. CASE Drops(c)
  BY <1>2, AccountsDrop, Zenon
<1>3. CASE /\ f.body # Empty /\ ~Overflows(c)
           /\ chunks' = [chunks EXCEPT ![c] = Append(@, f.body)] /\ total' = total + FrameBytes
  <2>1. /\ f.body \in 1..Panic /\ chunks[c] \in Seq(1..Panic) /\ Len(chunks[c]) \in Nat
        /\ total \in Nat
    <3>1. f.body \in 1..Panic
      BY <1>3, StreamAssumption DEF Frame, Bodies, Empty, Panic
    <3>2. chunks[c] \in Seq(1..Panic)
      BY Zenon DEF ClientTyped
    <3> QED
      BY <3>1, <3>2, TotalTyped
  <2>2. /\ Append(chunks[c], f.body) \in Seq(1..Panic)
        /\ Len(Append(chunks[c], f.body)) = Len(chunks[c]) + 1
    BY <2>1
  <2>3. /\ chunks' \in [Calls -> Seq(1..Panic)] /\ Len(chunks'[c]) = Len(chunks[c]) + 1
        /\ \A d \in Calls \ {c} : chunks'[d] = chunks[d]
    BY <1>3, <2>2, Zenon DEF ClientTyped
  <2>4. (Len(chunks[c]) + 1) * FrameBytes = Bytes(c) + FrameBytes /\ Bytes(c) \in Nat
    BY <2>1, StreamAssumption DEF Bytes
  <2>5. /\ Len(chunks[c]) + 1 \in Nat /\ Len(chunks[c]) + 1 <= MaxChunks
        /\ (Len(chunks[c]) + 1) * FrameBytes <= MaxBytes
        /\ total' = total - Bytes(c) + (Len(chunks[c]) + 1) * FrameBytes /\ total' <= MaxTotal
    <3>1. /\ ~(Len(chunks[c]) + 1 > MaxChunks) /\ ~(Bytes(c) + FrameBytes > MaxBytes)
          /\ ~(total + FrameBytes > MaxTotal) /\ total' = total + FrameBytes
      BY <1>3, Zenon DEF Overflows
    <3>2. ASSUME NEW m, m = Bytes(c) + FrameBytes
          PROVE  m <= MaxBytes /\ total' = total - Bytes(c) + m /\ total' <= MaxTotal
      BY <2>1, <2>4, <3>1, <3>2, StreamAssumption
    <3>3. Len(chunks[c]) + 1 \in Nat /\ Len(chunks[c]) + 1 <= MaxChunks
      BY <2>1, <3>1, StreamAssumption
    <3> QED
      BY <2>4, <3>2, <3>3, Zenon
  <2> QED
    BY <2>3, <2>5, AccountsStep, Zenon
<1> QED
  BY <1>1, <1>2, <1>3, Zenon DEF Push, Breaks

\* next gives back the chunk it takes.
LEMMA AccountsTake ==
    ASSUME Counting, ClientTyped, Accounts, NEW c \in Calls, chunks[c] # <<>>,
           chunks' = [chunks EXCEPT ![c] = Tail(@)], total' = total - FrameBytes
    PROVE  Accounts'
<1> DEFINE n == Len(chunks[c]) - 1
<1>1. chunks[c] \in Seq(1..Panic) /\ total \in Nat
  BY TotalTyped, Zenon DEF ClientTyped
<1>2. /\ Tail(chunks[c]) \in Seq(1..Panic) /\ Len(Tail(chunks[c])) = n
      /\ n \in Nat /\ Len(chunks[c]) = n + 1
  <2>1. /\ Tail(chunks[c]) \in Seq(1..Panic) /\ Len(Tail(chunks[c])) = n
        /\ Len(chunks[c]) \in Nat /\ 1 \in 1..Len(chunks[c])
    BY <1>1, HeadTyped, Zenon
  <2> QED
    BY <2>1
<1>3. /\ chunks' \in [Calls -> Seq(1..Panic)] /\ Len(chunks'[c]) = n
      /\ \A d \in Calls \ {c} : chunks'[d] = chunks[d]
  BY <1>2, Zenon DEF ClientTyped
<1> HIDE DEF n
<1>4. Bytes(c) = n * FrameBytes + FrameBytes /\ n * FrameBytes \in Nat
  BY <1>2, StreamAssumption DEF Bytes
<1>5. /\ n <= MaxChunks /\ n * FrameBytes <= MaxBytes
      /\ total' = total - Bytes(c) + n * FrameBytes /\ total' <= MaxTotal
  <2>1. Len(chunks[c]) <= MaxChunks /\ Bytes(c) <= MaxBytes /\ total <= MaxTotal
    BY Zenon DEF Accounts
  <2> QED
    BY <1>1, <1>2, <1>4, <2>1, StreamAssumption
<1> QED
  BY <1>2, <1>3, <1>5, AccountsStep, Zenon

\* The count of the buffers through every step.
LEMMA AccountsKeep == ASSUME Counting, Client, Wire, Accounts, [Next]_vars PROVE Accounts'
<1>1. ASSUME UNCHANGED <<chunks, total>> PROVE Accounts'
  BY <1>1, Zenon DEF Accounts, Held, Bytes
<1>2. ClientTyped
  BY Zenon DEF Client
<1>3. CASE Pushes
  <2>1. PICK c \in Calls, f \in Frame : Push(c, f)
    BY <1>3, Zenon DEF Pushes, Wire
  <2> QED
    BY <1>2, <2>1, AccountsPush, Zenon
<1>4. ASSUME NEW c \in Calls, LoopTakes(c) PROVE Accounts'
  BY <1>1, <1>2, <1>4, AccountsTake, Zenon DEF LoopTakes
<1>5. ASSUME NEW c \in Calls, FailsPending(c) \/ Releases(c) PROVE Accounts'
  BY <1>1, <1>2, <1>5, AccountsDrop, Zenon DEF FailsPending, Breaks, Releases
<1>6. ASSUME NEW c \in Calls,
             \/ CallStarts(c) \/ PublishReturns(c) \/ BodyEnds(c) \/ LoopWakes(c)
             \/ LoopGivesUp(c) \/ ContextEnds(c)
      PROVE  UNCHANGED <<chunks, total>>
  BY <1>6, Zenon DEF CallStarts, PublishReturns, BodyEnds, LoopWakes, LoopGivesUp, ContextEnds
<1>7. CallerLost \/ UNCHANGED vars => UNCHANGED <<chunks, total>>
  BY Zenon DEF CallerLost, vars
<1> QED
  BY <1>1, <1>3, <1>4, <1>5, <1>6, <1>7, ServiceFrame, FrameFrame, RequestFrame, NoticeFrame, Zenon
     DEF Next, ReaderNext, CallerNext

\* A fault stays within its budget.
LEMMA FaultTyped ==
    ASSUME faults \in 0..MaxFaults, Fault \/ UNCHANGED faults PROVE faults' \in 0..MaxFaults
BY StreamAssumption DEF Fault

\* The retry count stays within the ladder.
LEMMA TriesTyped ==
    ASSUME tries \in [Calls -> 0..MaxRetries], NEW c \in Calls, Retries(c) \/ UNCHANGED tries
    PROVE  tries' \in [Calls -> 0..MaxRetries]
<1>1. tries[c] < MaxRetries => tries[c] + 1 \in 0..MaxRetries
  BY StreamAssumption
<1> QED
  BY <1>1, Zenon DEF Retries

\* The rest of the state keeps its types when a frame is published,
LEMMA PublishesRest ==
    ASSUME Rest, NEW c \in Calls, NEW b, NEW fin, NEW out, Publishes(c, b, fin, out)
    PROVE  finals' \subseteq Calls /\ (Fault \/ UNCHANGED faults)
BY Zenon DEF Publishes, Rest

\* and in every step of the service.
LEMMA ServiceRest ==
    ASSUME Rest, NEW c \in Calls, ServiceNext(c) \/ HandlerPanics(c) \/ ServiceLost(c)
    PROVE  Rest'
<1> DEFINE Kept == /\ Retries(c) \/ UNCHANGED tries
                   /\ Fault \/ UNCHANGED faults
                   /\ reran' \subseteq Calls /\ broken' \subseteq Calls
                   /\ cancelled' \subseteq Calls /\ finals' \subseteq Calls /\ UNCHANGED queue
<1>1. ASSUME HandlerStarts(c) PROVE Kept
  BY <1>1, Zenon DEF HandlerStarts, Rest
<1>2. ASSUME HandlerSends(c) PROVE Kept
  BY <1>2, PublishesRest, Zenon DEF HandlerSends, Rest
<1>3. ASSUME HandlerReturns(c) \/ Acks(c) \/ ServiceLost(c) PROVE Kept
  BY <1>3, Zenon DEF HandlerReturns, Acks, ServiceLost, Over, Rest
<1>4. ASSUME Finishes(c) PROVE Kept
  BY <1>4, PublishesRest, Zenon DEF Finishes, Over, Rest
<1>5. ASSUME HandlerPanics(c) PROVE Kept
  BY <1>5, Zenon DEF HandlerPanics, Over, Rest
<1>6. Kept
  BY <1>1, <1>2, <1>3, <1>4, <1>5, Zenon DEF ServiceNext
<1>7. tries' \in [Calls -> 0..MaxRetries] /\ faults' \in 0..MaxFaults
  BY <1>6, FaultTyped, TriesTyped, Zenon DEF Rest
<1> QED
  BY <1>6, <1>7, ServiceFrame, Zenon DEF Rest

\* the caller's,
LEMMA CallerRest ==
    ASSUME Rest, NEW c \in Calls,
           \/ CallerNext(c) \/ CallStarts(c) \/ LoopGivesUp(c) \/ ContextEnds(c) \/ FailsPending(c)
    PROVE  Rest'
<1> DEFINE Kept == /\ UNCHANGED <<tries, queue>> /\ (Fault \/ UNCHANGED faults)
                   /\ UNCHANGED notice \/ CancelStream(c)
                   /\ streams' \subseteq Calls /\ failing' \subseteq Calls
                   /\ ctxDone' \subseteq Calls /\ ended' \subseteq Calls /\ notify' \subseteq Calls
<1>1. ASSUME PublishReturns(c) \/ BodyEnds(c) \/ LoopGivesUp(c) PROVE Kept
  BY <1>1, Zenon DEF PublishReturns, BodyEnds, LoopGivesUp, Leaves, Rest
<1>2. ASSUME LoopTakes(c) PROVE Kept
  BY <1>2, Zenon DEF LoopTakes, Leaves, Rest
<1>3. ASSUME LoopWakes(c) \/ Releases(c) \/ CallStarts(c) PROVE Kept
  BY <1>3, Zenon DEF LoopWakes, Releases, CallStarts, Rest
<1>4. ASSUME ContextEnds(c) \/ FailsPending(c) PROVE Kept
  BY <1>4, Zenon DEF ContextEnds, FailsPending, Breaks, Rest
<1>5. Kept
  BY <1>1, <1>2, <1>3, <1>4, Zenon DEF CallerNext
<1>6. notice' \in [Calls -> {"none", "sent", "gone"}] /\ faults' \in 0..MaxFaults
  BY <1>5, FaultTyped, Zenon DEF CancelStream, Rest
<1> QED
  BY <1>5, <1>6, CallerFrame, Zenon DEF Rest

\* and those of the frames, the notice and the connection.
LEMMA RestKeeps == ASSUME Rest, Wire, [Next]_vars PROVE Rest'
<1>1. ASSUME NEW c \in Calls, FrameLost(c) \/ Routes(c) \/ RequestArrives(c) PROVE Rest'
  <2>1. UNCHANGED <<tries, serverVars, queue, clientVars, loopVars>> /\ (Fault \/ UNCHANGED faults)
    BY <1>1, Zenon DEF FrameLost, Routes, RequestArrives
  <2> QED
    BY <2>1, FaultTyped, Zenon DEF Rest
<1>2. ASSUME NEW c \in Calls, NoticeArrives(c) PROVE Rest'
  <2>1. /\ notice' \in [Calls -> {"none", "sent", "gone"}] /\ cancelled' \subseteq Calls
    BY <1>2, Zenon DEF NoticeArrives, Rest
  <2> QED
    BY <1>2, <2>1, Zenon DEF NoticeArrives, Rest
<1>3. CASE Pushes
  <2>1. hand.call \in Calls
    BY <1>3, Zenon DEF Pushes, Wire
  <2>2. ended' \subseteq Calls /\ notify' \subseteq Calls
    BY <1>3, <2>1, Zenon DEF Pushes, Push, Breaks, Rest
  <2> QED
    BY <1>3, <2>2, Zenon DEF Pushes, Rest
<1>4. CASE CallerLost
  <2>1. /\ queue' \subseteq Calls /\ failing' \subseteq Calls /\ streams' \subseteq Calls
        /\ Fault
    BY <1>4, Zenon DEF CallerLost, Rest
  <2>2. UNCHANGED <<tries, serverVars, ended, notify, ctxDone, notice>>
    BY <1>4, Zenon DEF CallerLost
  <2> QED
    BY <2>1, <2>2, FaultTyped, Zenon DEF Rest
<1>5. CASE UNCHANGED vars
  BY <1>5, Zenon DEF vars, Rest
<1> QED
  BY <1>1, <1>2, <1>3, <1>4, <1>5, ServiceRest, CallerRest, Zenon DEF Next, ReaderNext

\* No stream, nothing counted.
LEMMA InitAccounts == ASSUME Counting, Init PROVE Rest /\ Accounts
<1>1. 0 \in 0..MaxRetries /\ 0 \in 0..MaxFaults
  BY StreamAssumption
<1>2. Rest
  BY <1>1, Zenon DEF Init, Rest
<1>3. \A c \in Calls : Len(chunks[c]) = 0
  BY DEF Init
<1>4. Held = {}
  BY <1>3 DEF Held
<1>5. Cardinality(Held) = 0
  BY <1>4, Zenon DEF Counting
<1> QED
  BY <1>2, <1>3, <1>5, StreamAssumption DEF Init, Accounts, Bytes

\* The invariant gives the property.
LEMMA AccountsSuffice == ASSUME Counting, IInv, Rest, Accounts PROVE BufferExact
<1>1. chunks \in [Calls -> Seq(Bodies)]
  BY StreamAssumption DEF IInv, Client, ClientTyped, Bodies, Panic
<1>2. TypeOK
  BY <1>1, TotalTyped, Zenon
     DEF IInv, Server, ServerTyped, Wire, Client, ClientTyped, Rest, TypeOK
<1>3. BufferAccounted /\ WakeUpPending
  BY Zenon DEF IInv, Client, Waiting, Accounts, BufferAccounted, WakeUpPending
<1> QED
  BY <1>2, <1>3, Zenon DEF BufferExact

-----------------------------------------------------------------------------
INSTANCE FiniteSetTheorems

\* One stream's chunks are counted one by one.
LEMMA ColumnCounted ==
    ASSUME NEW c, NEW k \in Nat
    PROVE  IsFiniteSet({c} \X (1..k)) /\ Cardinality({c} \X (1..k)) = k
<1>1. IsFiniteSet({c}) /\ Cardinality({c}) = 1
  BY FS_Singleton, Zenon
<1>2. IsFiniteSet(1..k) /\ Cardinality(1..k) = k
  BY FS_Interval
<1>3. /\ IsFiniteSet({c} \X (1..k))
      /\ Cardinality({c} \X (1..k)) = Cardinality({c}) * Cardinality(1..k)
  BY <1>1, <1>2, FS_Product, Zenon
<1>4. 1 * k = k
  OBVIOUS
<1> QED
  BY <1>1, <1>2, <1>3, <1>4, Zenon

\* The chunks of one stream and those of the others.
LEMMA CellsCounted ==
    ASSUME NEW len \in [Calls -> 0..MaxChunks], NEW c \in Calls
    PROVE  /\ Cardinality(Others(len, c)) \in Nat /\ Cardinality(Cells(len)) \in Nat
           /\ Cardinality(Cells(len)) = Cardinality(Others(len, c)) + len[c]
<1> DEFINE others == Others(len, c)
           column == {c} \X (1..len[c])
<1>1. IsFiniteSet(Calls \X (1..MaxChunks))
  <2>1. IsFiniteSet(1..MaxChunks)
    BY StreamAssumption, FS_Interval
  <2> QED
    BY <2>1, StreamAssumption, FS_Product, Zenon
<1>2. IsFiniteSet(Cells(len)) /\ IsFiniteSet(others)
  <2>1. /\ Cells(len) \in SUBSET (Calls \X (1..MaxChunks))
        /\ others \in SUBSET (Calls \X (1..MaxChunks))
    BY Zenon DEF Cells, Others
  <2> QED
    BY <1>1, <2>1, FS_Subset, Zenon
<1>3. Cardinality(Cells(len)) \in Nat /\ Cardinality(others) \in Nat
  BY <1>2, FS_CardinalityType, Zenon
<1>4. len[c] \in Nat /\ len[c] <= MaxChunks
  BY StreamAssumption
<1>5. IsFiniteSet(column) /\ Cardinality(column) = len[c]
  BY <1>4, ColumnCounted, Zenon
<1>6. Cells(len) = others \cup column
  <2>1. ASSUME NEW x \in column PROVE x \in Cells(len)
    BY <1>4, <2>1, StreamAssumption DEF Cells
  <2>2. ASSUME NEW x \in Cells(len), x[1] = c PROVE x \in column
    BY <1>4, <2>2, StreamAssumption DEF Cells
  <2> QED
    BY <2>1, <2>2, Zenon DEF Others
<1>7. others \cap column = {}
  BY Zenon DEF Others
<1>8. Cardinality(others \cup column)
        = Cardinality(others) + Cardinality(column) - Cardinality(others \cap column)
  BY <1>2, <1>5, FS_Union, Zenon
<1>9. Cardinality(others \cap column) = 0
  BY <1>7, FS_EmptySet, Zenon
<1> HIDE DEF others, column
<1>10. Cardinality(Cells(len)) = Cardinality(others) + len[c]
  BY <1>3, <1>4, <1>5, <1>6, <1>8, <1>9
<1> QED
  BY <1>3, <1>10, Zenon DEF others

\* What is assumed of Cardinality above.
LEMMA Counts == Counting
BY CellsCounted, FS_EmptySet, Zenon DEF Counting

\* However many streams share the process, and whatever is lost, dropped or
\* released on the way: the process-wide count is what they hold, no limit is
\* exceeded, a caller that has left holds nothing, and no loop waits for a wake-up
\* that has been missed (dispatcher.go:500-634).
THEOREM BufferIsExact == Spec => []BufferExact
<1>1. Init => Rest /\ Accounts
  BY Counts, InitAccounts, Zenon
<1>2. IInv /\ Rest /\ Accounts /\ [Next]_vars => Rest' /\ Accounts'
  BY Counts, RestKeeps, AccountsKeep, Zenon DEF IInv
<1>3. IInv /\ Rest /\ Accounts => BufferExact
  BY Counts, AccountsSuffice, Zenon
<1> QED
  BY <1>1, <1>2, <1>3, Invariance, PTL DEF Spec
=============================================================================
