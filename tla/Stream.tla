------------------------------- MODULE Stream -------------------------------
(***************************************************************************)
(* A server-streaming call from end to end: the handler and its            *)
(* serverStream (stream.go), the settlement of its request, the frames on  *)
(* their way, the reply reader and the caller's clientStream and loop      *)
(* (dispatcher.go). Requests are acknowledged late.                        *)
(***************************************************************************)
EXTENDS Integers, Sequences, FiniteSets

CONSTANTS
    Calls,       \* streaming calls of one process
    MaxFrames,   \* bound: responses of a handler
    Plans,       \* the handlers considered: [n, ok], n responses and then nil or an error
    FrameBytes,  \* size of a frame's body
    MaxChunks,   \* Config.StreamMaxBufferedChunks
    MaxBytes,    \* Config.StreamMaxBufferedBytes
    MaxTotal,    \* Config.StreamMaxTotalBufferedBytes
    MaxRetries,  \* RetryPolicy.MaxRetries
    MaxFaults,   \* bound: failures of any kind
    SameReruns   \* whether a handler that runs again produces the same frames

ASSUME StreamAssumption ==
    /\ IsFiniteSet(Calls) /\ MaxFrames \in Nat /\ Plans \subseteq [n : 0..MaxFrames, ok : BOOLEAN]
    /\ FrameBytes \in Nat \ {0} /\ MaxChunks \in Nat /\ MaxBytes \in Nat /\ MaxTotal \in Nat
    /\ MaxRetries \in Nat /\ MaxFaults \in Nat /\ SameReruns \in BOOLEAN

\* Bodies: a response is its number.
Empty == 0
Failure == MaxFrames + 1
Panic == MaxFrames + 2
Bodies == 0..Panic
Frame == [seq : -1..MaxFrames, final : BOOLEAN, body : Bodies]
NoFrame == [call |-> "none"]
Errors ==
    {"panicked", "sequence", "backpressure", "disconnected", "idle", "ctx", "broke", "publish"}

VARIABLES
    plan,      \* what each call's handler produces
    request,   \* the request message: none, queued, held, acked or dead
    tries,     \* its x-retry-count
    handler,   \* the handler of its current delivery: none, runs, finish or ack
    reran,     \* calls whose handler has run before
    sent,      \* responses this run has handed to Send
    pending,   \* serverStream.pending
    seq,       \* serverStream.seq
    broken,    \* serverStream.err is set
    result,    \* what the handler returned
    cancelled, \* the handler's context was cancelled with ErrCancelled
    finals,    \* calls whose final frame has reached the broker
    net,       \* the frames between the broker and the reply reader
    queue,     \* whether the reply queue the request names exists
    hand,      \* the frame route has found a stream for and push has not taken
    streams,   \* dispatcher.streams
    failing,   \* streams failPending has taken out and not yet failed
    chunks, lastSeq, ended, err, notify, \* clientStream
    total,     \* dispatcher.bufferedBytes
    loop,      \* the caller's loop
    ctxDone,   \* the caller's context has ended
    notice,    \* the cancel notice: none, sent or gone
    yielded, verdict, \* what the caller has been given
    faults

requestVars == <<plan, request, tries>>
serverVars  == <<handler, reran, sent, pending, seq, broken, result, cancelled, finals>>
netVars     == <<net, queue, hand>>
clientVars  == <<streams, failing, chunks, lastSeq, ended, err, notify, total>>
loopVars    == <<loop, ctxDone, notice, yielded, verdict>>
vars == <<requestVars, serverVars, netVars, clientVars, loopVars, faults>>

TypeOK ==
    /\ plan \in [Calls -> Plans]
    /\ request \in [Calls -> {"none", "queued", "held", "acked", "dead"}]
    /\ tries \in [Calls -> 0..MaxRetries]
    /\ handler \in [Calls -> {"none", "runs", "finish", "ack"}]
    /\ reran \subseteq Calls
    /\ sent \in [Calls -> 0..MaxFrames] /\ pending \in [Calls -> 0..MaxFrames]
    /\ seq \in [Calls -> 0..(MaxFrames + 1)]
    /\ broken \subseteq Calls /\ cancelled \subseteq Calls /\ finals \subseteq Calls
    /\ result \in [Calls -> {"nil", "err"}]
    /\ net \in [Calls -> Seq(Frame)] /\ queue \subseteq Calls
    /\ hand = NoFrame \/ hand \in [call : Calls, frame : Frame]
    /\ streams \subseteq Calls /\ failing \subseteq Calls
    /\ chunks \in [Calls -> Seq(Bodies)] /\ lastSeq \in [Calls -> -1..(MaxFrames + 1)]
    /\ ended \subseteq Calls /\ notify \subseteq Calls
    /\ err \in [Calls -> {"none", "sequence", "backpressure", "disconnected", "released"}]
    /\ total \in Nat
    /\ loop \in [Calls -> {"idle", "publishing", "loop", "body", "wait", "leaving", "over"}]
    /\ ctxDone \subseteq Calls /\ notice \in [Calls -> {"none", "sent", "gone"}]
    /\ yielded \in [Calls -> Seq(1..MaxFrames)]
    /\ verdict \in [Calls -> Errors \cup {"none", "clean", "remote"}]
    /\ faults \in 0..MaxFaults

Init ==
    /\ plan \in [Calls -> Plans]
    /\ request = [c \in Calls |-> "none"] /\ tries = [c \in Calls |-> 0]
    /\ handler = [c \in Calls |-> "none"] /\ reran = {} /\ sent = [c \in Calls |-> 0]
    /\ pending = [c \in Calls |-> Empty] /\ seq = [c \in Calls |-> 0]
    /\ broken = {} /\ cancelled = {} /\ finals = {} /\ result = [c \in Calls |-> "nil"]
    /\ net = [c \in Calls |-> <<>>] /\ queue = Calls /\ hand = NoFrame
    /\ streams = {} /\ failing = {} /\ chunks = [c \in Calls |-> <<>>]
    /\ lastSeq = [c \in Calls |-> -1] /\ ended = {} /\ notify = {}
    /\ err = [c \in Calls |-> "none"] /\ total = 0
    /\ loop = [c \in Calls |-> "idle"] /\ ctxDone = {}
    /\ notice = [c \in Calls |-> "none"]
    /\ yielded = [c \in Calls |-> <<>>] /\ verdict = [c \in Calls |-> "none"]
    /\ faults = 0

Fault == faults < MaxFaults /\ faults' = faults + 1

-----------------------------------------------------------------------------
\* The service: the handler, its serverStream and the settlement.

\* A delivery of the request starts serveStream.
HandlerStarts(c) ==
    /\ request[c] = "queued" /\ request' = [request EXCEPT ![c] = "held"]
    /\ handler' = [handler EXCEPT ![c] = "runs"] /\ sent' = [sent EXCEPT ![c] = 0]
    /\ pending' = [pending EXCEPT ![c] = Empty] /\ seq' = [seq EXCEPT ![c] = 0]
    /\ broken' = broken \ {c} /\ cancelled' = cancelled \ {c}
    /\ UNCHANGED <<plan, tries, reran, result, finals, netVars, clientVars, loopVars, faults>>

\* serverStream.publish: confirmed, or failed before or after the broker had
\* the frame. A reply queue that is gone swallows it.
Publishes(c, body, final, out) ==
    /\ net' = IF out # "unsent" /\ c \in queue
              THEN [net EXCEPT ![c] = Append(@, [seq |-> seq[c], final |-> final, body |-> body])]
              ELSE net
    /\ seq' = IF out = "ok" THEN [seq EXCEPT ![c] = @ + 1] ELSE seq
    /\ finals' = IF final /\ out # "unsent" THEN finals \cup {c} ELSE finals
    /\ IF out = "ok" THEN UNCHANGED faults ELSE Fault
Outcomes == {"ok", "unsent", "unconfirmed"}

\* SendMsg publishes the response held before and holds this one.
HandlerSends(c) ==
    /\ handler[c] = "runs" /\ sent[c] < plan[c].n /\ c \notin broken \cup cancelled
    /\ \E out \in Outcomes :
          /\ IF pending[c] = Empty
             THEN out = "ok" /\ UNCHANGED <<net, seq, finals, faults>>
             ELSE Publishes(c, pending[c], FALSE, out)
          /\ broken' = IF out = "ok" THEN broken ELSE broken \cup {c}
          /\ pending' = IF out = "ok" THEN [pending EXCEPT ![c] = sent[c] + 1] ELSE pending
          /\ sent' = [sent EXCEPT ![c] = @ + 1]
    /\ UNCHANGED <<requestVars, handler, reran, result, cancelled, queue, hand, clientVars,
                   loopVars>>

\* The handler returns when it has sent everything, when Send failed, or, in a
\* run that differs from the one before, with an error of its own.
HandlerReturns(c) ==
    /\ handler[c] = "runs" /\ handler' = [handler EXCEPT ![c] = "finish"]
    /\ \/ /\ sent[c] = plan[c].n
          /\ result' = [result EXCEPT ![c] = IF plan[c].ok THEN "nil" ELSE "err"]
       \/ c \in broken \cup cancelled /\ result' = [result EXCEPT ![c] = "err"]
       \/ ~SameReruns /\ c \in reran /\ result' = [result EXCEPT ![c] = "err"]
    /\ UNCHANGED <<requestVars, reran, sent, pending, seq, broken, cancelled, finals, netVars,
                   clientVars, loopVars, faults>>

\* Mutant: a failed publish is not reported.
AcksInstead(c) == request' = [request EXCEPT ![c] = "acked"] /\ UNCHANGED tries

\* A failed attempt is retried while the ladder lasts.
Retries(c) ==
    IF tries[c] < MaxRetries
    THEN tries' = [tries EXCEPT ![c] = @ + 1] /\ request' = [request EXCEPT ![c] = "queued"]
    ELSE request' = [request EXCEPT ![c] = "dead"] /\ UNCHANGED tries

Over(c) == handler' = [handler EXCEPT ![c] = "none"] /\ reran' = reran \cup {c}

\* Mutant: the response held back is forgotten when the handler fails.
FinishForgetsPending(c) == FALSE

\* A response is still held when the handler's error is to be sent.
FinishHasPending(c) == result[c] = "err" /\ pending[c] # Empty

\* finish: nothing for a cancelled stream; what is held, then the error, or
\* what is held as the final frame.
Finishes(c) ==
    /\ handler[c] = "finish"
    /\ \/ /\ c \in cancelled /\ handler' = [handler EXCEPT ![c] = "ack"]
          /\ UNCHANGED <<net, reran, pending, seq, finals, request, tries, faults>>
       \/ /\ c \in broken \ cancelled /\ Retries(c) /\ Over(c)
          /\ UNCHANGED <<net, pending, seq, finals, faults>>
       \/ /\ c \notin broken \cup cancelled /\ FinishHasPending(c)
          /\ \E out \in Outcomes :
                /\ Publishes(c, pending[c], FALSE, out)
                /\ pending' = [pending EXCEPT ![c] = Empty]
                /\ IF out = "ok" THEN UNCHANGED <<request, tries, handler, reran>>
                   ELSE Retries(c) /\ Over(c)
       \/ /\ c \notin broken \cup cancelled /\ ~FinishHasPending(c)
          /\ \E out \in Outcomes :
                /\ Publishes(c, IF result[c] = "err" THEN Failure ELSE pending[c], TRUE, out)
                /\ IF out = "ok"
                   THEN /\ handler' = [handler EXCEPT ![c] = "ack"]
                        /\ UNCHANGED <<request, tries, reran>>
                   ELSE Retries(c) /\ Over(c)
          /\ UNCHANGED pending
    /\ UNCHANGED <<plan, sent, broken, result, cancelled, queue, hand, clientVars, loopVars>>

\* The acknowledgement of a finished or cancelled stream.
Acks(c) ==
    /\ handler[c] = "ack" /\ Over(c)
    /\ request' = [request EXCEPT ![c] = "acked"]
    /\ UNCHANGED <<plan, tries, sent, pending, seq, broken, result, cancelled, finals, netVars,
                   clientVars, loopVars, faults>>

\* A panic: retried, and answered outside the stream once the ladder ends.
HandlerPanics(c) ==
    /\ handler[c] = "runs" /\ Over(c) /\ Fault
    /\ IF c \in cancelled THEN request' = [request EXCEPT ![c] = "acked"] /\ UNCHANGED tries
       ELSE Retries(c)
    /\ net' = IF c \notin cancelled /\ tries[c] = MaxRetries /\ c \in queue
              THEN [net EXCEPT ![c] = Append(@, [seq |-> -1, final |-> FALSE, body |-> Panic])]
              ELSE net
    /\ UNCHANGED <<plan, sent, pending, seq, broken, result, cancelled, finals, queue, hand,
                   clientVars, loopVars>>

\* The service loses its connection, or its ack, or dies: the request is
\* redelivered and the run can publish no more.
ServiceLost(c) ==
    /\ handler[c] # "none" /\ Over(c) /\ Fault
    /\ request' = [request EXCEPT ![c] = "queued"]
    /\ UNCHANGED <<plan, tries, sent, pending, seq, broken, result, cancelled, finals, netVars,
                   clientVars, loopVars>>

\* A cancel notice reaches the run that is registered, if there is one.
NoticeArrives(c) ==
    /\ notice[c] = "sent" /\ notice' = [notice EXCEPT ![c] = "gone"]
    /\ cancelled' = IF handler[c] # "none" THEN cancelled \cup {c} ELSE cancelled
    /\ UNCHANGED <<requestVars, handler, reran, sent, pending, seq, broken, result, finals, netVars,
                   clientVars, loop, ctxDone, yielded, verdict, faults>>

-----------------------------------------------------------------------------
\* The frames: the broker, the reply reader and clientStream.push.

FrameLost(c) ==
    /\ net[c] # <<>> /\ net' = [net EXCEPT ![c] = Tail(@)] /\ Fault
    /\ UNCHANGED <<requestVars, serverVars, queue, hand, clientVars, loopVars>>

\* route: the frame of a stream nobody waits for is dropped.
Routes(c) ==
    /\ hand = NoFrame /\ net[c] # <<>> /\ net' = [net EXCEPT ![c] = Tail(@)]
    /\ hand' = IF c \in streams THEN [call |-> c, frame |-> Head(net[c])] ELSE NoFrame
    /\ UNCHANGED <<requestVars, serverVars, queue, clientVars, loopVars, faults>>

Bytes(c) == Len(chunks[c]) * FrameBytes

\* Mutant: dropped chunks are not given back to the process-wide count.
DropsChunksOnly(c) == chunks' = [chunks EXCEPT ![c] = <<>>] /\ UNCHANGED total

Drops(c) == chunks' = [chunks EXCEPT ![c] = <<>>] /\ total' = total - Bytes(c)

Breaks(c, why) ==
    /\ err' = [err EXCEPT ![c] = why] /\ ended' = ended \cup {c} /\ Drops(c)

Overflows(c) ==
    \/ Len(chunks[c]) + 1 > MaxChunks
    \/ Bytes(c) + FrameBytes > MaxBytes
    \/ total + FrameBytes > MaxTotal

\* push: a repeated frame counts only for its final flag, a gap fails the stream.
Push(c, f) ==
    LET expected == lastSeq[c] + 1
    IN \/ c \in ended /\ UNCHANGED <<chunks, lastSeq, ended, err, total>>
       \/ /\ c \notin ended /\ f.seq # -1 /\ f.seq < expected
          /\ ended' = IF f.final THEN ended \cup {c} ELSE ended
          /\ UNCHANGED <<chunks, lastSeq, err, total>>
       \/ /\ c \notin ended /\ f.seq > expected
          /\ Breaks(c, "sequence") /\ UNCHANGED lastSeq
       \/ /\ c \notin ended /\ f.seq \in {-1, expected}
          /\ lastSeq' = IF f.seq = -1 THEN lastSeq ELSE [lastSeq EXCEPT ![c] = f.seq]
          /\ IF f.body # Empty /\ Overflows(c) THEN Breaks(c, "backpressure")
             ELSE /\ IF f.body = Empty THEN UNCHANGED <<chunks, total>>
                     ELSE /\ chunks' = [chunks EXCEPT ![c] = Append(@, f.body)]
                          /\ total' = total + FrameBytes
                  /\ ended' = IF f.final THEN ended \cup {c} ELSE ended
                  /\ UNCHANGED err

\* The reader hands the frame to its stream and wakes the caller's loop.
Pushes ==
    /\ hand # NoFrame /\ hand' = NoFrame
    /\ Push(hand.call, hand.frame) /\ notify' = notify \cup {hand.call}
    /\ UNCHANGED <<requestVars, serverVars, net, queue, streams, failing, loopVars, faults>>

\* The caller's connection is lost: its reply queue goes, and failPending
\* takes every stream out.
CallerLost ==
    /\ Fault /\ queue' = {c \in Calls : loop[c] = "idle"}
    /\ net' = [c \in Calls |-> IF loop[c] = "idle" THEN net[c] ELSE <<>>]
    /\ failing' = failing \cup streams /\ streams' = {}
    /\ UNCHANGED <<requestVars, serverVars, hand, chunks, lastSeq, ended, err, notify, total,
                   loopVars>>

\* Mutant: the caller's loop is not woken.
FailsSilently(c) ==
    /\ c \in failing /\ failing' = failing \ {c}
    /\ IF c \in ended THEN UNCHANGED <<chunks, ended, err, total>> ELSE Breaks(c, "disconnected")
    /\ UNCHANGED <<requestVars, serverVars, netVars, streams, lastSeq, notify, loopVars, faults>>

\* clientStream.fail: too late for a stream that has ended. The wake-up follows the
\* unlock; the loop finds the same stream whether it looks before it or after.
FailsPending(c) ==
    /\ c \in failing /\ failing' = failing \ {c} /\ notify' = notify \cup {c}
    /\ IF c \in ended THEN UNCHANGED <<chunks, ended, err, total>> ELSE Breaks(c, "disconnected")
    /\ UNCHANGED <<requestVars, serverVars, netVars, streams, lastSeq, loopVars, faults>>

-----------------------------------------------------------------------------
\* The caller: dispatcher.stream and publishStream.

\* The stream is registered before its request is published.
CallStarts(c) ==
    /\ loop[c] = "idle" /\ loop' = [loop EXCEPT ![c] = "publishing"]
    /\ streams' = streams \cup {c}
    /\ UNCHANGED <<requestVars, serverVars, netVars, failing, chunks, lastSeq, ended, err, notify,
                   total, ctxDone, notice, yielded, verdict, faults>>

RequestArrives(c) ==
    /\ loop[c] = "publishing" /\ request[c] = "none"
    /\ request' = [request EXCEPT ![c] = "queued"]
    /\ UNCHANGED <<plan, tries, serverVars, netVars, clientVars, loopVars, faults>>

\* cancelStream: best effort, so the notice may never arrive.
CancelStream(c) == notice' = [notice EXCEPT ![c] = "sent"]

Leaves(c, why, completed) ==
    /\ verdict' = [verdict EXCEPT ![c] = why]
    /\ loop' = [loop EXCEPT ![c] = "leaving"]
    /\ IF completed THEN UNCHANGED notice ELSE CancelStream(c)

\* The confirm arrives, or the publish fails though the request may be there.
PublishReturns(c) ==
    /\ loop[c] = "publishing"
    /\ \/ request[c] # "none" /\ loop' = [loop EXCEPT ![c] = "loop"]
          /\ UNCHANGED <<notice, verdict, faults>>
       \/ Leaves(c, "publish", TRUE) /\ (IF c \in ctxDone THEN UNCHANGED faults ELSE Fault)
    /\ UNCHANGED <<requestVars, serverVars, netVars, clientVars, ctxDone, yielded>>

Finished(c) == c \in ended /\ err[c] = "none"

\* next, and what the loop makes of it.
LoopTakes(c) ==
    /\ loop[c] = "loop"
    /\ \/ /\ err[c] # "none" /\ Leaves(c, err[c], err[c] = "disconnected")
          /\ UNCHANGED <<chunks, total, yielded>>
       \/ /\ err[c] = "none" /\ chunks[c] # <<>>
          /\ chunks' = [chunks EXCEPT ![c] = Tail(@)] /\ total' = total - FrameBytes
          /\ \/ c \in ctxDone /\ Leaves(c, "ctx", Finished(c)) /\ UNCHANGED yielded
             \/ /\ c \notin ctxDone /\ Head(chunks[c]) \in {Failure, Panic}
                /\ Leaves(c, IF Head(chunks[c]) = Failure THEN "remote" ELSE "panicked", FALSE)
                /\ UNCHANGED yielded
             \/ /\ c \notin ctxDone /\ Head(chunks[c]) \notin {Failure, Panic}
                /\ yielded' = [yielded EXCEPT ![c] = Append(@, Head(chunks[c]))]
                /\ loop' = [loop EXCEPT ![c] = "body"] /\ UNCHANGED <<verdict, notice>>
       \/ /\ Finished(c) /\ chunks[c] = <<>> /\ Leaves(c, "clean", TRUE)
          /\ UNCHANGED <<chunks, total, yielded>>
       \/ /\ c \notin ended /\ err[c] = "none" /\ chunks[c] = <<>>
          /\ loop' = [loop EXCEPT ![c] = "wait"]
          /\ UNCHANGED <<chunks, total, yielded, verdict, notice>>
    /\ UNCHANGED <<requestVars, serverVars, netVars, streams, failing, lastSeq, ended, err,
                   notify, ctxDone, faults>>

\* The caller's loop body asks for more or breaks out.
BodyEnds(c) ==
    /\ loop[c] = "body"
    /\ \/ loop' = [loop EXCEPT ![c] = "loop"] /\ UNCHANGED <<verdict, notice>>
       \/ Leaves(c, "broke", FALSE)
    /\ UNCHANGED <<requestVars, serverVars, netVars, clientVars, ctxDone, yielded, faults>>

LoopWakes(c) ==
    /\ loop[c] = "wait" /\ c \in notify /\ notify' = notify \ {c}
    /\ loop' = [loop EXCEPT ![c] = "loop"]
    /\ UNCHANGED <<requestVars, serverVars, netVars, streams, failing, chunks, lastSeq, ended,
                   err, total, ctxDone, notice, yielded, verdict, faults>>

\* The idle timer, or the caller's context.
LoopGivesUp(c) ==
    /\ loop[c] = "wait"
    /\ Leaves(c, "idle", FALSE) \/ (c \in ctxDone /\ Leaves(c, "ctx", Finished(c)))
    /\ UNCHANGED <<requestVars, serverVars, netVars, clientVars, ctxDone, yielded, faults>>

ContextEnds(c) ==
    /\ loop[c] \in {"publishing", "loop", "body", "wait"} /\ ctxDone' = ctxDone \cup {c}
    /\ UNCHANGED <<requestVars, serverVars, netVars, clientVars, loop, notice, yielded, verdict,
                   faults>>

\* release: no frame is buffered for a caller that has left.
Releases(c) ==
    /\ loop[c] = "leaving" /\ loop' = [loop EXCEPT ![c] = "over"]
    /\ streams' = streams \ {c} /\ ended' = ended \cup {c} /\ Drops(c)
    /\ err' = IF err[c] = "none" THEN [err EXCEPT ![c] = "released"] ELSE err
    /\ UNCHANGED <<requestVars, serverVars, netVars, failing, lastSeq, notify, ctxDone, notice,
                   yielded, verdict, faults>>

-----------------------------------------------------------------------------
ServiceNext(c) == HandlerStarts(c) \/ HandlerSends(c) \/ HandlerReturns(c) \/ Finishes(c) \/ Acks(c)
ReaderNext == Pushes \/ \E c \in Calls : Routes(c)
CallerNext(c) == PublishReturns(c) \/ LoopTakes(c) \/ BodyEnds(c) \/ LoopWakes(c) \/ Releases(c)

Next ==
    \/ ReaderNext \/ CallerLost
    \/ \E c \in Calls :
          \/ ServiceNext(c) \/ HandlerPanics(c) \/ ServiceLost(c) \/ NoticeArrives(c)
          \/ FrameLost(c) \/ FailsPending(c)
          \/ CallStarts(c) \/ RequestArrives(c) \/ CallerNext(c) \/ LoopGivesUp(c) \/ ContextEnds(c)

Spec == Init /\ [][Next]_vars

-----------------------------------------------------------------------------
\* The caller is given the handler's responses in order and once each, and a
\* clean end or the handler's error only after the last of them, across lost
\* and repeated frames, re-runs, full buffers and lost connections.
Promise == INSTANCE StreamPromise
           WITH plan <- plan, yielded <- yielded, verdict <- verdict
PromiseKept == Promise!Spec

\* A loop that ends normally has had everything from a handler that ended
\* normally (client.go:119-122, docs/streaming.md:117).
CleanMeansComplete ==
    \A c \in Calls : verdict[c] = "clean" => plan[c].ok /\ Len(yielded[c]) = plan[c].n

\* The chunks all streams hold: <<c, i>> for the i-th chunk of call c.
Held == {x \in Calls \X (1..MaxChunks) : x[2] <= Len(chunks[x[1]])}

\* The process-wide count is exactly what the streams hold; neither it nor what
\* one stream holds is ever above its limit; and a stream whose caller has left
\* holds nothing.
BufferAccounted ==
    /\ total = FrameBytes * Cardinality(Held) /\ total <= MaxTotal
    /\ \A c \in Calls :
          /\ Len(chunks[c]) <= MaxChunks /\ Bytes(c) <= MaxBytes
          /\ loop[c] = "over" => chunks[c] = <<>>

\* A request is not acknowledged before its stream's last frame is with the
\* broker, unless the caller cancelled it (stream.go:89-114).
FinalBeforeAck ==
    \A c \in Calls : request[c] = "acked" => c \in finals \cup cancelled

\* No wake-up is missed: a loop that waits while its stream has ended, or has
\* something to take, has a wake-up coming, so the idle timer is not what ends it.
WakeUpPending ==
    \A c \in Calls : loop[c] = "wait" /\ (c \in ended \/ chunks[c] # <<>>) => c \in notify

\* The buffer between reader and loop, in a state that is well typed.
BufferExact == TypeOK /\ BufferAccounted /\ WakeUpPending
=============================================================================
