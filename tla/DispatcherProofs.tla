------------------------- MODULE DispatcherProofs --------------------------
(***************************************************************************)
(* Proofs about the unary calls of Dispatcher, for any number of callers   *)
(* and of faults: the inductive invariant, the steps that happen around    *)
(* the calls (deaths, the supervisor, the closing of the bus, the reply    *)
(* reader and the recovery of its queue), the steps of failPending and of  *)
(* the calls themselves, and what the invariant says of them.              *)
(***************************************************************************)
EXTENDS Dispatcher, TLAPS

\* TypeOK, in two halves: the session and the channels, and the calls.
Chans ==
    /\ up \in BOOLEAN /\ ready \in BOOLEAN /\ done \in BOOLEAN /\ closed \in BOOLEAN
    /\ mu \in {"free", "sup", "recover"} \cup Callers
    /\ pub \in Nat /\ rq \in Nat /\ replyGen \in Nat /\ pubGen \in Nat
    /\ openPubs \subseteq Nat /\ live \subseteq Nat /\ ended \subseteq Nat /\ recs \subseteq Nat
    /\ answers \subseteq Callers \X Nat /\ faults \in 0..MaxFaults /\ scene \in Scenes

Outcomes == {"none", "reply", "disconnected", "closed"}
Places == {"idle", "channel", "read", "lock", "pub", "all", "register", "publish", "wait", "over"}

Calls ==
    /\ step \in [Tellers -> Steps]
    /\ taken \in [Tellers -> SUBSET (Callers \X Nat)] /\ old \in [Tellers -> Handed]
    /\ calls \in [Callers -> Nat] /\ outcome \in [Callers -> Outcomes]
    /\ pc \in [Callers -> Places] /\ attempt \in [Callers -> Nat] /\ got \in [Callers -> Handed]
    /\ stored \subseteq Callers \X Nat /\ missed \subseteq Callers
    /\ verdict \in [Callers -> Outcomes \cup {"timeout", "failed"}]

\* Where each goroutine that runs failPending can be, and who holds restoreMu.
Locks ==
    /\ step["sup"] \in {"off", "swap", "resolve", "clear", "dial", "restore", "announce"}
    /\ step["recover"] \in {"off", "swap", "resolve", "clear", "shut", "restore"}
    /\ step["close"] \in {"off", "begin", "swap", "resolve", "shut", "conn", "gone"}
    /\ mu = "sup" <=> step["sup"] = "restore"
    /\ mu = "recover" <=> step["recover"] # "off"
    /\ \A c \in Callers : pc[c] \in {"all", "pub"} => mu = c
    /\ (closed => done) /\ (step["close"] # "off" => done)
    /\ step["sup"] \in {"swap", "resolve", "clear", "dial"} => ~up

\* A reply queue that is consumed is the newest one, an ended one never comes
\* back, and whoever is to make another has seen the last one go.
Queues ==
    /\ live \subseteq {replyGen} /\ rq \in {0, replyGen} /\ (~up => live = {})
    /\ \A g \in ended \cup recs : g <= replyGen /\ g \notin live
    /\ step["sup"] = "restore" \/ step["recover"] # "off" => live = {}
    /\ \A c \in Callers : pc[c] = "all" => live = {}
    /\ ~closed /\ rq = 0 => live = {}
    /\ \A c \in Callers : got[c].rq <= replyGen

\* A call that still wants its reply is in the table, and what has been taken
\* out of it is of no later attempt and no longer there.
Table ==
    /\ TableCurrent /\ missed = {}
    /\ \A c \in Callers : /\ calls[c] # 0 => outcome[c] = "none"
                          /\ Wants(c) => calls[c] # 0
    /\ \A o \in Tellers :
          /\ step[o] # "resolve" => taken[o] = {}
          /\ \A x \in taken[o] : x[2] <= attempt[x[1]] /\ (x[2] = attempt[x[1]] => calls[x[1]] = 0)

\* What the broker has stored is of the attempt its call is at.
Storage == \A x \in stored : x[2] = attempt[x[1]] /\ pc[x[1]] \in {"publish", "wait", "over"}

\* A call told of a disconnection, or about to be, has lost its reply queue.
Truth ==
    \A c \in Callers :
        /\ outcome[c] = "disconnected" /\ pc[c] \in {"publish", "wait"} => got[c].rq \notin live
        /\ verdict[c] = "disconnected" => pc[c] = "over" /\ got[c].rq \notin live

IInv == Chans /\ Calls /\ Locks /\ Queues /\ Table /\ Storage /\ Truth

-----------------------------------------------------------------------------
USE DEF sessVars, dispVars, chanVars, tellVars, callVars, pcVars, msgVars, Tellers

\* newDispatcher, attached to its first connection, satisfies the invariant.
LEMMA InitIInv == Init => IInv
<1> SUFFICES ASSUME Init PROVE IInv
  BY Zenon
<1>1. Chans
  <2>1. 0 \in 0..MaxFaults
    BY DispatcherAssumption
  <2>2. faults \in 0..MaxFaults /\ scene \in Scenes
    BY <2>1, Zenon DEF Init
  <2>3. answers \subseteq Callers \X Nat
    BY Zenon DEF Init
  <2>4. openPubs \subseteq Nat /\ live \subseteq Nat /\ ended \subseteq Nat /\ recs \subseteq Nat
    BY DEF Init
  <2>5. /\ up \in BOOLEAN /\ ready \in BOOLEAN /\ done \in BOOLEAN /\ closed \in BOOLEAN
        /\ mu \in {"free", "sup", "recover"} \cup Callers
        /\ pub \in Nat /\ rq \in Nat /\ replyGen \in Nat /\ pubGen \in Nat
    BY Zenon DEF Init
  <2> QED
    BY <2>2, <2>3, <2>4, <2>5, Zenon DEF Chans
<1>2. None \in Handed
  BY Zenon DEF None, Handed
<1>3. Calls
  BY <1>2, Zenon DEF Init, Calls, Steps, Outcomes, Places
<1>4. Locks /\ Queues /\ Storage /\ Truth
  BY DEF Init, Locks, Queues, Storage, Truth, None
<1>5. Table
  BY Zenon DEF Init, Table, TableCurrent, Wants
<1> QED
  BY <1>1, <1>3, <1>4, <1>5, Zenon DEF IInv

\* A fault stays within its scene's budget.
LEMMA FaultTyped ==
    ASSUME Chans, Fault \/ UNCHANGED budget
    PROVE  faults' \in 0..MaxFaults /\ scene' \in Scenes
BY DispatcherAssumption DEF Chans, Fault, budget

\* A step of the session, the broker or a teller that moves no call.
Idle ==
    /\ UNCHANGED <<callVars, pcVars, stored, missed, taken>>
    /\ step' \in [Tellers -> Steps] /\ old' \in [Tellers -> Handed]
    /\ \A o \in Tellers : step'[o] # "resolve" => step[o] # "resolve" \/ taken[o] = {}
    /\ \A c \in Callers : got[c].rq \in live' => got[c].rq \in live

\* It leaves the table, what is stored and what is told as they were.
LEMMA IdleKeeps ==
    ASSUME IInv, Idle, Chans', Locks', Queues'
    PROVE  IInv'
<1>1. Calls'
  BY Zenon DEF IInv, Idle, Calls
<1>2. Table'
  BY DEF IInv, Idle, Table, TableCurrent, Wants, InHand
<1>3. Storage' /\ Truth'
  BY Zenon DEF IInv, Idle, Storage, Truth
<1> QED
  BY <1>1, <1>2, <1>3, Zenon DEF IInv

\* A call moves on after its publish, or out of the table: to look for another
\* channel if its request was never sent, or to return.
Moved(c) ==
    /\ pc' = [pc EXCEPT ![c] = pc'[c]] /\ pc'[c] \in Places \ {"publish"}
    /\ verdict' = [verdict EXCEPT ![c] = verdict'[c]]
    /\ verdict'[c] \in Outcomes \cup {"timeout", "failed"}
    /\ got' = [got EXCEPT ![c] = got'[c]] /\ got'[c] \in Handed
    /\ calls' = [calls EXCEPT ![c] = calls'[c]] /\ calls'[c] \in Nat
    /\ UNCHANGED <<outcome, attempt, missed, stored, step, taken, old>>
    /\ \A k \in Callers : got[k].rq \in live' => got[k].rq \in live
    /\ \/ /\ pc[c] = "publish" /\ pc'[c] = "wait" /\ calls'[c] = calls[c]
          /\ got'[c] = got[c] /\ verdict'[c] = verdict[c]
       \/ /\ pc'[c] # "wait" /\ calls'[c] = 0 /\ (Sent(c) => pc'[c] = "over")
          /\ verdict'[c] = "disconnected" => pc'[c] = "over" /\ got'[c].rq \notin live'

\* Whichever way it goes, the table, what is stored and what is told stay true.
LEMMA MoveKeeps ==
    ASSUME IInv, NEW c \in Callers, Moved(c)
    PROVE  Calls' /\ Table' /\ Storage' /\ Truth'
<1>1. Calls'
  BY DEF IInv, Moved, Calls
<1>2. \A k \in Callers \ {c} : /\ pc'[k] = pc[k] /\ verdict'[k] = verdict[k]
                               /\ got'[k] = got[k] /\ calls'[k] = calls[k]
  BY DEF IInv, Moved, Calls
<1>3. TableCurrent' /\ \A k \in Callers : calls'[k] # 0 => outcome'[k] = "none"
  BY <1>2 DEF IInv, Moved, Table, TableCurrent
<1>4. \A k \in Callers : Wants(k)' => Wants(k) /\ calls'[k] = calls[k]
  BY <1>2, Zenon DEF Moved, Wants, InHand
<1>5. \A o \in Tellers :
          /\ step'[o] # "resolve" => taken'[o] = {}
          /\ \A x \in taken'[o] : /\ x[2] <= attempt'[x[1]]
                                  /\ x[2] = attempt'[x[1]] => calls'[x[1]] = 0
  BY <1>2 DEF IInv, Moved, Calls, Table
<1>6. Table'
  BY <1>3, <1>4, <1>5 DEF IInv, Moved, Table
<1>7. Storage'
  BY <1>2 DEF IInv, Moved, Calls, Storage, Sent
<1>8. Truth'
  BY <1>2 DEF IInv, Moved, Truth
<1> QED
  BY <1>1, <1>6, <1>7, <1>8, Zenon

\* A call that changes nothing else, and is not handed restoreMu.
MovedAlone(c) ==
    /\ Moved(c) /\ (UNCHANGED budget \/ Fault)
    /\ UNCHANGED <<sessVars, dispVars, chanVars, answers>>
    /\ pc'[c] \notin {"all", "pub"} /\ got'[c].rq <= replyGen

\* Such a step keeps the invariant if what it says of this call is kept.
LEMMA MoveAlone ==
    ASSUME IInv, NEW c \in Callers, MovedAlone(c)
    PROVE  IInv'
<1>1. Calls' /\ Table' /\ Storage' /\ Truth'
  BY MoveKeeps, Zenon DEF MovedAlone
<1>2. faults' \in 0..MaxFaults /\ scene' \in Scenes
  BY FaultTyped, Zenon DEF IInv, MovedAlone
<1>3. Chans'
  BY <1>2, Zenon DEF IInv, Chans, MovedAlone
<1>4. Locks'
  BY DEF IInv, Calls, Moved, Locks, MovedAlone
<1>5. Queues'
  BY DEF IInv, Calls, Moved, Queues, MovedAlone
<1> QED
  BY <1>1, <1>3, <1>4, <1>5, Zenon DEF IInv

\* restoreTopology, run when the last reply queue is gone, leaves one consumer at
\* most, on a queue that nobody has been handed or has seen end.
Restored ==
    /\ replyGen' \in Nat /\ pubGen' \in Nat /\ pub' \in Nat /\ rq' \in Nat
    /\ openPubs' \subseteq Nat /\ live' \subseteq Nat /\ closed' = closed /\ up
    /\ live' \subseteq {replyGen'} /\ rq' \in {0, replyGen'}
    /\ ~closed' /\ rq' = 0 => live' = {}
    /\ \A g \in ended \cup recs : g <= replyGen' /\ g \notin live'
    /\ \A c \in Callers : got[c].rq <= replyGen' /\ got[c].rq \notin live'

\* So whoever runs it, under restoreMu, after that queue has gone.
LEMMA RestoresOneQueue ==
    ASSUME IInv, live = {}, NEW dead \in Nat, Restores(dead)
    PROVE  Restored
<1>1. /\ replyGen \in Nat /\ pubGen \in Nat /\ pub \in Nat /\ rq \in Nat
      /\ openPubs \subseteq Nat /\ live \subseteq Nat /\ rq \in {0, replyGen}
  BY Zenon DEF IInv, Chans, Queues
<1>2. openPubs' \subseteq openPubs \cup {pubGen + 1}
  BY Zenon DEF Restores
<1>3. openPubs' \subseteq Nat
  BY <1>1, <1>2
<1>4. /\ replyGen' \in Nat /\ pubGen' \in Nat /\ pub' \in Nat /\ rq' \in Nat
      /\ live' \subseteq Nat /\ closed' = closed /\ up
  BY <1>1 DEF Restores
<1>5. /\ live' \subseteq {replyGen'} /\ rq' \in {0, replyGen'}
      /\ replyGen <= replyGen' /\ \A g \in live' : g > replyGen
      /\ ~closed' /\ rq' = 0 => live' = {}
  BY <1>1 DEF Restores
<1>6. /\ \A g \in ended \cup recs : g \in Nat /\ g <= replyGen
      /\ \A c \in Callers : got[c].rq \in Nat /\ got[c].rq <= replyGen
  BY Zenon DEF IInv, Chans, Calls, Queues, Handed
<1>7. /\ \A g \in ended \cup recs : g <= replyGen' /\ g \notin live'
      /\ \A c \in Callers : got[c].rq <= replyGen' /\ got[c].rq \notin live'
  BY <1>1, <1>4, <1>5, <1>6
<1> QED
  BY <1>3, <1>4, <1>5, <1>7, Zenon DEF Restored

\* Connections, publishing channels and reply consumers die under the calls.
LEMMA DeathKeeps == ASSUME IInv, Deaths PROVE IInv'
<1>1. CASE ConnDies
  <2> USE <1>1 DEF ConnDies, Drops
  <2>1. faults' \in 0..MaxFaults /\ scene' \in Scenes
    BY FaultTyped, Zenon DEF IInv
  <2>2. Chans'
    BY <2>1, Zenon DEF IInv, Chans
  <2>3. Locks'
    BY Zenon DEF IInv, Calls, Locks
  <2>4. Queues'
    BY DEF IInv, Chans, Calls, Queues
  <2>5. Idle
    BY Zenon DEF IInv, Calls, Idle, Steps
  <2> QED
    BY <2>2, <2>3, <2>4, <2>5, IdleKeeps, Zenon
<1>2. CASE PubDies
  <2> USE <1>2 DEF PubDies
  <2>1. faults' \in 0..MaxFaults /\ scene' \in Scenes
    BY FaultTyped, Zenon DEF IInv
  <2>2. Chans'
    BY <2>1, Zenon DEF IInv, Chans
  <2>3. Locks'
    BY DEF IInv, Calls, Locks
  <2>4. Queues'
    BY Zenon DEF IInv, Chans, Calls, Queues
  <2>5. Idle
    BY Zenon DEF IInv, Calls, Idle, Steps
  <2> QED
    BY <2>2, <2>3, <2>4, <2>5, IdleKeeps, Zenon
<1>3. CASE ReplyConsumerDies
  <2> USE <1>3 DEF ReplyConsumerDies
  <2>1. faults' \in 0..MaxFaults /\ scene' \in Scenes
    BY FaultTyped, Zenon DEF IInv
  <2>2. Chans'
    BY <2>1, Zenon DEF IInv, Chans
  <2>3. Locks'
    BY Zenon DEF IInv, Calls, Locks
  <2>4. live' = {} /\ ended' = ended \cup live /\ live = {replyGen} /\ replyGen \in Nat
    BY Zenon DEF IInv, Chans, Queues
  <2>5. Queues'
    <3>1. UNCHANGED <<replyGen, recs, rq, up, step, pc, closed, got>>
      BY Zenon
    <3> HIDE <1>3
    <3>2. \A g \in ended' \cup recs' : g <= replyGen' /\ g \notin live'
      BY <2>4, <3>1 DEF IInv, Queues
    <3> QED
      BY <2>4, <3>1, <3>2, Zenon DEF IInv, Queues
  <2>6. Idle
    BY <2>4, Zenon DEF IInv, Calls, Idle, Steps
  <2> QED
    BY <2>2, <2>3, <2>5, <2>6, IdleKeeps, Zenon
<1> QED
  BY <1>1, <1>2, <1>3, Zenon DEF Deaths

\* The supervisor: lost, reconnect, restore, announce.
LEMMA SupKeeps == ASSUME IInv, Supervisor PROVE IInv'
<1>1. CASE SupNotices
  <2> USE <1>1 DEF SupNotices, Goes
  <2>1. Chans'
    BY Zenon DEF IInv, Chans, budget
  <2>2. Locks'
    BY DispatcherAssumption, Zenon DEF IInv, Calls, Locks
  <2>3. Queues'
    BY Zenon DEF IInv, Chans, Calls, Queues
  <2>4. Idle
    BY Zenon DEF IInv, Calls, Idle, Steps
  <2> QED
    BY <2>1, <2>2, <2>3, <2>4, IdleKeeps, Zenon
<1>2. CASE SupReconnects
  <2> USE <1>2 DEF SupReconnects, Goes
  <2>1. Chans'
    BY Zenon DEF IInv, Chans, budget
  <2>2. Locks'
    BY DispatcherAssumption, Zenon DEF IInv, Calls, Locks
  <2>3. Queues'
    BY Zenon DEF IInv, Chans, Calls, Locks, Queues
  <2>4. Idle
    BY Zenon DEF IInv, Calls, Idle, Steps
  <2> QED
    BY <2>1, <2>2, <2>3, <2>4, IdleKeeps, Zenon
<1>3. CASE SupRestores
  <2>1. live = {} /\ step["sup"] = "restore" /\ mu = "sup"
    BY <1>3, Zenon DEF SupRestores, IInv, Locks, Queues
  <2>2. CASE Restores(0) /\ Goes("sup", "announce") /\ UNCHANGED <<up, answers, ended, budget>>
    <3>1. Restored
      BY <2>1, <2>2, RestoresOneQueue, Zenon
    <3> USE <1>3, <2>1, <2>2 DEF SupRestores, Goes
    <3>2. Chans'
      BY <3>1, Zenon DEF IInv, Chans, Restored, budget
    <3>3. Locks'
      BY <3>1, DispatcherAssumption, Zenon DEF IInv, Calls, Locks, Restored
    <3>4. Queues'
      BY <3>1, DispatcherAssumption, Zenon DEF IInv, Calls, Locks, Queues, Restored
    <3>5. Idle
      BY <3>1, Zenon DEF IInv, Calls, Idle, Steps, Restored
    <3> QED
      BY <3>2, <3>3, <3>4, <3>5, IdleKeeps, Zenon
  <2>3. CASE FailsToRestore /\ Drops /\ Goes("sup", "dial")
    <3> USE <1>3, <2>1, <2>3 DEF SupRestores, FailsToRestore, Drops, Goes
    <3>1. faults' \in 0..MaxFaults /\ scene' \in Scenes
      BY FaultTyped, Zenon DEF IInv
    <3>2. Chans'
      BY <3>1, Zenon DEF IInv, Chans
    <3>3. Locks'
      BY DispatcherAssumption, Zenon DEF IInv, Calls, Locks
    <3>4. Queues'
      BY Zenon DEF IInv, Calls, Locks, Queues
    <3>5. Idle
      BY Zenon DEF IInv, Calls, Idle, Steps
    <3> QED
      BY <3>2, <3>3, <3>4, <3>5, IdleKeeps, Zenon
  <2> QED
    BY <1>3, <2>2, <2>3, Zenon DEF SupRestores
<1>4. CASE SupAnnounces
  <2>1. CASE /\ up /\ Goes("sup", "off") /\ ready' = (ready \/ ~done)
             /\ UNCHANGED <<up, openPubs, live, answers, ended, budget>>
    <3> USE <1>4, <2>1 DEF SupAnnounces, Goes
    <3>1. Chans'
      BY Zenon DEF IInv, Chans, budget
    <3>2. Locks'
      BY DispatcherAssumption, Zenon DEF IInv, Calls, Locks
    <3>3. Queues'
      BY Zenon DEF IInv, Calls, Queues
    <3>4. Idle
      BY Zenon DEF IInv, Calls, Idle, Steps
    <3> QED
      BY <3>1, <3>2, <3>3, <3>4, IdleKeeps, Zenon
  <2>2. CASE /\ IF up THEN Fault ELSE UNCHANGED budget
             /\ Drops /\ Goes("sup", "dial") /\ UNCHANGED ready
    <3>1. faults' \in 0..MaxFaults /\ scene' \in Scenes
      BY <2>2, FaultTyped, Zenon DEF IInv
    <3> USE <1>4, <2>2 DEF SupAnnounces, Goes, Drops
    <3>2. Chans'
      BY <3>1, Zenon DEF IInv, Chans
    <3>3. Locks'
      BY DispatcherAssumption, Zenon DEF IInv, Calls, Locks
    <3>4. Queues'
      BY DEF IInv, Chans, Calls, Queues
    <3>5. Idle
      BY Zenon DEF IInv, Calls, Idle, Steps
    <3> QED
      BY <3>2, <3>3, <3>4, <3>5, IdleKeeps, Zenon
  <2> QED
    BY <1>4, <2>1, <2>2, Zenon DEF SupAnnounces
<1> QED
  BY <1>1, <1>2, <1>3, <1>4, Zenon DEF Supervisor

\* Bus.Close, up to the closing of the connection.
LEMMA CloseKeeps == ASSUME IInv, CloseBegins \/ Closer PROVE IInv'
<1>1. CASE CloseBegins
  <2> USE <1>1 DEF CloseBegins, Goes
  <2>1. Chans'
    BY Zenon DEF IInv, Chans, budget
  <2>2. Locks'
    BY Zenon DEF IInv, Calls, Locks
  <2>3. Queues'
    BY Zenon DEF IInv, Chans, Calls, Queues
  <2>4. Idle
    BY Zenon DEF IInv, Calls, Idle, Steps
  <2> QED
    BY <2>1, <2>2, <2>3, <2>4, IdleKeeps, Zenon
<1>2. CASE CloseMarks
  <2> USE <1>2 DEF CloseMarks, Goes
  <2>1. Chans'
    BY Zenon DEF IInv, Chans, budget
  <2>2. Locks'
    BY Zenon DEF IInv, Calls, Locks
  <2>3. Queues'
    BY Zenon DEF IInv, Chans, Calls, Queues
  <2>4. Idle
    BY Zenon DEF IInv, Chans, Calls, Idle, Steps, Handed
  <2> QED
    BY <2>1, <2>2, <2>3, <2>4, IdleKeeps, Zenon
<1>3. CASE CloseConnection
  <2> USE <1>3 DEF CloseConnection, Drops, Goes
  <2>1. Chans'
    BY Zenon DEF IInv, Chans, budget
  <2>2. Locks'
    BY Zenon DEF IInv, Calls, Locks
  <2>3. Queues'
    BY DEF IInv, Chans, Calls, Queues
  <2>4. Idle
    BY Zenon DEF IInv, Calls, Idle, Steps
  <2> QED
    BY <2>1, <2>2, <2>3, <2>4, IdleKeeps, Zenon
<1> QED
  BY <1>1, <1>2, <1>3, Zenon DEF Closer

\* The reply reader: the end of a consumer, and route.
LEMMA ReaderKeeps == ASSUME IInv, Reader PROVE IInv'
<1>1. ASSUME NEW g \in ended, ReceiveEnds(g) PROVE IInv'
  <2> USE <1>1 DEF ReceiveEnds
  <2>1. Chans'
    BY Zenon DEF IInv, Chans, budget
  <2>2. Locks'
    BY DEF IInv, Calls, Locks
  <2>3. Queues'
    BY Zenon DEF IInv, Chans, Calls, Queues
  <2>4. Idle
    BY Zenon DEF IInv, Calls, Idle, Steps
  <2> QED
    BY <2>1, <2>2, <2>3, <2>4, IdleKeeps, Zenon
<1>2. ASSUME NEW c \in Callers, NEW g \in Nat, Route(c, g) PROVE IInv'
  <2> USE <1>2 DEF Route
  <2>1. missed' = {}
    BY Zenon DEF IInv, Table
  <2>2. Chans'
    BY Zenon DEF IInv, Chans, budget
  <2>3. Locks' /\ Queues'
    BY DEF IInv, Locks, Queues
  <2>4. CASE calls[c] = 0
    <3>1. UNCHANGED <<callVars, missed>>
      BY <2>1, <2>4, Zenon DEF IInv, Table
    <3>2. Idle
      BY <3>1, Zenon DEF IInv, Calls, Idle, Steps
    <3> QED
      BY <2>2, <2>3, <3>2, IdleKeeps, Zenon
  <2>5. CASE calls[c] # 0
    <3>1. calls' = [calls EXCEPT ![c] = 0] /\ outcome' = [outcome EXCEPT ![c] = "reply"]
      BY <2>5, Zenon DEF Resolves, IInv, Table, TableCurrent
    <3>2. Calls'
      BY <2>1, <3>1, Zenon DEF IInv, Calls, Outcomes
    <3>3. Table'
      BY <2>1, <3>1 DEF IInv, Calls, Table, TableCurrent, Wants, InHand
    <3>4. Storage' /\ Truth'
      BY <3>1, Zenon DEF IInv, Calls, Storage, Truth
    <3> QED
      BY <2>2, <2>3, <3>2, <3>3, <3>4, Zenon DEF IInv
  <2> QED
    BY <2>4, <2>5, Zenon
<1> QED
  BY <1>1, <1>2, Zenon DEF Reader, IInv, Chans

\* tryRecoverReplies.
LEMMA RecoverKeeps ==
    ASSUME IInv, RecoverRestores \/ \E g \in recs : RecoverLocks(g)
    PROVE  IInv'
<1>1. ASSUME NEW g \in recs, RecoverLocks(g) PROVE IInv'
  <2> USE <1>1 DEF RecoverLocks, Goes
  <2>1. CASE recs' = recs \ {g} /\ UNCHANGED <<mu, step, old>>
    <3>1. Chans' /\ Locks' /\ Queues'
      BY <2>1 DEF IInv, Chans, Locks, Queues, budget
    <3>2. Idle
      BY <2>1, Zenon DEF IInv, Calls, Idle
    <3> QED
      BY <3>1, <3>2, IdleKeeps, Zenon
  <2>2. CASE ~(closed \/ replyGen # g \/ ~IsReady)
    <3>1. live = {}
      BY <2>2 DEF IInv, Queues
    <3>2. Chans'
      BY <2>2, Zenon DEF IInv, Chans, budget
    <3>3. Locks'
      BY <2>2, DispatcherAssumption DEF IInv, Calls, Locks
    <3>4. Queues'
      BY <2>2, <3>1, Zenon DEF IInv, Queues
    <3>5. Idle
      <4>1. step["recover"] = "off" /\ taken["recover"] = {}
        BY <2>2, Zenon DEF IInv, Locks, Table
      <4> QED
        BY <2>2, <4>1 DEF IInv, Chans, Calls, Idle, Steps, Handed
    <3> QED
      BY <3>2, <3>3, <3>4, <3>5, IdleKeeps, Zenon
  <2> QED
    BY <2>1, <2>2, Zenon
<1>2. CASE RecoverRestores
  <2>1. live = {} /\ step["recover"] = "restore" /\ mu = "recover"
    BY <1>2, Zenon DEF RecoverRestores, IInv, Locks, Queues
  <2>2. CASE Restores(0) /\ recs' = recs \ {replyGen} /\ UNCHANGED budget
    <3>1. Restored
      BY <2>1, <2>2, RestoresOneQueue, Zenon
    <3> USE <1>2, <2>1, <2>2 DEF RecoverRestores, Goes
    <3>2. Chans'
      BY <3>1, Zenon DEF IInv, Chans, Restored, budget
    <3>3. Locks'
      BY <3>1, DispatcherAssumption, Zenon DEF IInv, Calls, Locks, Restored
    <3>4. Queues'
      BY <3>1, DispatcherAssumption, Zenon DEF IInv, Calls, Locks, Queues, Restored
    <3>5. Idle
      BY <3>1, Zenon DEF IInv, Calls, Idle, Steps, Restored
    <3> QED
      BY <3>2, <3>3, <3>4, <3>5, IdleKeeps, Zenon
  <2>3. CASE FailsToRestore /\ UNCHANGED <<openPubs, live>> /\ recs' \subseteq recs
    <3> USE <1>2, <2>1, <2>3 DEF RecoverRestores, Goes, FailsToRestore
    <3>1. faults' \in 0..MaxFaults /\ scene' \in Scenes
      BY FaultTyped, Zenon DEF IInv
    <3>2. Chans'
      BY <3>1, Zenon DEF IInv, Chans
    <3>3. Locks'
      BY DispatcherAssumption, Zenon DEF IInv, Calls, Locks
    <3>4. Queues'
      BY Zenon DEF IInv, Calls, Queues
    <3>5. Idle
      BY Zenon DEF IInv, Calls, Idle, Steps
    <3> QED
      BY <3>2, <3>3, <3>4, <3>5, IdleKeeps, Zenon
  <2> QED
    BY <1>2, <2>2, <2>3, Zenon DEF RecoverRestores
<1> QED
  BY <1>1, <1>2, Zenon

\* failPending, connectionLost and the closing of the channels.
LEMMA TellerKeeps == ASSUME IInv, NEW o \in Tellers, Teller(o) PROVE IInv'
<1>1. CASE Swaps(o)
  <2> USE <1>1 DEF Swaps, Goes
  <2>1. Chans'
    BY Zenon DEF IInv, Chans, budget
  <2>2. Calls'
    BY DEF IInv, Calls, Steps
  <2>3. Locks'
    BY Zenon DEF IInv, Calls, Locks
  <2>4. Queues' /\ Storage' /\ Truth'
    BY Zenon DEF IInv, Calls, Queues, Storage, Truth
  <2>5. TableCurrent' /\ missed' = {} /\ \A c \in Callers : calls'[c] = 0
    BY Zenon DEF IInv, Calls, Table, TableCurrent
  <2>6. \A c \in Callers : ~Wants(c)'
    <3>1. \A c \in Callers : pc[c] \in {"publish", "wait"} /\ outcome[c] = "none" =>
             InHand(c) \/ (calls[c] # 0 /\ calls[c] = attempt[c])
      BY Zenon DEF IInv, Table, TableCurrent, Wants
    <3>2. \A c \in Callers : calls[c] # 0 => <<c, calls[c]>> \in taken'[o]
      BY Zenon DEF IInv, Calls
    <3>3. \A c \in Callers : InHand(c) => InHand(c)'
      BY Zenon DEF IInv, Calls, Table, InHand
    <3> QED
      BY <3>1, <3>2, <3>3, Zenon DEF Wants, InHand
  <2>7. Table'
    BY <2>5, <2>6 DEF IInv, Calls, Table, TableCurrent
  <2> QED
    BY <2>1, <2>2, <2>3, <2>4, <2>7, Zenon DEF IInv
<1>2. CASE ResolvesTaken(o)
  <2> USE <1>2 DEF ResolvesTaken, Resolves
  <2>1. Chans'
    BY Zenon DEF IInv, Chans, budget
  <2>2. Calls'
    BY DEF IInv, Calls, Outcomes
  <2>3. Locks'
    BY DEF IInv, Calls, Locks
  <2>4. Queues' /\ Storage'
    BY Zenon DEF IInv, Queues, Storage
  <2>5. Table'
    BY DEF IInv, Calls, Table, TableCurrent, Wants, InHand
  <2>6. Truth'
    <3>1. CASE o = "close"
      BY <3>1 DEF IInv, Calls, Truth
    <3>2. CASE o # "close"
      <4>1. live = {}
        BY <3>2, Zenon DEF IInv, Locks, Queues
      <4> QED
        BY <4>1, Zenon DEF IInv, Calls, Truth
    <3> QED
      BY <3>1, <3>2, Zenon
  <2> QED
    BY <2>1, <2>2, <2>3, <2>4, <2>5, <2>6, Zenon DEF IInv
<1>3. CASE ResolvedAll(o)
  <2> USE <1>3 DEF ResolvedAll, Goes
  <2>1. Chans'
    BY Zenon DEF IInv, Chans, budget
  <2>2. Locks'
    BY Zenon DEF IInv, Calls, Locks
  <2>3. Queues'
    BY Zenon DEF IInv, Chans, Calls, Queues
  <2>4. Idle
    BY Zenon DEF IInv, Calls, Idle, Steps
  <2> QED
    BY <2>1, <2>2, <2>3, <2>4, IdleKeeps, Zenon
<1>4. CASE Clears(o)
  <2> USE <1>4 DEF Clears, Goes
  <2>1. Chans'
    BY Zenon DEF IInv, Chans, budget
  <2>2. Locks'
    BY Zenon DEF IInv, Calls, Locks
  <2>3. Queues'
    BY Zenon DEF IInv, Calls, Locks, Queues
  <2>4. Idle
    BY Zenon DEF IInv, Calls, Idle, Steps
  <2> QED
    BY <2>1, <2>2, <2>3, <2>4, IdleKeeps, Zenon
<1>5. CASE Shuts(o)
  <2> USE <1>5 DEF Shuts, Goes
  <2>1. Chans'
    BY Zenon DEF IInv, Chans, budget
  <2>2. Locks'
    BY Zenon DEF IInv, Calls, Locks
  <2>3. Queues'
    <3>1. \A g \in ended' : g <= replyGen /\ g \notin live'
      BY DEF IInv, Chans, Calls, Queues
    <3>2. /\ step'["sup"] = "restore" => step["sup"] = "restore"
          /\ step'["recover"] # "off" => step["recover"] # "off"
      BY Zenon DEF IInv, Calls
    <3> QED
      BY <3>1, <3>2, Zenon DEF IInv, Queues
  <2>4. Idle
    BY Zenon DEF IInv, Calls, Idle, Steps
  <2> QED
    BY <2>1, <2>2, <2>3, <2>4, IdleKeeps, Zenon
<1> QED
  BY <1>1, <1>2, <1>3, <1>4, <1>5, Zenon DEF Teller

\* A call on its way to a channel and a reply queue.
LEMMA ChannelKeeps ==
    ASSUME IInv, NEW c \in Callers,
           CallStarts(c) \/ WhenReady(c) \/ Channel(c) \/ RepairLocks(c) \/ RepairsAll(c)
              \/ RepairsPub(c)
    PROVE  IInv'
<1> USE DEF Goto, Returns
<1>0. pc[c] \notin {"publish", "wait", "over"} =>
         calls[c] = 0 /\ ~Sent(c) /\ verdict[c] # "disconnected"
  BY DEF IInv, Calls, Table, TableCurrent, Storage, Sent, Truth
<1>1. CASE CallStarts(c)
  <2>1. MovedAlone(c)
    BY <1>0, <1>1, Zenon DEF CallStarts, IInv, MovedAlone, Moved, Handed, Places, Outcomes,
       Chans,
       Calls, Queues
  <2> QED
    BY <2>1, MoveAlone, Zenon
<1>2. CASE WhenReady(c)
  <2>1. CASE done
    <3>1. MovedAlone(c)
      BY <1>0, <1>2, <2>1 DEF WhenReady, IInv, MovedAlone, Moved, Handed, Places, Outcomes,
         Calls, Queues
    <3> QED
      BY <3>1, MoveAlone, Zenon
  <2>2. CASE ~done
    <3>1. MovedAlone(c)
      BY <1>0, <1>2, <2>2, Zenon DEF WhenReady, IInv, MovedAlone, Moved, Handed, Places,
         Outcomes,
         Calls, Queues
    <3> QED
      BY <3>1, MoveAlone, Zenon
  <2> QED
    BY <2>1, <2>2, Zenon
<1>3. CASE Channel(c)
  <2>1. MovedAlone(c)
    BY <1>0, <1>3 DEF Channel, IInv, MovedAlone, Moved, Handed, Places, Outcomes, Chans,
       Calls, Queues
  <2> QED
    BY <2>1, MoveAlone, Zenon
<1>4. CASE RepairLocks(c)
  <2> USE <1>4 DEF RepairLocks
  <2>1. Moved(c)
    BY <1>0 DEF IInv, Moved, Handed, Places, Outcomes, Chans, Calls
  <2>2. Chans'
    BY Zenon DEF IInv, Chans, budget
  <2>3. Locks'
    BY DispatcherAssumption DEF IInv, Calls, Locks
  <2>4. Queues'
    BY DEF IInv, Chans, Calls, Locks, Queues, IsReady
  <2> QED
    BY <2>1, <2>2, <2>3, <2>4, MoveKeeps, Zenon DEF IInv
<1>5. CASE RepairsAll(c)
  <2>1. live = {} /\ mu = c /\ got[c].pub \in Nat
    BY <1>5, Zenon DEF RepairsAll, IInv, Calls, Handed, Queues, Locks
  <2>2. CASE Restores(got[c].pub) /\ Goto(c, "channel") /\ UNCHANGED <<verdict, budget>>
    <3>1. Restored
      BY <2>1, <2>2, RestoresOneQueue, Zenon
    <3> USE <1>5, <2>1, <2>2 DEF RepairsAll
    <3>2. Moved(c)
      BY <1>0, <3>1, Zenon DEF IInv, Moved, Handed, Places, Outcomes, Calls, Restored
    <3>3. Chans'
      BY <3>1, Zenon DEF IInv, Chans, Restored, budget
    <3>4. Locks'
      BY <3>1, DispatcherAssumption, Zenon DEF IInv, Calls, Locks, Restored
    <3>5. Queues'
      BY <3>1, DispatcherAssumption, Zenon DEF IInv, Calls, Locks, Queues, Restored
    <3> QED
      BY <3>2, <3>3, <3>4, <3>5, MoveKeeps, Zenon DEF IInv
  <2>3. CASE /\ RepairFails(c) /\ openPubs' = openPubs \ {got[c].pub}
             /\ UNCHANGED <<dispVars, pubGen, live>>
    <3> USE <1>5, <2>1, <2>3 DEF RepairsAll, RepairFails
    <3>1. faults' \in 0..MaxFaults /\ scene' \in Scenes
      BY FaultTyped, Zenon DEF IInv
    <3>2. Moved(c)
      BY <1>0 DEF IInv, Moved, Handed, Places, Outcomes, Calls
    <3>3. Chans'
      BY <3>1, Zenon DEF IInv, Chans
    <3>4. Locks'
      BY DispatcherAssumption DEF IInv, Calls, Locks
    <3>5. Queues'
      BY Zenon DEF IInv, Calls, Queues
    <3> QED
      BY <3>2, <3>3, <3>4, <3>5, MoveKeeps, Zenon DEF IInv
  <2> QED
    BY <1>5, <2>2, <2>3, Zenon DEF RepairsAll
<1>6. CASE RepairsPub(c)
  <2> USE <1>6 DEF RepairsPub, RepairFails
  <2>1. faults' \in 0..MaxFaults /\ scene' \in Scenes
    BY FaultTyped, Zenon DEF IInv
  <2>2. Chans'
    <3>1. pubGen' \in Nat /\ pub' \in Nat
      BY DEF IInv, Chans
    <3>2. openPubs' \subseteq openPubs \cup {pubGen + 1}
      BY Zenon
    <3>3. openPubs' \subseteq Nat
      BY <3>2 DEF IInv, Chans
    <3> QED
      BY <2>1, <3>1, <3>3, Zenon DEF IInv, Chans
  <2>3. Moved(c)
    BY <1>0 DEF IInv, Moved, Handed, Places, Outcomes, Calls
  <2>4. Locks'
    BY DispatcherAssumption DEF IInv, Calls, Locks
  <2>5. Queues'
    BY Zenon DEF IInv, Calls, Queues
  <2> QED
    BY <2>2, <2>3, <2>4, <2>5, MoveKeeps, Zenon DEF IInv
<1> QED
  BY <1>1, <1>2, <1>3, <1>4, <1>5, <1>6, Zenon

\* register, publish, wait.
LEMMA PublishKeeps ==
    ASSUME IInv, NEW c \in Callers,
           Register(c) \/ RequestStored(c) \/ ServiceAnswers(c) \/ PublishConfirmed(c)
              \/ PublishGone(c) \/ PublishFails(c) \/ CallReturns(c) \/ TimesOut(c)
    PROVE  IInv'
<1> USE DEF Goto, Returns
<1>0. /\ pc[c] \in {"publish", "wait"} => verdict[c] # "disconnected"
      /\ calls[c] # 0 =>
            calls[c] = attempt[c] /\ outcome[c] = "none" /\ pc[c] \in {"publish", "wait"}
      /\ outcome[c] = "disconnected" /\ pc[c] \in {"publish", "wait"} => got[c].rq \notin live
  BY Zenon DEF IInv, Calls, Table, TableCurrent, Truth
<1>1. CASE Register(c)
  <2> USE <1>1 DEF Register, Registers
  <2>1. Chans'
    BY Zenon DEF IInv, Chans, budget
  <2>2. Calls'
    BY DEF IInv, Calls, Outcomes, Places
  <2>3. Locks'
    BY DEF IInv, Calls, Locks
  <2>4. Queues'
    BY Zenon DEF IInv, Chans, Calls, Queues
  <2>5. Storage' /\ Truth'
    BY Zenon DEF IInv, Calls, Storage, Truth
  <2>6. TableCurrent' /\ \A k \in Callers : calls'[k] # 0 => outcome'[k] = "none"
    BY DEF IInv, Calls, Table, TableCurrent
  <2>7. \A k \in Callers : Wants(k)' => calls'[k] # 0
    BY DEF IInv, Calls, Table, Wants, InHand
  <2>8. Table'
    BY <2>6, <2>7 DEF IInv, Calls, Table
  <2> QED
    BY <2>1, <2>2, <2>3, <2>4, <2>5, <2>8, Zenon DEF IInv
<1>2. CASE RequestStored(c)
  <2> USE <1>2 DEF RequestStored
  <2>1. Chans'
    BY Zenon DEF IInv, Chans, budget
  <2>2. Calls'
    BY DEF IInv, Calls
  <2>3. Locks'
    BY DEF IInv, Calls, Locks
  <2>4. Queues'
    BY Zenon DEF IInv, Chans, Calls, Queues
  <2>5. Storage' /\ Truth'
    BY DEF IInv, Calls, Storage, Truth
  <2>6. Table'
    BY Zenon DEF IInv, Table, TableCurrent, Wants, InHand
  <2> QED
    BY <2>1, <2>2, <2>3, <2>4, <2>5, <2>6, Zenon DEF IInv
<1>3. CASE ServiceAnswers(c)
  <2> USE <1>3 DEF ServiceAnswers
  <2>1. Chans'
    <3>1. got[c].rq \in Nat
      BY Zenon DEF IInv, Chans
    <3>2. answers' \subseteq Callers \X Nat
      BY <3>1 DEF IInv, Chans
    <3> QED
      BY <3>2, Zenon DEF IInv, Chans, budget
  <2>2. Locks'
    BY DEF IInv, Locks
  <2>3. Queues'
    BY Zenon DEF IInv, Queues
  <2>4. Idle
    BY Zenon DEF IInv, Calls, Idle, Steps
  <2> QED
    BY <2>1, <2>2, <2>3, <2>4, IdleKeeps, Zenon
<1>4. CASE PublishConfirmed(c)
  <2>1. MovedAlone(c)
    BY <1>0, <1>4, Zenon DEF PublishConfirmed, IInv, MovedAlone, Moved, Handed, Places,
       Outcomes,
       Chans, Calls, Queues
  <2> QED
    BY <2>1, MoveAlone, Zenon
<1>5. CASE PublishGone(c)
  <2>1. MovedAlone(c)
    BY <1>0, <1>5 DEF PublishGone, Forget, IInv, MovedAlone, Moved, Handed, Places, Outcomes,
       Chans, Calls, Queues
  <2> QED
    BY <2>1, MoveAlone, Zenon
<1>6. CASE PublishFails(c)
  <2>1. MovedAlone(c)
    BY <1>0, <1>6 DEF PublishFails, Forget, IInv, MovedAlone, Moved, Handed, Places, Outcomes,
       Chans, Calls, Queues
  <2> QED
    BY <2>1, MoveAlone, Zenon
<1>7. CASE CallReturns(c)
  <2>1. MovedAlone(c)
    BY <1>0, <1>7, Zenon DEF CallReturns, IInv, MovedAlone, Moved, Handed, Places, Outcomes,
       Chans,
       Calls, Queues
  <2> QED
    BY <2>1, MoveAlone, Zenon
<1>8. CASE TimesOut(c)
  <2>1. MovedAlone(c)
    BY <1>0, <1>8 DEF TimesOut, Forget, IInv, MovedAlone, Moved, Handed, Places, Outcomes,
       Chans, Calls, Queues
  <2> QED
    BY <2>1, MoveAlone, Zenon
<1> QED
  BY <1>1, <1>2, <1>3, <1>4, <1>5, <1>6, <1>7, <1>8, Zenon

-----------------------------------------------------------------------------
\* Every step of a caller, a teller, the reader, the supervisor, the closing bus
\* or the broker preserves the invariant.
LEMMA NextIInv == ASSUME IInv, [Next]_vars PROVE IInv'
<1>1. CASE UNCHANGED vars
  <2> USE <1>1 DEF vars, budget
  <2>1. Chans'
    BY Zenon DEF IInv, Chans
  <2>2. Locks'
    BY Zenon DEF IInv, Locks
  <2>3. Queues'
    BY Zenon DEF IInv, Queues
  <2>4. Idle
    BY Zenon DEF IInv, Calls, Idle
  <2> QED
    BY <2>1, <2>2, <2>3, <2>4, IdleKeeps, Zenon
<1>2. CASE Next
  BY <1>2, DeathKeeps, SupKeeps, CloseKeeps, TellerKeeps, ReaderKeeps, RecoverKeeps,
     ChannelKeeps,
     PublishKeeps, Zenon
     DEF Next, Caller
<1> QED
  BY <1>1, <1>2, Zenon

\* The invariant holds of every behaviour.
LEMMA Invariance == Spec => []IInv
BY InitIInv, NextIInv, PTL DEF Spec

\* Whatever dies under a call, and however often it goes round its loop, the
\* broker stores at most one request for it: call publishes again only what was
\* never sent.
THEOREM SentAtMostOnce == Spec => []SentOnce
<1>1. IInv => SentOnce
  BY DEF IInv, Calls, Storage, SentOnce
<1> QED
  BY <1>1, Invariance, PTL

\* However many calls, tellers and replies meet in the table, it holds the current
\* attempt of calls in progress and nothing else, and a reply that is still wanted
\* finds its call there.
THEOREM TableIsExact == Spec => []TableExact
<1>1. IInv => TypeOK
  BY Zenon DEF IInv, TypeOK, Chans, Calls, Outcomes, Places
<1>2. IInv => RepliesFindTheirCall /\ TableCurrent
  BY Zenon DEF IInv, Table, RepliesFindTheirCall
<1> QED
  BY <1>1, <1>2, Invariance, PTL DEF TableExact

\* ErrDisconnected is only ever told to a call whose own reply queue is gone.
THEOREM DisconnectionsTrue == Spec => []DisconnectedIsTrue
<1>1. IInv => DisconnectedIsTrue
  BY Zenon DEF IInv, Truth, DisconnectedIsTrue
<1> QED
  BY <1>1, Invariance, PTL

\* Restores, repairs and recoveries take turns under restoreMu: there are never
\* two live reply consumers.
THEOREM SingleReplyConsumer == Spec => []OneReplyConsumer
<1>1. IInv => OneReplyConsumer
  BY Zenon DEF IInv, Queues, OneReplyConsumer
<1> QED
  BY <1>1, Invariance, PTL
=============================================================================
