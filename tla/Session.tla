------------------------------ MODULE Session ------------------------------
(***************************************************************************)
(* The connection and what lives on it: the supervisor that reconnects and *)
(* restores (session.go), components being attached and the bus closing    *)
(* (bus.go), and consumers whose channel dies while the connection lives   *)
(* (consumer.go, dispatcher.go). The order in which components are         *)
(* restored is left open.                                                  *)
(***************************************************************************)
EXTENDS Naturals

CONSTANTS
    Comp,            \* the components: consumers and the dispatcher
    MaxGen,          \* bound: connections made
    MaxFaults,       \* bound: deaths and failures
    Scenes           \* the combinations of the choices below that are explored

ASSUME SessionAssumption ==
    /\ MaxGen \in Nat \ {0} /\ MaxFaults \in Nat
    /\ Scenes \subseteq [comps : SUBSET Comp,      \* those that may be started
                         repliers : SUBSET Comp,   \* the dispatchers among them
                         retries : Nat,            \* Reconnect.MaxRetries; 0 is without limit
                         faults : 0..MaxFaults,
                         early : BOOLEAN,          \* a channel may die before readiness is
                                                   \* announced
                         partial : BOOLEAN]        \* a rebuild may fail after installing its
                                                   \* channel

Gens == 1..MaxGen

VARIABLES
    scene,    \* the scene being played
    conn,     \* each connection ever dialled
    gen,      \* session.gen; session.conn is connection gen
    ready,    \* session.isReady
    done,     \* session.doneErr
    ctxDone,  \* session.ctx is cancelled
    sup,      \* the supervisor goroutine
    attempt,  \* the reconnection attempt it is at
    comps,    \* session.comps: the registered components
    todo,     \* those runRestorers has yet to restore
    job,      \* the restoreTopology in progress, by the holder of restoreMu
    att,      \* each component's attach call
    closers,  \* Bus.closers
    bus,      \* Bus.Close; b.closed is set on leaving "open"
    chan,     \* each component's channel: open, consuming, or dead
    chanGen,  \* the connection that channel is on
    ver,      \* the identity of that channel (c.ch, d.replyGen)
    wanted,   \* the components with c.consuming set
    gone,     \* the closed components
    ending,   \* consume loops that have ended and not yet decided
    recov,    \* recover goroutines, by component and dead channel
    faults

repliers   == scene.repliers   \* they install their channel last
MaxRetries == scene.retries

sessVars == <<scene, conn, gen, ready, done, ctxDone, faults>>
supVars  == <<sup, attempt, todo>>
busVars  == <<comps, att, closers, bus>>
chanVars == <<chan, chanGen, ver, wanted, gone, ending, recov>>
vars == <<sessVars, supVars, busVars, chanVars, job>>

NoJob == [who |-> "none"]
Jobs == [who : {"sup", "attach", "recover"}, c : Comp, g : Gens, v : Nat,
         step : {"open", "opened", "installed", "ok", "failed"}]

TypeOK ==
    /\ scene \in Scenes
    /\ conn \in [Gens -> {"none", "open", "closed"}]
    /\ gen \in Gens
    /\ ready \in BOOLEAN /\ ctxDone \in BOOLEAN
    /\ done \in {"no", "ErrClosed", "gaveUp"}
    /\ sup \in {"watch", "lost", "backoff", "dialled", "restore", "failed", "check",
                "announce", "exit"}
    /\ attempt \in Nat
    /\ comps \subseteq Comp /\ todo \subseteq Comp /\ closers \subseteq Comp
    /\ job \in Jobs \cup {NoJob}
    /\ att \in [Comp -> {"idle", "wait", "lock", "restore", "register", "ok", "err"}]
    /\ bus \in {"open", "finish", "closers", "cancel", "conn", "wait", "closed"}
    /\ chan \in [Comp -> {"none", "idle", "live", "dead"}]
    /\ chanGen \in [Comp -> 0..MaxGen]
    /\ ver \in [Comp -> Nat]
    /\ wanted \subseteq Comp /\ gone \subseteq Comp
    /\ ending \subseteq Comp \X Nat /\ recov \subseteq Comp \X Nat
    /\ faults \in 0..MaxFaults
    /\ \A c \in Comp : att[c] \in {"restore", "register"} =>
           job # NoJob /\ job.who = "attach" /\ job.c = c

\* connect has made the first connection and started the supervisor.
Init ==
    /\ conn = [g \in Gens |-> IF g = 1 THEN "open" ELSE "none"]
    /\ scene \in Scenes
    /\ gen = 1 /\ ready = TRUE /\ done = "no" /\ ctxDone = FALSE /\ faults = 0
    /\ sup = "watch" /\ attempt = 0 /\ todo = {}
    /\ comps = {} /\ closers = {} /\ bus = "open"
    /\ att = [c \in Comp |-> "idle"]
    /\ chan = [c \in Comp |-> "none"] /\ chanGen = [c \in Comp |-> 0]
    /\ ver = [c \in Comp |-> 0]
    /\ wanted = {} /\ gone = {} /\ ending = {} /\ recov = {}
    /\ job = NoJob

Fault == faults < scene.faults /\ faults' = faults + 1
Finish(why) == done' = IF done = "no" THEN why ELSE done
IsReady == ready /\ done = "no"

\* A connection closes: the channels on it die and their consume loops end.
On(g) == {c \in Comp : chanGen[c] = g /\ chan[c] \in {"idle", "live"}}
Close(g) ==
    /\ conn' = [conn EXCEPT ![g] = "closed"]
    /\ chan' = [c \in Comp |-> IF c \in On(g) THEN "dead" ELSE chan[c]]
    /\ ending' = ending \cup {<<c, ver[c]>> : c \in {k \in On(g) : chan[k] = "live"}}

ConnDies ==
    /\ \E g \in Gens : conn[g] = "open" /\ Close(g)
    /\ Fault
    /\ UNCHANGED <<scene, gen, ready, done, ctxDone, supVars, busVars, chanGen,
                   ver, wanted, gone, recov, job>>

\* A channel dies alone: a channel exception, or the broker ends the consumer.
ChannelDies(c) ==
    /\ chan[c] \in {"idle", "live"} /\ conn[chanGen[c]] = "open" /\ Fault
    /\ scene.early \/ ready
    /\ chan[c] = "idle" => scene.partial \/ job = NoJob \/ job.who # "recover"
    /\ chan' = [chan EXCEPT ![c] = "dead"]
    /\ ending' = IF chan[c] = "live" THEN ending \cup {<<c, ver[c]>>} ELSE ending
    /\ UNCHANGED <<scene, conn, gen, ready, done, ctxDone, supVars, busVars,
                   chanGen, ver, wanted, gone, recov, job>>

-----------------------------------------------------------------------------
\* supervise, lost and reconnect.

SupNotices ==
    /\ sup = "watch"
    /\ \/ conn[gen] = "closed" /\ ~ctxDone /\ sup' = "lost" /\ ready' = FALSE
       \/ ctxDone /\ sup' = "exit" /\ UNCHANGED ready
    /\ UNCHANGED <<scene, conn, gen, done, ctxDone, faults, attempt, todo,
                   busVars, chanVars, job>>

\* connectionLost: the dispatcher forgets its channels.
SupTellsComponents ==
    /\ sup = "lost" /\ sup' = "backoff" /\ attempt' = 1
    /\ chan' = [c \in Comp |-> IF c \in comps \cap repliers THEN "none" ELSE chan[c]]
    /\ UNCHANGED <<sessVars, todo, busVars, chanGen, ver, wanted, gone, ending,
                   recov, job>>

Exhausted == MaxRetries > 0 /\ attempt > MaxRetries

SupGivesUp ==
    /\ sup = "backoff" /\ Exhausted /\ Finish("gaveUp") /\ sup' = "exit"
    /\ UNCHANGED <<scene, conn, gen, ready, ctxDone, faults, attempt, todo,
                   busVars, chanVars, job>>

\* The wait ends with the context, or the dial fails or succeeds.
SupDials ==
    /\ sup = "backoff" /\ ~Exhausted
    /\ \/ ctxDone /\ sup' = "exit" /\ UNCHANGED <<conn, attempt, faults>>
       \/ attempt' = attempt + 1 /\ Fault /\ UNCHANGED <<sup, conn>>
       \/ /\ gen < MaxGen /\ conn' = [conn EXCEPT ![gen + 1] = "open"]
          /\ sup' = "dialled" /\ UNCHANGED <<attempt, faults>>
    /\ UNCHANGED <<scene, gen, ready, done, ctxDone, todo, busVars, chanVars,
                   job>>

SupInstalls ==
    /\ sup = "dialled" /\ sup' = "restore" /\ gen' = gen + 1
    /\ UNCHANGED <<scene, conn, ready, done, ctxDone, faults, attempt, todo,
                   busVars, chanVars, job>>

Restores(who, c, v) ==
    job' = [who |-> who, c |-> c, g |-> gen, v |-> v, step |-> "open"]

\* runRestorers takes restoreMu, then the registrations, and one by one ...
SupLocks ==
    /\ sup = "restore" /\ job = NoJob
    /\ todo' = comps
    /\ \/ comps = {} /\ sup' = "check" /\ UNCHANGED job
       \/ ctxDone /\ comps # {} /\ sup' = "failed" /\ UNCHANGED job
       \/ ~ctxDone /\ (\E c \in comps : Restores("sup", c, 0)) /\ UNCHANGED sup
    /\ UNCHANGED <<sessVars, attempt, busVars, chanVars>>

\* Mutant: a component that fails to restore is only logged.
SupRestoredBestEffort ==
    /\ job # NoJob /\ job.who = "sup" /\ job.step \in {"ok", "failed"}
    /\ todo' = todo \ {job.c}
    /\ IF todo' = {} THEN sup' = "check" /\ job' = NoJob
       ELSE (\E c \in todo' : Restores("sup", c, 0)) /\ UNCHANGED sup
    /\ UNCHANGED <<sessVars, attempt, busVars, chanVars>>

\* ... restores them, until one fails or the context ends.
SupRestored ==
    /\ job # NoJob /\ job.who = "sup" /\ job.step \in {"ok", "failed"}
    /\ todo' = todo \ {job.c}
    /\ IF job.step = "failed" \/ (todo' # {} /\ ctxDone)
       THEN sup' = "failed" /\ job' = NoJob
       ELSE IF todo' = {} THEN sup' = "check" /\ job' = NoJob
       ELSE (\E c \in todo' : Restores("sup", c, 0)) /\ UNCHANGED sup
    /\ UNCHANGED <<sessVars, attempt, busVars, chanVars>>

\* Mutants: a connection that could not be restored is left open, or ends the
\* supervisor.
SupDropsAndStops ==
    /\ sup = "failed" /\ Close(gen) /\ sup' = "exit"
    /\ UNCHANGED <<scene, gen, ready, done, ctxDone, faults, attempt, todo,
                   busVars, chanGen, ver, wanted, gone, recov, job>>
SupDropsNothing ==
    /\ sup = "failed" /\ attempt' = attempt + 1
    /\ sup' = IF ctxDone THEN "exit" ELSE "backoff"
    /\ UNCHANGED <<sessVars, todo, busVars, chanVars, job>>

\* A connection that could not be restored is dropped.
SupDrops ==
    /\ sup = "failed" /\ Close(gen) /\ attempt' = attempt + 1
    /\ sup' = IF ctxDone THEN "exit" ELSE "backoff"
    /\ UNCHANGED <<scene, gen, ready, done, ctxDone, faults, todo, busVars,
                   chanGen, ver, wanted, gone, recov, job>>

\* Closed meanwhile, or the socket died while the restorers ran.
SupChecks ==
    /\ sup = "check"
    /\ \/ ctxDone /\ Close(gen) /\ sup' = "exit" /\ UNCHANGED attempt
       \/ /\ ~ctxDone /\ conn[gen] = "closed" /\ sup' = "backoff" /\ attempt' = attempt + 1
          /\ UNCHANGED <<conn, chan, ending>>
       \/ /\ ~ctxDone /\ conn[gen] = "open" /\ sup' = "announce"
          /\ UNCHANGED <<conn, chan, ending, attempt>>
    /\ UNCHANGED <<scene, gen, ready, done, ctxDone, faults, todo, busVars,
                   chanGen, ver, wanted, gone, recov, job>>

\* Mutant: markReady does not look at doneErr.
SupAnnouncesAnyway ==
    /\ sup = "announce" /\ sup' = "watch" /\ ready' = TRUE
    /\ UNCHANGED <<scene, conn, gen, done, ctxDone, faults, attempt, todo,
                   busVars, chanVars, job>>

SupAnnounces ==
    /\ sup = "announce" /\ sup' = "watch" /\ ready' = (ready \/ done = "no")
    /\ UNCHANGED <<scene, conn, gen, done, ctxDone, faults, attempt, todo,
                   busVars, chanVars, job>>

-----------------------------------------------------------------------------
\* restoreTopology, run by whoever holds restoreMu.

At(step) == job # NoJob /\ job.step = step
Goes(step) == job' = [job EXCEPT !.step = step]

\* A closed component has nothing to restore; declarations may fail.
RestoreOpens ==
    /\ At("open")
    /\ \/ job.c \in gone /\ Goes("ok") /\ UNCHANGED faults
       \/ job.c \notin gone /\ conn[job.g] = "open" /\ Goes("opened") /\ UNCHANGED faults
       \/ job.c \notin gone /\ conn[job.g] # "open" /\ Goes("failed") /\ UNCHANGED faults
       \/ job.c \notin gone /\ conn[job.g] = "open" /\ Goes("failed") /\ Fault
    /\ UNCHANGED <<scene, conn, gen, ready, done, ctxDone, supVars, busVars,
                   chanVars>>

Installs(c, state) ==
    /\ chan' = [chan EXCEPT ![c] = state]
    /\ chanGen' = [chanGen EXCEPT ![c] = job.g]
    /\ ver' = [ver EXCEPT ![c] = @ + 1]
    /\ UNCHANGED <<wanted, gone, recov>>

\* A consumer installs its channel and waits for the old loop to end; that
\* loop sees another channel in its place and decides nothing.
RestoreInstalls ==
    /\ At("opened") /\ job.c \notin repliers
    /\ \/ conn[job.g] # "open" /\ Goes("failed") /\ UNCHANGED chanVars
       \/ job.c \in gone /\ Goes("ok") /\ UNCHANGED chanVars
       \/ /\ conn[job.g] = "open" /\ job.c \notin gone
          /\ Installs(job.c, "idle")
          /\ ending' = {e \in ending : e[1] # job.c}
          /\ Goes(IF job.c \in wanted THEN "installed" ELSE "ok")
    /\ UNCHANGED <<sessVars, supVars, busVars>>

\* startConsuming: fails with its channel; if the component was closed it finds none,
\* or has registered just before and cancels again.
RestoreConsumes ==
    /\ At("installed")
    /\ \/ /\ chan[job.c] = "idle" /\ job.c \notin gone /\ Goes("ok")
          /\ chan' = [chan EXCEPT ![job.c] = IF job.c \in wanted THEN "live" ELSE "idle"]
       \/ (chan[job.c] # "idle" \/ job.c \in gone) /\ Goes("failed") /\ UNCHANGED chan
       \/ job.c \in gone /\ Goes("ok") /\ UNCHANGED chan
    /\ UNCHANGED <<sessVars, supVars, busVars, chanGen, ver, wanted, gone, ending,
                   recov>>

\* The dispatcher consumes first and installs last.
RestoreReplies ==
    /\ At("opened") /\ job.c \in repliers
    /\ \/ conn[job.g] # "open" /\ Goes("failed") /\ UNCHANGED chanVars
       \/ conn[job.g] = "open" /\ job.c \in gone /\ Goes("ok") /\ UNCHANGED chanVars
       \/ /\ conn[job.g] = "open" /\ job.c \notin gone /\ Goes("ok")
          /\ Installs(job.c, "live") /\ UNCHANGED ending
    /\ UNCHANGED <<sessVars, supVars, busVars>>

-----------------------------------------------------------------------------
\* consumer.start, Bus.attach and attachOnce.

AttachStarts(c) ==
    /\ c \in scene.comps /\ att[c] = "idle"
    /\ \/ c \in gone /\ att' = [att EXCEPT ![c] = "err"] /\ UNCHANGED wanted
       \/ c \notin gone /\ att' = [att EXCEPT ![c] = "wait"] /\ wanted' = wanted \cup {c}
    /\ UNCHANGED <<sessVars, supVars, comps, closers, bus, chan, chanGen, ver, gone,
                   ending, recov, job>>

\* whenReady: readiness, the end of the session, or the ready timeout.
AttachWaits(c) ==
    /\ att[c] = "wait"
    /\ \/ IsReady /\ att' = [att EXCEPT ![c] = "lock"] /\ UNCHANGED wanted
       \/ ~IsReady /\ att' = [att EXCEPT ![c] = "err"] /\ wanted' = wanted \ {c}
    /\ UNCHANGED <<sessVars, supVars, comps, closers, bus, chan, chanGen, ver, gone,
                   ending, recov, job>>

AttachLocks(c) ==
    /\ att[c] = "lock" /\ job = NoJob
    /\ \/ /\ bus # "open" /\ att' = [att EXCEPT ![c] = "err"] /\ wanted' = wanted \ {c}
          /\ UNCHANGED job
       \/ bus = "open" /\ ~IsReady /\ att' = [att EXCEPT ![c] = "wait"] /\ UNCHANGED <<wanted, job>>
       \/ /\ bus = "open" /\ IsReady /\ att' = [att EXCEPT ![c] = "restore"]
          /\ Restores("attach", c, 0) /\ UNCHANGED wanted
    /\ UNCHANGED <<sessVars, supVars, comps, closers, bus, chan, chanGen, ver, gone,
                   ending, recov>>

\* A failure on a dead connection is retried on the next; success registers.
AttachRestored(c) ==
    /\ att[c] = "restore" /\ job.step \in {"ok", "failed"}
    /\ \/ /\ job.step = "ok" /\ comps' = comps \cup {c}
          /\ att' = [att EXCEPT ![c] = "register"] /\ UNCHANGED <<wanted, job>>
       \/ /\ job.step = "failed" /\ conn[job.g] = "closed" /\ job' = NoJob
          /\ att' = [att EXCEPT ![c] = "wait"] /\ UNCHANGED <<comps, wanted>>
       \/ /\ job.step = "failed" /\ conn[job.g] # "closed" /\ job' = NoJob
          /\ att' = [att EXCEPT ![c] = "err"] /\ wanted' = wanted \ {c} /\ UNCHANGED comps
    /\ UNCHANGED <<sessVars, supVars, closers, bus, chan, chanGen, ver, gone,
                   ending, recov>>

\* Closing a component: no deliveries wanted, its channel closed and dropped.
Closes(c) ==
    /\ gone' = gone \cup {c} /\ wanted' = wanted \ {c}
    /\ chan' = [chan EXCEPT ![c] = "none"]
    /\ UNCHANGED <<chanGen, ver, ending, recov>>

\* Mutant: the bus is not looked at again after the restore.
AttachEnlistsAnyway(c) ==
    /\ att[c] = "register" /\ job' = NoJob
    /\ closers' = closers \cup {c} /\ att' = [att EXCEPT ![c] = "ok"]
    /\ UNCHANGED <<sessVars, supVars, comps, bus, chanVars>>

\* The bus may have been closed during the restore.
AttachEnlists(c) ==
    /\ att[c] = "register" /\ job' = NoJob
    /\ \/ /\ bus = "open" /\ closers' = closers \cup {c}
          /\ att' = [att EXCEPT ![c] = "ok"] /\ UNCHANGED <<comps, chanVars>>
       \/ /\ bus # "open" /\ comps' = comps \ {c} /\ Closes(c)
          /\ att' = [att EXCEPT ![c] = "err"] /\ UNCHANGED closers
    /\ UNCHANGED <<sessVars, supVars, bus>>

\* Service.Close and EventListener.Close.
UserCloses(c) ==
    /\ c \in scene.comps \ gone /\ bus = "open" /\ Closes(c)
    /\ comps' = IF att[c] = "ok" THEN comps \ {c} ELSE comps
    /\ UNCHANGED <<sessVars, supVars, att, closers, bus, job>>

-----------------------------------------------------------------------------
\* A consume loop ends; recover rebuilds what died on a live connection.

Stale(c, v) == c \in gone \/ c \notin wanted \/ ver[c] # v
LoopEnds(c, v) ==
    /\ <<c, v>> \in ending /\ ending' = ending \ {<<c, v>>}
    /\ recov' = IF ~Stale(c, v) /\ chan[c] # "none" /\ IsReady
                THEN recov \cup {<<c, v>>} ELSE recov
    /\ UNCHANGED <<sessVars, supVars, busVars, chan, chanGen, ver, wanted, gone,
                   job>>

\* Mutant: one attempt, whatever it meets.
RecoverTriesOnce(c, v) ==
    /\ <<c, v>> \in recov /\ job = NoJob
    /\ recov' = recov \ {<<c, v>>}
    /\ IF ~Stale(c, v) /\ IsReady THEN Restores("recover", c, v) ELSE UNCHANGED job
    /\ UNCHANGED <<sessVars, supVars, busVars, chan, chanGen, ver, wanted, gone,
                   ending>>

\* tryRecover and tryRecoverReplies, up to the restore; between attempts the
\* goroutine sleeps and goes away with the session.
RecoverTries(c, v) ==
    /\ <<c, v>> \in recov /\ job = NoJob
    /\ \/ /\ Stale(c, v) \/ ~IsReady \/ (c \notin repliers /\ conn[gen] # "open") \/ ctxDone
          /\ recov' = recov \ {<<c, v>>} /\ UNCHANGED <<chan, job>>
       \/ /\ ~Stale(c, v) /\ IsReady /\ (c \in repliers \/ conn[gen] = "open")
          /\ Restores("recover", c, v)
          /\ chan' = [chan EXCEPT ![c] = IF c \in repliers THEN "none" ELSE @]
          /\ UNCHANGED recov
    /\ UNCHANGED <<sessVars, supVars, busVars, chanGen, ver, wanted, gone, ending>>

Recovered ==
    /\ job # NoJob /\ job.who = "recover" /\ job.step \in {"ok", "failed"}
    /\ job' = NoJob
    /\ recov' = IF job.step = "ok" THEN recov \ {<<job.c, job.v>>} ELSE recov
    /\ UNCHANGED <<sessVars, supVars, busVars, chan, chanGen, ver, wanted, gone,
                   ending>>

-----------------------------------------------------------------------------
\* Bus.Close and session.close.

BusCloses ==
    /\ bus = "open" /\ bus' = "finish"
    /\ UNCHANGED <<sessVars, supVars, comps, att, closers, chanVars, job>>

BusFinishes ==
    /\ bus = "finish" /\ bus' = "closers" /\ Finish("ErrClosed")
    /\ UNCHANGED <<scene, conn, gen, ready, ctxDone, faults, supVars, comps, att,
                   closers, chanVars, job>>

BusClosesComponent ==
    /\ bus = "closers"
    /\ \/ /\ \E c \in closers : closers' = closers \ {c} /\ comps' = comps \ {c} /\ Closes(c)
          /\ UNCHANGED bus
       \/ closers = {} /\ bus' = "cancel" /\ UNCHANGED <<comps, closers, chanVars>>
    /\ UNCHANGED <<sessVars, supVars, att, job>>

\* Mutant: the connection is closed and the supervisor's context is not.
BusCancelsNothing ==
    /\ bus = "cancel" /\ bus' = "conn"
    /\ UNCHANGED <<sessVars, supVars, comps, att, closers, chanVars, job>>

BusCancels ==
    /\ bus = "cancel" /\ bus' = "conn" /\ ctxDone' = TRUE
    /\ UNCHANGED <<scene, conn, gen, ready, done, faults, supVars, comps, att,
                   closers, chanVars, job>>

BusClosesConn ==
    /\ bus = "conn" /\ bus' = "wait" /\ ready' = FALSE /\ Close(gen)
    /\ UNCHANGED <<scene, gen, done, ctxDone, faults, supVars, comps, att,
                   closers, chanGen, ver, wanted, gone, recov, job>>

\* The supervisor may have installed a newer connection meanwhile.
BusReturns ==
    /\ bus = "wait" /\ sup = "exit" /\ bus' = "closed" /\ Close(gen)
    /\ UNCHANGED <<scene, gen, ready, done, ctxDone, faults, supVars, comps, att,
                   closers, chanGen, ver, wanted, gone, recov, job>>

-----------------------------------------------------------------------------
SupNext ==
    \/ SupNotices \/ SupTellsComponents \/ SupGivesUp \/ SupDials \/ SupInstalls
    \/ SupLocks \/ SupRestored \/ SupDrops \/ SupChecks \/ SupAnnounces
RestoreNext == RestoreOpens \/ RestoreInstalls \/ RestoreConsumes \/ RestoreReplies
AttachNext(c) ==
    \/ AttachWaits(c) \/ AttachLocks(c) \/ AttachRestored(c) \/ AttachEnlists(c)
RecoverNext(c) ==
    \E e \in ending \cup recov : e[1] = c /\ (LoopEnds(c, e[2]) \/ RecoverTries(c, e[2]))
BusNext ==
    \/ BusFinishes \/ BusClosesComponent \/ BusCancels \/ BusClosesConn \/ BusReturns

Next ==
    \/ SupNext \/ RestoreNext \/ Recovered \/ BusNext \/ BusCloses \/ ConnDies
    \/ \E c \in Comp : \/ AttachStarts(c) \/ AttachNext(c) \/ RecoverNext(c)
                       \/ UserCloses(c) \/ ChannelDies(c)

Spec == Init /\ [][Next]_vars

\* Goroutines run, and once the faults are spent dials and restores succeed.
\* restoreMu is fair to its waiters. Attaching and closing are choices.
FairSpec ==
    /\ Spec
    /\ WF_vars(SupNext) /\ SF_vars(SupLocks)
    /\ WF_vars(RestoreNext) /\ WF_vars(Recovered) /\ WF_vars(BusNext)
    /\ \A c \in Comp : /\ SF_vars(AttachNext(c)) /\ SF_vars(RecoverNext(c))

-----------------------------------------------------------------------------
\* While the connection is reported ready and lives, the channel of every
\* registered component is on it: none attached during a reconnection is
\* missed by it, none is left on an older connection (bus.go:113-115).
ReadyMeansRestored ==
    IsReady /\ conn[gen] = "open" =>
        \A c \in comps : chanGen[c] = gen \/ c \in gone

\* A failing reconnection never leaves two connections open (session.go:84-86).
OneLineage == \A g, h \in Gens : conn[g] = "open" /\ conn[h] = "open" => g = h

\* Once Close has returned, no connection is open, the supervisor is gone and
\* every component whose attach succeeded has been closed (bus.go:230-250).
CloseLeavesNothing ==
    bus = "closed" =>
        /\ sup = "exit" /\ \A g \in Gens : conn[g] # "open"
        /\ \A c \in Comp : att[c] = "ok" => c \in gone

\* No connection is left behind, by a reconnection or by Close, in a state
\* that is well typed.
NoConnLeaks == TypeOK /\ OneLineage /\ CloseLeavesNothing

\* A finished session never becomes ready again, even if the supervisor was
\* about to announce a reconnection (session.go:304-306).
NeverReadyAgain == [][done # "no" /\ ~ready => ~ready']_vars

\* After a loss the session becomes ready again or finishes.
ReconnectsOrEnds == []<>(ready \/ done # "no")

\* Close returns: the supervisor, restores and Close do not wait in a circle.
CloseReturns == []<>(bus \in {"open", "closed"})

\* Neither a loss nor a Close leaves the session hanging.
NeverHangs == ReconnectsOrEnds /\ CloseReturns

\* A consumer that was started comes back to consuming, whatever died, unless
\* it is closed or the session ends (consumer.go:317-320).
ConsumerRebuilt ==
    \A c \in Comp : []<>(att[c] # "ok" \/ c \in gone \/ chan[c] = "live" \/ done # "no")

\* It does where a channel dies after the session is ready, outside a rebuild.
ConsumerRebuiltWhenReady == ~scene.early /\ ~scene.partial => ConsumerRebuilt
=============================================================================
