--------------------------- MODULE SessionProofs ---------------------------
(***************************************************************************)
(* Proofs about the session of Session, for any set of components, any     *)
(* number of connections and of faults.                                    *)
(***************************************************************************)
EXTENDS Session, TLAPS

\* The connections: only the newest can be open, and while the supervisor has
\* dialled it and not yet installed it, the one before is closed.
Lineage ==
    /\ scene \in Scenes /\ faults \in 0..MaxFaults
    /\ conn \in [Gens -> {"none", "open", "closed"}] /\ gen \in Gens
    /\ ready \in BOOLEAN /\ ctxDone \in BOOLEAN /\ done \in {"no", "ErrClosed", "gaveUp"}
    /\ sup \in {"watch", "lost", "backoff", "dialled", "restore", "failed", "check",
                "announce", "exit"}
    /\ attempt \in Nat /\ todo \subseteq Comp
    /\ \A g \in Gens : /\ g < gen => conn[g] = "closed"
                       /\ g > gen => conn[g] = "none" \/ (sup = "dialled" /\ g = gen + 1)
    /\ sup = "dialled" => gen + 1 \in Gens /\ conn[gen + 1] # "none"
    /\ conn[gen] # "none"
    /\ sup \in {"lost", "backoff", "dialled"} => conn[gen] = "closed"
    /\ ready => sup \in {"watch", "exit"}
    /\ bus = "closed" => sup = "exit" /\ conn[gen] = "closed"

\* The bus and the components: one whose attach succeeded is known to Close, and
\* Close has been through all it knows of before it cancels the session.
Enlisted ==
    /\ comps \subseteq Comp /\ closers \subseteq Comp
    /\ att \in [Comp -> {"idle", "wait", "lock", "restore", "register", "ok", "err"}]
    /\ bus \in {"open", "finish", "closers", "cancel", "conn", "wait", "closed"}
    /\ chan \in [Comp -> {"none", "idle", "live", "dead"}]
    /\ chanGen \in [Comp -> 0..MaxGen] /\ ver \in [Comp -> Nat]
    /\ wanted \subseteq Comp /\ gone \subseteq Comp
    /\ ending \subseteq Comp \X Nat /\ recov \subseteq Comp \X Nat
    /\ \A c \in Comp : att[c] = "ok" => c \in closers \cup gone
    /\ bus \in {"cancel", "conn", "wait", "closed"} => closers = {}

\* Whoever holds restoreMu: the supervisor with the new connection, or a caller
\* with the one that was current when it took the lock; the supervisor does not
\* get past its own restore while another one runs.
Locked ==
    /\ job \in Jobs \cup {NoJob}
    /\ \A c \in Comp : att[c] \in {"restore", "register"} =>
           job # NoJob /\ job.who = "attach" /\ job.c = c
    /\ job # NoJob =>
          /\ sup \notin {"failed", "check", "announce"}
          /\ job.g = gen \/ sup = "restore"
          /\ job.who = "sup" => sup = "restore" /\ job.g = gen
          /\ job.step \in {"installed", "ok"} => chanGen[job.c] = job.g \/ job.c \in gone

\* A component is on the current connection unless the supervisor has still to
\* restore it there.
OnCurrent(c) == chanGen[c] = gen \/ c \in gone
Restored ==
    /\ sup \in {"check", "announce", "watch"} \/ ready => \A c \in comps : OnCurrent(c)
    /\ job # NoJob /\ job.who = "sup" => \A c \in comps \ todo : OnCurrent(c)

IInv == Lineage /\ Enlisted /\ Locked /\ Restored

-----------------------------------------------------------------------------
USE DEF sessVars, supVars, busVars, chanVars

\* A fault stays within its scene's budget.
LEMMA FaultTyped ==
    ASSUME Lineage, UNCHANGED faults \/ Fault
    PROVE  faults' \in 0..MaxFaults
<1>1. scene.faults \in 0..MaxFaults
  BY SessionAssumption, Zenon DEF Lineage
<1> QED
  BY <1>1, SessionAssumption DEF Lineage, Fault

\* Closing a connection closes no other, and ends the consume loops of its
\* channels.
LEMMA CloseTyped ==
    ASSUME Lineage, Enlisted, NEW g \in Gens, Close(g)
    PROVE  /\ conn' \in [Gens -> {"none", "open", "closed"}] /\ conn'[g] = "closed"
           /\ \A h \in Gens \ {g} : conn'[h] = conn[h]
           /\ chan' \in [Comp -> {"none", "idle", "live", "dead"}]
           /\ ending' \subseteq Comp \X Nat
<1>1. /\ conn' \in [Gens -> {"none", "open", "closed"}] /\ conn'[g] = "closed"
      /\ \A h \in Gens \ {g} : conn'[h] = conn[h]
  BY Zenon DEF Lineage, Close
<1>2. chan' \in [Comp -> {"none", "idle", "live", "dead"}]
  BY Zenon DEF Enlisted, Close
<1>3. \A e \in {<<c, ver[c]>> : c \in {k \in On(g) : chan[k] = "live"}} : e \in Comp \X Nat
  BY DEF Enlisted, On
<1>4. ending' \subseteq Comp \X Nat
  BY <1>3, Zenon DEF Enlisted, Close
<1> QED
  BY <1>1, <1>2, <1>4, Zenon

\* connect satisfies the invariant.
LEMMA InitIInv == Init => IInv
<1> SUFFICES ASSUME Init PROVE IInv
  BY Zenon
<1>1. 1 \in Gens /\ 0 \in 0..MaxFaults /\ 0 \in 0..MaxGen
  BY SessionAssumption DEF Gens
<1>2. Lineage
  <2>1. /\ conn \in [Gens -> {"none", "open", "closed"}] /\ conn[1] = "open"
        /\ \A g \in Gens : g > 1 => conn[g] = "none"
    BY <1>1 DEF Init
  <2>2. \A g \in Gens : ~(g < 1)
    BY SessionAssumption DEF Gens
  <2> QED
    BY <1>1, <2>1, <2>2, Zenon DEF Init, Lineage
<1>3. Enlisted
  BY <1>1, Zenon DEF Init, Enlisted
<1>4. Locked /\ Restored
  BY Zenon DEF Init, Locked, Restored
<1> QED
  BY <1>2, <1>3, <1>4, Zenon DEF IInv

\* The connections through every step.
LEMMA LineageKeeps == ASSUME IInv, [Next]_vars PROVE Lineage'
<1>1. CASE SupNotices
  BY <1>1, Zenon DEF IInv, Lineage, SupNotices
<1>2. CASE SupTellsComponents
  BY <1>2, Zenon DEF IInv, Lineage, SupTellsComponents
<1>3. CASE SupGivesUp
  BY <1>3, Zenon DEF IInv, Lineage, SupGivesUp, Finish
<1>4. CASE SupInstalls
  BY <1>4 DEF IInv, Lineage, SupInstalls, Gens
<1>5. CASE SupLocks
  BY <1>5, Zenon DEF IInv, Lineage, SupLocks, Enlisted
<1>6. CASE SupRestored
  BY <1>6, Zenon DEF IInv, Lineage, SupRestored, Locked
<1>7. CASE SupAnnounces
  BY <1>7, Zenon DEF IInv, Lineage, SupAnnounces
<1>8. CASE BusFinishes
  BY <1>8, Zenon DEF IInv, Lineage, BusFinishes, Finish
<1>9. CASE BusCancels
  BY <1>9, Zenon DEF IInv, Lineage, BusCancels
<1>10. CASE SupDials
  <2>1. faults' \in 0..MaxFaults
    BY <1>10, FaultTyped, Zenon DEF IInv, SupDials
  <2>2. CASE sup' = "dialled"
    <3>1. gen \in Nat /\ gen + 1 \in Gens
      BY <1>10, <2>2, SessionAssumption DEF IInv, Lineage, SupDials, Gens
    <3>2. /\ conn' \in [Gens -> {"none", "open", "closed"}] /\ conn'[gen + 1] = "open"
          /\ \A h \in Gens \ {gen + 1} : conn'[h] = conn[h]
      BY <1>10, <2>2, <3>1, Zenon DEF IInv, Lineage, SupDials
    <3>3. /\ UNCHANGED <<scene, gen, ready, ctxDone, done, todo, bus, attempt>>
          /\ sup = "backoff"
      BY <1>10, <2>2, Zenon DEF IInv, Lineage, SupDials
    <3> QED
      BY <2>1, <2>2, <3>1, <3>2, <3>3 DEF IInv, Lineage, Gens
  <2>3. CASE sup' # "dialled"
    BY <1>10, <2>1, <2>3 DEF IInv, Lineage, SupDials
  <2> QED
    BY <2>2, <2>3, Zenon
<1>11. CASE SupDrops
  <2>1. gen \in Gens
    BY Zenon DEF IInv, Lineage
  <2>2. /\ conn' \in [Gens -> {"none", "open", "closed"}] /\ conn'[gen] = "closed"
        /\ \A h \in Gens \ {gen} : conn'[h] = conn[h]
    BY <1>11, <2>1, CloseTyped, Zenon DEF IInv, SupDrops
  <2> QED
    BY <1>11, <2>2 DEF IInv, Lineage, Gens, SupDrops
<1>12. CASE BusClosesConn
  <2>1. gen \in Gens
    BY Zenon DEF IInv, Lineage
  <2>2. /\ conn' \in [Gens -> {"none", "open", "closed"}] /\ conn'[gen] = "closed"
        /\ \A h \in Gens \ {gen} : conn'[h] = conn[h]
    BY <1>12, <2>1, CloseTyped, Zenon DEF IInv, BusClosesConn
  <2> QED
    BY <1>12, <2>2, Zenon DEF IInv, Lineage, Gens, BusClosesConn
<1>13. CASE BusReturns
  <2>1. gen \in Gens
    BY Zenon DEF IInv, Lineage
  <2>2. /\ conn' \in [Gens -> {"none", "open", "closed"}] /\ conn'[gen] = "closed"
        /\ \A h \in Gens \ {gen} : conn'[h] = conn[h]
    BY <1>13, <2>1, CloseTyped, Zenon DEF IInv, BusReturns
  <2> QED
    BY <1>13, <2>2, Zenon DEF IInv, Lineage, Gens, BusReturns
<1>14. CASE SupChecks
  <2>1. CASE Close(gen) /\ sup' = "exit" /\ UNCHANGED attempt
    <3>1. gen \in Gens
      BY Zenon DEF IInv, Lineage
    <3>2. /\ conn' \in [Gens -> {"none", "open", "closed"}] /\ conn'[gen] = "closed"
          /\ \A h \in Gens \ {gen} : conn'[h] = conn[h]
      BY <2>1, <3>1, CloseTyped, Zenon DEF IInv
    <3> QED
      BY <1>14, <2>1, <3>2, Zenon DEF IInv, Lineage, Gens, SupChecks
  <2>2. CASE UNCHANGED conn
    BY <1>14, <2>2 DEF IInv, Lineage, SupChecks
  <2> QED
    BY <1>14, <2>1, <2>2, Zenon DEF SupChecks
<1>15. CASE ConnDies
  <2>1. PICK g \in Gens : conn[g] = "open" /\ Close(g)
    BY <1>15, Zenon DEF ConnDies
  <2>2. /\ conn' \in [Gens -> {"none", "open", "closed"}] /\ conn'[g] = "closed"
        /\ \A h \in Gens \ {g} : conn'[h] = conn[h]
    BY <2>1, CloseTyped, Zenon DEF IInv
  <2>3. faults' \in 0..MaxFaults
    BY <1>15, FaultTyped, Zenon DEF IInv, ConnDies
  <2> QED
    BY <1>15, <2>1, <2>2, <2>3 DEF IInv, Lineage, Gens, ConnDies
<1>16. ASSUME NEW c \in Comp, ChannelDies(c) PROVE Lineage'
  <2>1. faults' \in 0..MaxFaults
    BY <1>16, FaultTyped, Zenon DEF IInv, ChannelDies
  <2> QED
    BY <1>16, <2>1 DEF IInv, Lineage, ChannelDies
<1>17. CASE RestoreOpens
  <2>1. faults' \in 0..MaxFaults
    BY <1>17, FaultTyped, Zenon DEF IInv, RestoreOpens
  <2> QED
    BY <1>17, <2>1 DEF IInv, Lineage, RestoreOpens
<1>18. CASE UNCHANGED <<sessVars, supVars>> /\ (bus' = "closed" => bus = "closed")
  BY <1>18, Zenon DEF IInv, Lineage
<1>19. ASSUME NEW c \in Comp, AttachStarts(c) \/ AttachNext(c) \/ RecoverNext(c) \/ UserCloses(c)
      PROVE  UNCHANGED <<sessVars, supVars, bus>>
  BY <1>19, Zenon DEF AttachStarts, AttachNext, AttachWaits, AttachLocks, AttachRestored,
     AttachEnlists, RecoverNext,
           LoopEnds, RecoverTries, UserCloses
<1>20. CASE BusCloses \/ BusClosesComponent \/ Recovered \/ RestoreInstalls \/ RestoreConsumes \/ RestoreReplies \/ UNCHANGED vars
  <2>1. UNCHANGED <<sessVars, supVars>> /\ (bus' = "closed" => bus = "closed")
    BY <1>20, Zenon DEF BusCloses, BusClosesComponent, Recovered, RestoreInstalls,
       RestoreConsumes,
       RestoreReplies, vars
  <2> QED
    BY <2>1, Zenon DEF IInv, Lineage
<1> QED
  BY <1>1, <1>2, <1>3, <1>4, <1>5, <1>6, <1>7, <1>8, <1>9, <1>10, <1>11, <1>12, <1>13, <1>14,
     <1>15, <1>16, <1>17, <1>18, <1>19, <1>20, Zenon DEF Next, SupNext, RestoreNext, BusNext

\* The bus and its components through every step.
LEMMA EnlistedKeeps == ASSUME IInv, [Next]_vars PROVE Enlisted'
<1>1. CASE SupTellsComponents
  BY <1>1, Zenon DEF IInv, Enlisted, SupTellsComponents
<1>2. CASE SupDrops
  <2>1. gen \in Gens
    BY Zenon DEF IInv, Lineage
  <2>2. /\ chan' \in [Comp -> {"none", "idle", "live", "dead"}] /\ ending' \subseteq Comp \X Nat
    BY <1>2, <2>1, CloseTyped, Zenon DEF IInv, SupDrops
  <2> QED
    BY <1>2, <2>2, Zenon DEF IInv, Enlisted, SupDrops
<1>3. CASE BusClosesConn
  <2>1. gen \in Gens
    BY Zenon DEF IInv, Lineage
  <2>2. /\ chan' \in [Comp -> {"none", "idle", "live", "dead"}] /\ ending' \subseteq Comp \X Nat
    BY <1>3, <2>1, CloseTyped, Zenon DEF IInv, BusClosesConn
  <2> QED
    BY <1>3, <2>2, Zenon DEF IInv, Enlisted, BusClosesConn
<1>4. CASE BusReturns
  <2>1. gen \in Gens
    BY Zenon DEF IInv, Lineage
  <2>2. /\ chan' \in [Comp -> {"none", "idle", "live", "dead"}] /\ ending' \subseteq Comp \X Nat
    BY <1>4, <2>1, CloseTyped, Zenon DEF IInv, BusReturns
  <2> QED
    BY <1>4, <2>2, Zenon DEF IInv, Enlisted, BusReturns
<1>5. CASE SupChecks
  <2>1. gen \in Gens
    BY Zenon DEF IInv, Lineage
  <2>2. /\ chan' \in [Comp -> {"none", "idle", "live", "dead"}] /\ ending' \subseteq Comp \X Nat
    BY <1>5, <2>1, CloseTyped, Zenon DEF IInv, Enlisted, SupChecks
  <2> QED
    BY <1>5, <2>2, Zenon DEF IInv, Enlisted, SupChecks
<1>6. CASE ConnDies
  <2>1. PICK g \in Gens : Close(g)
    BY <1>6, Zenon DEF ConnDies
  <2>2. /\ chan' \in [Comp -> {"none", "idle", "live", "dead"}] /\ ending' \subseteq Comp \X Nat
    BY <2>1, CloseTyped, Zenon DEF IInv
  <2> QED
    BY <1>6, <2>2, Zenon DEF IInv, Enlisted, ConnDies
<1>7. ASSUME NEW c \in Comp, ChannelDies(c) PROVE Enlisted'
  BY <1>7 DEF IInv, Enlisted, ChannelDies
<1>8. CASE RestoreInstalls
  <2>1. job.c \in Comp /\ job.g \in 0..MaxGen
    BY <1>8, SessionAssumption DEF IInv, Locked, Jobs, Gens, At, RestoreInstalls
  <2>2. CASE UNCHANGED chanVars
    BY <1>8, <2>2, Zenon DEF IInv, Enlisted, RestoreInstalls
  <2>3. CASE ~UNCHANGED chanVars
    <3>1. /\ chan' \in [Comp -> {"none", "idle", "live", "dead"}]
          /\ chanGen' \in [Comp -> 0..MaxGen] /\ ver' \in [Comp -> Nat]
      BY <1>8, <2>1, <2>3 DEF IInv, Enlisted, Installs, RestoreInstalls
    <3>2. ending' \subseteq ending /\ UNCHANGED <<wanted, gone, recov>>
      BY <1>8, <2>3, Zenon DEF Installs, RestoreInstalls
    <3> QED
      BY <1>8, <3>1, <3>2, Zenon DEF IInv, Enlisted, RestoreInstalls
  <2> QED
    BY <2>2, <2>3, Zenon
<1>9. CASE RestoreReplies
  <2>1. job.c \in Comp /\ job.g \in 0..MaxGen
    BY <1>9, SessionAssumption DEF IInv, Locked, Jobs, Gens, At, RestoreReplies
  <2>2. CASE UNCHANGED chanVars
    BY <1>9, <2>2, Zenon DEF IInv, Enlisted, RestoreReplies
  <2>3. CASE ~UNCHANGED chanVars
    <3>1. /\ chan' \in [Comp -> {"none", "idle", "live", "dead"}]
          /\ chanGen' \in [Comp -> 0..MaxGen] /\ ver' \in [Comp -> Nat]
      BY <1>9, <2>1, <2>3 DEF IInv, Enlisted, Installs, RestoreReplies
    <3>2. ending' \subseteq ending /\ UNCHANGED <<wanted, gone, recov>>
      BY <1>9, <2>3, Zenon DEF Installs, RestoreReplies
    <3> QED
      BY <1>9, <3>1, <3>2, Zenon DEF IInv, Enlisted, RestoreReplies
  <2> QED
    BY <2>2, <2>3, Zenon
<1>10. CASE RestoreConsumes
  BY <1>10, Zenon DEF IInv, Enlisted, RestoreConsumes
<1>11. CASE Recovered
  BY <1>11, Zenon DEF IInv, Enlisted, Recovered
<1>12. CASE BusCloses
  BY <1>12, Zenon DEF IInv, Enlisted, BusCloses
<1>13. CASE BusFinishes
  BY <1>13, Zenon DEF IInv, Enlisted, BusFinishes
<1>14. CASE BusCancels
  BY <1>14, Zenon DEF IInv, Enlisted, BusCancels
<1>15. CASE BusClosesComponent
  BY <1>15 DEF IInv, Enlisted, BusClosesComponent, Closes
<1>16. ASSUME NEW c \in Comp, AttachStarts(c) PROVE Enlisted'
  BY <1>16, Zenon DEF IInv, Enlisted, AttachStarts
<1>17. ASSUME NEW c \in Comp, AttachWaits(c) PROVE Enlisted'
  BY <1>17, Zenon DEF IInv, Enlisted, AttachWaits
<1>18. ASSUME NEW c \in Comp, AttachLocks(c) PROVE Enlisted'
  BY <1>18, Zenon DEF IInv, Enlisted, AttachLocks
<1>19. ASSUME NEW c \in Comp, AttachRestored(c) PROVE Enlisted'
  BY <1>19, Zenon DEF IInv, Enlisted, AttachRestored
<1>20. ASSUME NEW c \in Comp, AttachEnlists(c) PROVE Enlisted'
  BY <1>20, Zenon DEF IInv, Enlisted, AttachEnlists, Closes
<1>21. ASSUME NEW c \in Comp, UserCloses(c) PROVE Enlisted'
  BY <1>21, Zenon DEF IInv, Enlisted, UserCloses, Closes
<1>22. ASSUME NEW c \in Comp, NEW v \in Nat, LoopEnds(c, v) \/ RecoverTries(c, v) PROVE Enlisted'
  BY <1>22 DEF IInv, Enlisted, LoopEnds, RecoverTries
<1>23. CASE SupNotices \/ SupGivesUp \/ SupDials \/ SupInstalls \/ SupLocks \/ SupRestored \/ SupAnnounces
           \/ RestoreOpens \/ UNCHANGED vars
  <2>1. UNCHANGED <<busVars, chanVars>>
    BY <1>23, Zenon DEF SupNotices, SupGivesUp, SupDials, SupInstalls, SupLocks, SupRestored,
       SupAnnounces, RestoreOpens, vars
  <2> QED
    BY <2>1, Zenon DEF IInv, Enlisted
<1>24. ASSUME NEW c \in Comp, RecoverNext(c) PROVE Enlisted'
  BY <1>22, <1>24, Zenon DEF RecoverNext, IInv, Enlisted
<1> QED
  BY <1>1, <1>2, <1>3, <1>4, <1>5, <1>6, <1>7, <1>8, <1>9, <1>10, <1>11, <1>12, <1>13, <1>14,
     <1>15, <1>16, <1>17, <1>18, <1>19, <1>20, <1>21, <1>22, <1>23, <1>24 DEF Next, SupNext,
     RestoreNext, BusNext, AttachNext, Zenon

\* A restore that is started, and one that goes a step further.
LEMMA JobStarts ==
    ASSUME NEW who \in {"sup", "attach", "recover"}, NEW c \in Comp, NEW v \in Nat, gen \in Gens,
           Restores(who, c, v)
    PROVE  /\ job' \in Jobs /\ job' # NoJob
           /\ job'.who = who /\ job'.c = c /\ job'.g = gen /\ job'.step = "open"
<1>1. /\ job' \in Jobs
      /\ job'.who = who /\ job'.c = c /\ job'.g = gen /\ job'.step = "open"
  BY Zenon DEF Restores, Jobs
<1>2. job' # NoJob
  BY <1>1 DEF NoJob
<1> QED
  BY <1>1, <1>2, Zenon

\* A restore that goes on stays that of its holder, component and connection.
LEMMA JobGoes ==
    ASSUME Locked, job # NoJob, NEW st \in {"opened", "installed", "ok", "failed"}, Goes(st)
    PROVE  /\ job' \in Jobs /\ job' # NoJob
           /\ job'.who = job.who /\ job'.c = job.c /\ job'.g = job.g /\ job'.step = st
<1>1. /\ job' \in Jobs
      /\ job'.who = job.who /\ job'.c = job.c /\ job'.g = job.g /\ job'.step = st
  BY Zenon DEF Locked, Goes, Jobs
<1>2. job' # NoJob
  BY <1>1 DEF NoJob, Jobs
<1> QED
  BY <1>1, <1>2, Zenon

\* restoreMu, and what has been restored, through every step.
LEMMA RestoredKeeps == ASSUME IInv, [Next]_vars PROVE Locked' /\ Restored'
<1>1. CASE SupNotices
  BY <1>1, Zenon DEF IInv, Lineage, Enlisted, Locked, Restored, OnCurrent, SupNotices
<1>2. CASE SupTellsComponents
  BY <1>2, Zenon DEF IInv, Lineage, Enlisted, Locked, Restored, OnCurrent, SupTellsComponents
<1>3. CASE SupGivesUp
  BY <1>3, Zenon DEF IInv, Lineage, Enlisted, Locked, Restored, OnCurrent, SupGivesUp
<1>4. CASE SupDials
  BY <1>4, Zenon DEF IInv, Lineage, Enlisted, Locked, Restored, OnCurrent, SupDials
<1>5. CASE SupInstalls
  BY <1>5, Zenon DEF IInv, Lineage, Enlisted, Locked, Restored, OnCurrent, SupInstalls
<1>6. CASE SupAnnounces
  BY <1>6, Zenon DEF IInv, Lineage, Enlisted, Locked, Restored, OnCurrent, SupAnnounces
<1>7. CASE SupDrops
  BY <1>7, Zenon DEF IInv, Lineage, Enlisted, Locked, Restored, OnCurrent, SupDrops, Close
<1>8. CASE SupChecks
  BY <1>8, Zenon DEF IInv, Lineage, Enlisted, Locked, Restored, OnCurrent, SupChecks, Close
<1>9. CASE SupLocks
  <2>1. CASE UNCHANGED job
    BY <1>9, <2>1, Zenon DEF IInv, Lineage, Locked, Restored, OnCurrent, SupLocks
  <2>2. CASE (\E c \in comps : Restores("sup", c, 0)) /\ UNCHANGED sup
    <3>1. /\ job' \in Jobs /\ job' # NoJob
          /\ job'.who = "sup" /\ job'.c \in comps /\ job'.g = gen /\ job'.step = "open"
      <4>1. PICK c \in comps : Restores("sup", c, 0)
        BY <2>2, Zenon
      <4> QED
        BY <4>1, JobStarts DEF IInv, Lineage, Enlisted
    <3>2. sup' = "restore" /\ UNCHANGED <<gen, ready, comps, att, chanGen, gone>> /\ todo' = comps
      BY <1>9, <2>2, Zenon DEF SupLocks
    <3>3. Locked'
      <4>1. \A c \in Comp : att[c] \notin {"restore", "register"}
        BY <1>9, Zenon DEF SupLocks, IInv, Locked
      <4> QED
        BY <3>1, <3>2, <4>1, Zenon DEF Locked
    <3>4. Restored'
      BY <1>9, <3>2 DEF SupLocks, IInv, Lineage, Restored
    <3> QED
      BY <3>3, <3>4, Zenon
  <2> QED
    BY <1>9, <2>1, <2>2, Zenon DEF SupLocks
<1>10. CASE SupRestored
  <2>1. /\ sup = "restore" /\ job.g = gen /\ ~ready
        /\ \A c \in Comp : att[c] \notin {"restore", "register"}
    BY <1>10, Zenon DEF SupRestored, IInv, Lineage, Locked
  <2>2. job.step = "ok" => \A c \in comps \ todo' : OnCurrent(c)
    BY <1>10, <2>1, Zenon DEF SupRestored, IInv, Locked, Restored, OnCurrent
  <2>3. CASE job' = NoJob
    BY <1>10, <2>1, <2>2, <2>3, Zenon DEF SupRestored, IInv, Lineage, Locked, Restored,
       OnCurrent
  <2>4. CASE job.step = "ok" /\ (\E c \in todo' : Restores("sup", c, 0)) /\ UNCHANGED sup
    <3>1. /\ job' \in Jobs /\ job' # NoJob
          /\ job'.who = "sup" /\ job'.g = gen /\ job'.step = "open"
      BY <1>10, <2>4, JobStarts, Zenon DEF SupRestored, IInv, Lineage
    <3>2. UNCHANGED <<gen, ready, comps, att, chanGen, gone>>
      BY <1>10, Zenon DEF SupRestored
    <3> QED
      BY <2>1, <2>2, <2>4, <3>1, <3>2, Zenon DEF IInv, Lineage, Locked, Restored, OnCurrent
  <2> QED
    BY <1>10, <2>3, <2>4, Zenon DEF SupRestored
<1>11. CASE RestoreOpens
  <2>1. /\ job' \in Jobs /\ job' # NoJob /\ job'.who = job.who /\ job'.c = job.c /\ job'.g = job.g
        /\ job'.step \in {"opened", "failed"} \/ (job'.step = "ok" /\ job.c \in gone)
    BY <1>11, JobGoes, Zenon DEF RestoreOpens, At, IInv
  <2> QED
    BY <1>11, <2>1, Zenon DEF RestoreOpens, At, IInv, Locked, Restored, OnCurrent
<1>12. CASE RestoreInstalls
  <2>1. /\ job # NoJob /\ job \in Jobs
        /\ job' \in Jobs /\ job' # NoJob /\ job'.who = job.who /\ job'.c = job.c /\ job'.g = job.g
        /\ job'.step \in {"installed", "ok", "failed"}
    BY <1>12, JobGoes, Zenon DEF RestoreInstalls, At, IInv, Locked
  <2>2. /\ \A c \in Comp \ {job.c} : chanGen'[c] = chanGen[c]
        /\ chanGen'[job.c] \in {chanGen[job.c], job.g}
        /\ job'.step \in {"installed", "ok"} => chanGen'[job.c] = job.g \/ job.c \in gone
        /\ UNCHANGED <<gone, sup, ready, gen, comps, todo, att>>
    BY <1>12, <2>1 DEF RestoreInstalls, At, Goes, Installs, IInv, Enlisted, Jobs
  <2>3. Locked'
    BY <2>1, <2>2, Zenon DEF IInv, Locked
  <2>4. Restored'
    BY <2>1, <2>2 DEF IInv, Lineage, Enlisted, Locked, Restored, OnCurrent, Jobs
  <2> QED
    BY <2>3, <2>4, Zenon
<1>13. CASE RestoreReplies
  <2>1. /\ job # NoJob /\ job \in Jobs
        /\ job' \in Jobs /\ job' # NoJob /\ job'.who = job.who /\ job'.c = job.c /\ job'.g = job.g
        /\ job'.step \in {"installed", "ok", "failed"}
    BY <1>13, JobGoes, Zenon DEF RestoreReplies, At, IInv, Locked
  <2>2. /\ \A c \in Comp \ {job.c} : chanGen'[c] = chanGen[c]
        /\ chanGen'[job.c] \in {chanGen[job.c], job.g}
        /\ job'.step \in {"installed", "ok"} => chanGen'[job.c] = job.g \/ job.c \in gone
        /\ UNCHANGED <<gone, sup, ready, gen, comps, todo, att>>
    BY <1>13, <2>1 DEF RestoreReplies, At, Goes, Installs, IInv, Enlisted, Jobs
  <2>3. Locked'
    BY <2>1, <2>2, Zenon DEF IInv, Locked
  <2>4. Restored'
    BY <2>1, <2>2 DEF IInv, Lineage, Enlisted, Locked, Restored, OnCurrent, Jobs
  <2> QED
    BY <2>3, <2>4, Zenon
<1>14. CASE RestoreConsumes
  <2>1. /\ job' \in Jobs /\ job' # NoJob /\ job'.who = job.who /\ job'.c = job.c /\ job'.g = job.g
        /\ job'.step \in {"ok", "failed"}
    BY <1>14, JobGoes, Zenon DEF RestoreConsumes, At, IInv
  <2> QED
    BY <1>14, <2>1, Zenon DEF RestoreConsumes, At, IInv, Locked, Restored, OnCurrent
<1>15. CASE Recovered
  BY <1>15, Zenon DEF IInv, Lineage, Enlisted, Locked, Restored, OnCurrent, Recovered
<1>16. CASE BusClosesConn
  BY <1>16, Zenon DEF IInv, Lineage, Enlisted, Locked, Restored, OnCurrent, BusClosesConn
<1>17. CASE BusClosesComponent
  BY <1>17, Zenon DEF IInv, Lineage, Enlisted, Locked, Restored, OnCurrent,
     BusClosesComponent, Closes
<1>18. ASSUME NEW c \in Comp, AttachStarts(c) PROVE Locked' /\ Restored'
  BY <1>18 DEF IInv, Lineage, Enlisted, Locked, Restored, OnCurrent, AttachStarts
<1>19. ASSUME NEW c \in Comp, AttachWaits(c) PROVE Locked' /\ Restored'
  BY <1>19 DEF IInv, Lineage, Enlisted, Locked, Restored, OnCurrent, AttachWaits
<1>20. ASSUME NEW c \in Comp, AttachRestored(c) PROVE Locked' /\ Restored'
  BY <1>20 DEF IInv, Lineage, Enlisted, Locked, Restored, OnCurrent, AttachRestored
<1>21. ASSUME NEW c \in Comp, AttachEnlists(c) PROVE Locked' /\ Restored'
  BY <1>21 DEF IInv, Lineage, Enlisted, Locked, Restored, OnCurrent, AttachEnlists, Closes
<1>22. ASSUME NEW c \in Comp, UserCloses(c) PROVE Locked' /\ Restored'
  BY <1>22, Zenon DEF IInv, Lineage, Enlisted, Locked, Restored, OnCurrent, UserCloses, Closes
<1>23. ASSUME NEW c \in Comp, AttachLocks(c) PROVE Locked' /\ Restored'
  <2>1. CASE UNCHANGED job /\ \E s \in {"err", "wait"} : att' = [att EXCEPT ![c] = s]
    BY <1>23, <2>1, Zenon DEF IInv, Enlisted, Locked, Restored, OnCurrent, AttachLocks
  <2>2. CASE IsReady /\ Restores("attach", c, 0) /\ att' = [att EXCEPT ![c] = "restore"]
    <3>1. /\ job' \in Jobs /\ job' # NoJob
          /\ job'.who = "attach" /\ job'.c = c /\ job'.g = gen /\ job'.step = "open"
      BY <2>2, JobStarts, Zenon DEF IInv, Lineage
    <3>2. sup \in {"watch", "exit"}
      BY <2>2, Zenon DEF IInv, Lineage, IsReady
    <3> QED
      BY <1>23, <2>2, <3>1, <3>2, Zenon DEF AttachLocks, IInv, Enlisted, Locked, Restored,
         OnCurrent
  <2> QED
    BY <1>23, <2>1, <2>2, Zenon DEF AttachLocks
<1>24. ASSUME NEW c \in Comp, NEW v \in Nat, RecoverTries(c, v) PROVE Locked' /\ Restored'
  <2>1. CASE UNCHANGED job
    BY <1>24, <2>1, Zenon DEF IInv, Locked, Restored, OnCurrent, RecoverTries
  <2>2. CASE IsReady /\ Restores("recover", c, v)
    <3>1. /\ job' \in Jobs /\ job' # NoJob
          /\ job'.who = "recover" /\ job'.c = c /\ job'.g = gen /\ job'.step = "open"
      BY <2>2, JobStarts, Zenon DEF IInv, Lineage
    <3>2. sup \in {"watch", "exit"}
      BY <2>2, Zenon DEF IInv, Lineage, IsReady
    <3> QED
      BY <1>24, <3>1, <3>2, Zenon DEF RecoverTries, IInv, Locked, Restored, OnCurrent
  <2> QED
    BY <1>24, <2>1, <2>2, Zenon DEF RecoverTries
<1>25. ASSUME NEW c \in Comp, NEW v \in Nat, LoopEnds(c, v) \/ ChannelDies(c) PROVE Locked' /\ Restored'
  <2>1. UNCHANGED <<job, sup, gen, ready, comps, todo, att, chanGen, gone>>
    BY <1>25, Zenon DEF LoopEnds, ChannelDies
  <2> QED
    BY <2>1, Zenon DEF IInv, Locked, Restored, OnCurrent
<1>26. CASE ConnDies \/ BusCloses \/ BusFinishes \/ BusCancels \/ BusReturns \/ UNCHANGED vars
  <2>1. UNCHANGED <<job, sup, gen, ready, comps, todo, att, chanGen, gone>>
    BY <1>26, Zenon DEF ConnDies, BusCloses, BusFinishes, BusCancels, BusReturns, vars
  <2> QED
    BY <2>1, Zenon DEF IInv, Locked, Restored, OnCurrent
<1>27. ASSUME NEW c \in Comp, RecoverNext(c) PROVE Locked' /\ Restored'
  BY <1>24, <1>25, <1>27, Zenon DEF RecoverNext, IInv, Enlisted
<1> QED
  BY <1>1, <1>2, <1>3, <1>4, <1>5, <1>6, <1>7, <1>8, <1>9, <1>10, <1>11, <1>12, <1>13, <1>14,
     <1>15, <1>16, <1>17, <1>18, <1>19, <1>20, <1>21, <1>22, <1>23, <1>24, <1>25, <1>26,
     <1>27, Zenon DEF Next, SupNext, RestoreNext, BusNext, AttachNext

\* The invariant holds of every behaviour.
LEMMA Invariance == Spec => []IInv
<1>1. IInv /\ [Next]_vars => IInv'
  BY LineageKeeps, EnlistedKeeps, RestoredKeeps, Zenon DEF IInv
<1> QED
  BY <1>1, InitIInv, PTL DEF Spec

-----------------------------------------------------------------------------
\* Whichever of an attach, a recovery and a reconnection hold restoreMu, and in
\* which order: while the session is ready, no registered component has been
\* left on an older connection.
THEOREM RestoredWhenReady == Spec => []ReadyMeansRestored
<1>1. IInv => ReadyMeansRestored
  BY Zenon DEF IInv, Restored, OnCurrent, ReadyMeansRestored, IsReady
<1> QED
  BY <1>1, Invariance, PTL

\* Neither a reconnection that fails half way nor a Close that races it leaves a
\* connection open, and a closed bus leaves no component that was attached.
THEOREM NothingLeftOpen == Spec => []NoConnLeaks
<1>1. IInv => TypeOK
  BY Zenon DEF IInv, Lineage, Enlisted, Locked, TypeOK
<1>2. ASSUME IInv PROVE OneLineage
  <2>1. gen \in Gens /\ \A g \in Gens : g = gen \/ g < gen \/ g > gen
    BY <1>2, SessionAssumption DEF IInv, Lineage, Gens
  <2> QED
    BY <1>2, <2>1, Zenon DEF IInv, Lineage, OneLineage
<1>3. ASSUME IInv PROVE CloseLeavesNothing
  <2>1. gen \in Gens /\ \A g \in Gens : g = gen \/ g < gen \/ g > gen
    BY <1>3, SessionAssumption DEF IInv, Lineage, Gens
  <2> QED
    BY <1>3, <2>1, Zenon DEF IInv, Lineage, Enlisted, CloseLeavesNothing
<1> QED
  BY <1>1, <1>2, <1>3, Invariance, PTL DEF NoConnLeaks

\* markReady looks at doneErr: no step makes a finished session ready again.
THEOREM FinishedStaysUnready == Spec => NeverReadyAgain
<1>1. [Next]_vars => [done # "no" /\ ~ready => ~ready']_vars
  BY DEF Next, SupNext, RestoreNext, BusNext, AttachNext, RecoverNext, SupNotices,
     SupTellsComponents, SupGivesUp,
         SupDials, SupInstalls, SupLocks, SupRestored, SupDrops, SupChecks, SupAnnounces,
         RestoreOpens, RestoreInstalls,
         RestoreConsumes, RestoreReplies, Recovered, BusFinishes, BusClosesComponent,
         BusCancels, BusClosesConn,
         BusReturns, BusCloses, ConnDies, AttachStarts, AttachWaits, AttachLocks,
         AttachRestored, AttachEnlists,
         LoopEnds, RecoverTries, UserCloses, ChannelDies, vars
<1> QED
  BY <1>1, PTL DEF Spec, NeverReadyAgain
=============================================================================
