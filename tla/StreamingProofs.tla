-------------------------- MODULE StreamingProofs --------------------------
(***************************************************************************)
(* Machine-checked proofs about Streaming, for any number of torrents,     *)
(* sessions, stop requests and cron runs.                                  *)
(***************************************************************************)
EXTENDS StreamingProperties, TorrentClientProofs, FiniteSetTheorems

-----------------------------------------------------------------------------
(* Type correctness *)

\* Every step of a session that leaves the client alone.
LEMMA StepType ==
    ASSUME TypeOK, NEW s \in Session,
           NEW from \in SessionPC \ {"closed"}, NEW to \in SessionPC \ {"closed"},
           NEW emitted \in SUBSET Event,
           NEW kept \in SUBSET {"readyTorrent", "torrentInfo"},
           StepKeeping(s, from, to, emitted, kept)
    PROVE  TypeOK'
<1>1. ClientTypeOK'
  BY DEF TypeOK, ClientTypeOK, StepKeeping, clientVars
<1>2. QED
  BY <1>1 DEF TypeOK, StepKeeping, otherVars

\* What an open handle emits is an event.
LEMMA NotifyType ==
    ASSUME TypeOK, NEW s \in Session, pc[s] # "closed",
           NEW kind \in {"open", "read", "release"}
    PROVE  /\ file[s] \in Hash
           /\ Notify(kind, s) \in SUBSET Event
  BY DEF TypeOK, Notify, Event

\* Destroying the torrent of anyone's choice.
LEMMA DestroyTorrentType ==
    ASSUME TypeOK, NEW h \in Hash, InClient(h),
           NEW p \in [Session -> SessionPC],
           \A s \in Session : p[s] = "closed" <=> pc[s] = "closed",
           DestroyTorrent(h, p)
    PROVE  /\ ClientTypeOK'
           /\ pc' \in [Session -> SessionPC]
           /\ file' \in [Session -> Hash \cup {Undefined}]
           /\ \A s \in Session : file'[s] = Undefined <=> pc'[s] = "closed"
           /\ local' \in [Session -> SUBSET {"readyTorrent", "torrentInfo"}]
           /\ events' \subseteq Event
<1>1. ClientTypeOK'
  BY DestroyType DEF TypeOK, DestroyTorrent
<1>2. QED
  BY <1>1 DEF TypeOK, DestroyTorrent, SessionPC, Starting

LEMMA ProcessExitType == TypeOK /\ ProcessExit => TypeOK'
<1>1. SUFFICES ASSUME TypeOK, ProcessExit PROVE TypeOK'
  OBVIOUS
<1>2. ClientTypeOK'
  BY <1>1, ClientLostType DEF ProcessExit
<1>3. QED
  BY <1>1, <1>2, SentinelAssumption
  DEF TypeOK, ProcessExit, SessionPC, StopperIdle, SweepIdle

LEMMA SessionNextType ==
    ASSUME TypeOK, NEW s \in Session, SessionNext(s)
    PROVE  TypeOK'
<1>1. ASSUME NEW h \in Hash, Open(s, h) PROVE TypeOK'
  <2>1. ClientTypeOK'
    BY <1>1 DEF TypeOK, ClientTypeOK, Open, clientVars
  <2>2. QED
    BY <1>1, <2>1, SentinelAssumption DEF TypeOK, Open, SetFile, otherVars, SessionPC
<1>2. CASE OpenHidden(s)
  <2>1. ClientTypeOK'
    BY <1>2 DEF TypeOK, ClientTypeOK, OpenHidden, clientVars
  <2>2. QED
    BY <1>2, <2>1 DEF TypeOK, OpenHidden, SetFile, otherVars, SessionPC
<1>3. CASE Release(s)
  <2>1. ClientTypeOK'
    BY <1>3 DEF TypeOK, ClientTypeOK, Release, clientVars
  <2>2. Notify("release", s) \in SUBSET Event
    BY <1>3, NotifyType DEF Release
  <2>3. QED
    BY <1>3, <2>1, <2>2 DEF TypeOK, Release, SetFile, otherVars, SessionPC
<1>4. CASE StartTorrent(s)
  <2>1. ClientTypeOK'
    BY <1>4, AddType, NotifyType DEF TypeOK, StartTorrent
  <2>2. QED
    BY <1>4, <2>1 DEF TypeOK, StartTorrent, otherVars, SessionPC, Starting
<1>5. CASE StopExpired(s)
  <2>1. file[s] \in Hash
    BY <1>5, NotifyType DEF StopExpired
  <2>2. [pc EXCEPT ![s] = "destroying"] \in [Session -> SessionPC]
    BY DEF TypeOK, SessionPC
  <2>3. \A x \in Session :
           [pc EXCEPT ![s] = "destroying"][x] = "closed" <=> pc[x] = "closed"
    BY <1>5 DEF TypeOK, StopExpired
  <2>4. QED
    BY <1>5, <2>1, <2>2, <2>3, DestroyTorrentType DEF TypeOK, StopExpired, otherVars
<1>6. CASE StopExpiredGone(s)
  BY <1>6, ProcessExitType DEF StopExpiredGone
<1>7. ASSUME NEW from \in SessionPC \ {"closed"}, NEW to \in SessionPC \ {"closed"},
             NEW emitted \in {{}, Notify("open", s), Notify("read", s)},
             NEW kept \in SUBSET {"readyTorrent", "torrentInfo"},
             StepKeeping(s, from, to, emitted, kept)
      PROVE  TypeOK'
  <2>1. pc[s] # "closed"
    BY <1>7 DEF StepKeeping
  <2>2. emitted \in SUBSET Event
    BY <1>7, <2>1, NotifyType
  <2>3. QED
    BY <1>7, <2>2, StepType
<1>7a. ASSUME NEW from \in SessionPC \ {"closed"}, NEW to \in SessionPC \ {"closed"},
              NEW emitted \in {{}, Notify("open", s), Notify("read", s)},
              Step(s, from, to, emitted)
       PROVE  TypeOK'
  <2>1. {} \in SUBSET {"readyTorrent", "torrentInfo"}
    OBVIOUS
  <2>2. QED
    BY <1>7, <1>7a, <2>1 DEF Step
<1>. USE DEF SessionPC, SettingUp, Starting
<1>8. CASE OpenVisible(s) \/ BeginRead(s) \/ ReadOverLimit(s) \/ ReadWithinLimit(s)
  BY <1>7a, <1>8 DEF OpenVisible, BeginRead, ReadOverLimit, ReadWithinLimit
<1>9. CASE FindReady(s)
  BY <1>7, <1>9 DEF FindReady
<1>10. CASE LookupInfo(s)
  <2>1. local[s] \in SUBSET {"readyTorrent", "torrentInfo"}
    BY DEF TypeOK
  <2>2. QED
    BY <1>7, <1>10, <2>1 DEF LookupInfo
<1>11. CASE LocateAbsent(s) \/ LocatePending(s)
  BY <1>7a, <1>11 DEF LocateAbsent, LocatePending
<1>12. CASE LocateReady(s)
  <2>1. CASE "readyTorrent" \in local[s]
    BY <1>7a, <1>12, <2>1 DEF LocateReady
  <2>2. CASE "readyTorrent" \notin local[s]
    BY <1>7a, <1>12, <2>2 DEF LocateReady
  <2>3. QED
    BY <2>1, <2>2
<1>13. CASE StartBeaten(s) \/ ExpiredStopped(s) \/ PollReady(s) \/ PollGone(s)
  BY <1>7a, <1>13 DEF StartBeaten, ExpiredStopped, PollReady, PollGone
<1>14. CASE PolledTorrent(s) \/ PolledGone(s) \/ FileMissing(s) \/ FileDone(s)
  BY <1>7a, <1>14 DEF PolledTorrent, PolledGone, FileMissing, FileDone
<1>15. CASE BeginStream(s) \/ Timeout(s) \/ StreamDone(s) \/ StreamCut(s)
  BY <1>7a, <1>15
  DEF BeginStream, Timeout, StartTimeout, PollTimeout, StreamDone, StreamCut
<1>16. QED
  BY <1>1, <1>2, <1>3, <1>4, <1>5, <1>6, <1>8, <1>9, <1>10, <1>11, <1>12,
     <1>13, <1>14, <1>15
  DEF SessionNext, Proceed

LEMMA StopperType ==
    ASSUME TypeOK, NEW u \in Stopper,
           StopProceeds(u) \/ \E h \in Hash : RequestStop(u, h)
    PROVE  TypeOK'
<1>. USE DEF StopperStep, StopperIdle, otherVars, sessionVars
<1>1. ASSUME UNCHANGED <<clientVars, sessionVars, up, sweep>>,
             visible' \subseteq Hash,
             NEW r \in [pc : {"idle", "hide", "stop", "stopping", "show"},
                       hash : Hash \cup {Undefined}],
             r.hash = Undefined <=> r.pc = "idle",
             stopper' = [stopper EXCEPT ![u] = r]
      PROVE  TypeOK'
  <2>1. ClientTypeOK'
    BY <1>1 DEF TypeOK, ClientTypeOK, clientVars
  <2>2. QED
    BY <1>1, <2>1 DEF TypeOK
<1>2. stopper[u].pc # "idle" => stopper[u].hash \in Hash
  BY DEF TypeOK
<1>3. ASSUME NEW h \in Hash, RequestStop(u, h) PROVE TypeOK'
  BY <1>1, <1>3, SentinelAssumption DEF TypeOK, RequestStop
<1>4. CASE Hide(u)
  BY <1>1, <1>2, <1>4 DEF TypeOK, Hide
<1>5. CASE StopRequested(u)
  <2>1. stopper[u].hash \in Hash /\ DestroyTorrent(stopper[u].hash, pc)
    BY <1>2, <1>5 DEF StopRequested
  <2>2. QED
    BY <1>5, <2>1, DestroyTorrentType DEF TypeOK, StopRequested
<1>6. CASE StopRequestedGone(u)
  BY <1>6, ProcessExitType DEF StopRequestedGone
<1>7. CASE StopCalledBack(u)
  BY <1>1, <1>2, <1>7 DEF TypeOK, StopCalledBack
<1>8. CASE Show(u)
  BY <1>1, <1>2, <1>8 DEF TypeOK, Show
<1>9. QED
  BY <1>3, <1>4, <1>5, <1>6, <1>7, <1>8 DEF StopProceeds

LEMMA SweepType ==
    ASSUME TypeOK, NEW w \in Sweep, BeginSweep(w) \/ SweepProceeds(w)
    PROVE  TypeOK'
<1>1. ASSUME NEW i, Walk(w, i) PROVE TypeOK'
  <2>1. ClientTypeOK'
    BY <1>1, PauseBetweenType DEF TypeOK, Walk
  <2>2. \A k \in DOMAIN torrents : k \in Nat /\ torrents[k] \in Hash
    BY DEF TypeOK, ClientTypeOK
  <2>3. QED
    BY <1>1, <2>1, <2>2, SentinelAssumption DEF TypeOK, Walk, SweepIdle, sessionVars
<1>2. CASE SweepStop(w)
  <2>1. sweep[w].hash \in Hash
    BY <1>2 DEF TypeOK, SweepStop
  <2>2. QED
    BY <1>2, <2>1, DestroyTorrentType DEF TypeOK, SweepStop
<1>3. CASE SweepStopGone(w)
  BY <1>3, ProcessExitType DEF SweepStopGone
<1>4. QED
  BY <1>1, <1>2, <1>3 DEF BeginSweep, SweepProceeds, SweepStopped

LEMMA TorrentReadyType ==
    ASSUME TypeOK, NEW h \in Hash, TorrentReady(h)
    PROVE  TypeOK'
<1>1. ClientTypeOK'
  BY BecomeReadyType DEF TypeOK, TorrentReady
<1>2. \A s \in Session : pc[s] = "starting" => Notify("read", s) \subseteq Event
  BY NotifyType
<1>3. events' \subseteq Event
  BY <1>2 DEF TypeOK, TorrentReady
<1>4. QED
  BY <1>1, <1>3 DEF TypeOK, TorrentReady, otherVars, SessionPC

LEMMA HandleEventType ==
    ASSUME TypeOK, NEW e \in events, HandleEvent(e)
    PROVE  TypeOK'
<1>1. e.hash \in Hash
  BY DEF TypeOK, Event
<1>2. CASE UNCHANGED clientVars
  BY <1>2 DEF TypeOK, ClientTypeOK, HandleEvent, clientVars, otherVars
<1>3. CASE \/ HandleTorrentOpen(e.hash) \/ HandleTorrentRead(e.hash)
           \/ HandleTorrentRelease(e.hash)
  <2>1. ClientTypeOK'
    BY <1>1, <1>3, ListenerType DEF TypeOK
  <2>2. QED
    BY <2>1 DEF TypeOK, HandleEvent, otherVars
<1>4. QED
  BY <1>2, <1>3 DEF HandleEvent

LEMMA NextType == TypeOK /\ [Next]_vars => TypeOK'
<1>. SUFFICES ASSUME TypeOK, [Next]_vars PROVE TypeOK'
  OBVIOUS
<1>1. CASE UNCHANGED vars
  BY <1>1 DEF TypeOK, ClientTypeOK, vars, clientVars, sessionVars, otherVars
<1>2. CASE \E s \in Session : SessionNext(s)
  BY <1>2, SessionNextType
<1>3. CASE \E h \in Hash : TorrentReady(h)
  BY <1>3, TorrentReadyType
<1>4. CASE \E e \in events : HandleEvent(e)
  BY <1>4, HandleEventType
<1>5. CASE \E u \in Stopper : StopProceeds(u) \/ \E h \in Hash : RequestStop(u, h)
  BY <1>5, StopperType
<1>6. CASE \E w \in Sweep : BeginSweep(w) \/ SweepProceeds(w)
  BY <1>6, SweepType
<1>7. CASE RunUpdateTorrentStatus
  <2>1. ClientTypeOK'
    BY <1>7, UpdateTorrentStatusType DEF TypeOK, RunUpdateTorrentStatus
  <2>2. QED
    BY <1>7, <2>1 DEF TypeOK, RunUpdateTorrentStatus, sessionVars, otherVars
<1>8. CASE TimePasses
  <2>1. ClientTypeOK'
    BY <1>8, TickType DEF TypeOK, TimePasses
  <2>2. QED
    BY <1>8, <2>1 DEF TypeOK, TimePasses, sessionVars, otherVars
<1>9. CASE Crash
  BY <1>9, ProcessExitType DEF Crash
<1>10. CASE Start
  BY <1>10 DEF TypeOK, ClientTypeOK, Start, clientVars, sessionVars
<1>11. QED
  BY <1>1, <1>2, <1>3, <1>4, <1>5, <1>6, <1>7, <1>8, <1>9, <1>10 DEF Next

\* Every variable keeps its type; a handle has a torrent, and a stop request
\* a name, exactly while it is in use.
THEOREM TypeCorrect == Spec => []TypeOK
<1>1. Init => TypeOK
  BY ClientInitType, SentinelAssumption
  DEF Init, TypeOK, SessionPC, StopperIdle, SweepIdle
<1>2. QED
  BY <1>1, NextType, PTL DEF Spec

-----------------------------------------------------------------------------
(* What a step does to the torrents: the invariants about them need only   *)
(* these six kinds.                                                        *)

Waiting == {"starting", "expired"}

\* The torrents stay; reads that wait for one go on waiting for it.
QuietStep ==
    /\ UNCHANGED <<torrents, ready>>
    /\ \A s \in Session : pc[s] \in Waiting => pc'[s] \in Waiting /\ file'[s] = file[s]
    /\ \A s \in Session : pc'[s] \in InFlight => pc[s] \in InFlight /\ file'[s] = file[s]

AdmitStep(s) ==
    /\ pc[s] = "check"
    /\ InClient(file[s]) \/ ~HasReachedMaxConcurrentReadyTorrents
    /\ pc' = [pc EXCEPT ![s] = "find"]
    /\ UNCHANGED <<torrents, ready, file>>

StartStep(s) ==
    /\ pc[s] = "start"
    /\ ~InClient(file[s])
    /\ torrents' = Append(torrents, file[s])
    /\ pc' = [pc EXCEPT ![s] = "starting"]
    /\ UNCHANGED <<ready, file>>

ReadyStep(h) ==
    /\ InClient(h)
    /\ ready' = ready \cup {h}
    /\ pc' = [s \in Session |-> IF pc[s] = "starting" /\ file[s] = h
                                THEN "file" ELSE pc[s]]
    /\ UNCHANGED <<torrents, file>>

RemoveStep(h) ==
    /\ InClient(h)
    /\ Destroy(h)
    /\ \A s \in Session : pc[s] \in Waiting /\ file[s] # h => pc'[s] = pc[s]
    /\ \A s \in Session : pc'[s] \in InFlight => pc[s] \in InFlight
    /\ UNCHANGED file

ExitStep ==
    /\ torrents' = <<>>
    /\ ready' = {}
    /\ \A s \in Session : pc'[s] = "closed"

TorrentsStep ==
    \/ QuietStep
    \/ \E s \in Session : AdmitStep(s) \/ StartStep(s)
    \/ \E h \in Hash : ReadyStep(h) \/ RemoveStep(h)
    \/ ExitStep

LEMMA DestroyTorrentRemoves ==
    ASSUME TypeOK, NEW h \in Hash, InClient(h), DestroyTorrent(h, pc)
    PROVE  RemoveStep(h)
  BY DEF TypeOK, DestroyTorrent, RemoveStep, Waiting, InFlight, SettingUp, Starting

LEMMA ProcessExitIsExit == ProcessExit => ExitStep
  BY DEF ProcessExit, ClientLost, ExitStep

LEMMA SessionNextTorrents ==
    ASSUME TypeOK, NEW s \in Session, SessionNext(s)
    PROVE  TorrentsStep
<1>. USE DEF Step, InFlight, Waiting, SettingUp, Starting
<1>1. ASSUME NEW h \in Hash, Open(s, h) PROVE QuietStep
  BY <1>1 DEF TypeOK, Open, SetFile, QuietStep, clientVars
<1>2. CASE OpenHidden(s)
  BY <1>2 DEF TypeOK, OpenHidden, SetFile, QuietStep, TorrentsStep, clientVars
<1>3. CASE Release(s)
  BY <1>3 DEF TypeOK, Release, SetFile, QuietStep, TorrentsStep, clientVars
<1>4. CASE StartTorrent(s)
  BY <1>4 DEF StartTorrent, Add, StartStep, TorrentsStep
<1>5. CASE StopExpired(s)
  <2>1. file[s] \in Hash
    BY <1>5, NotifyType DEF StopExpired
  <2>2. RemoveStep(file[s])
    BY <1>5 DEF TypeOK, StopExpired, DestroyTorrent, RemoveStep
  <2>3. QED
    BY <2>1, <2>2 DEF TorrentsStep
<1>6. CASE StopExpiredGone(s)
  BY <1>6, ProcessExitIsExit DEF StopExpiredGone, TorrentsStep
<1>7. CASE ReadWithinLimit(s)
  BY <1>7 DEF ReadWithinLimit, StepKeeping, AdmitStep, TorrentsStep, clientVars
<1>8. ASSUME NEW from, NEW to, NEW emitted, NEW kept,
             StepKeeping(s, from, to, emitted, kept),
             from \in Waiting => to \in Waiting,
             to \in InFlight => from \in InFlight
      PROVE  TorrentsStep
  BY <1>8 DEF TypeOK, StepKeeping, QuietStep, TorrentsStep, clientVars
<1>9. CASE OpenVisible(s) \/ BeginRead(s) \/ ReadOverLimit(s)
  BY <1>8, <1>9 DEF OpenVisible, BeginRead, ReadOverLimit
<1>10. CASE FindReady(s) \/ LookupInfo(s)
  BY <1>8, <1>10 DEF FindReady, LookupInfo
<1>11. CASE LocateAbsent(s) \/ LocatePending(s)
  BY <1>8, <1>11 DEF LocateAbsent, LocatePending
<1>12. CASE LocateReady(s)
  <2>1. CASE "readyTorrent" \in local[s]
    BY <1>8, <1>12, <2>1 DEF LocateReady
  <2>2. CASE "readyTorrent" \notin local[s]
    BY <1>8, <1>12, <2>2 DEF LocateReady
  <2>3. QED
    BY <2>1, <2>2
<1>13. CASE StartBeaten(s) \/ ExpiredStopped(s) \/ PollReady(s) \/ PollGone(s)
  BY <1>8, <1>13 DEF StartBeaten, ExpiredStopped, PollReady, PollGone
<1>14. CASE PolledTorrent(s) \/ PolledGone(s) \/ FileMissing(s) \/ FileDone(s)
  BY <1>8, <1>14 DEF PolledTorrent, PolledGone, FileMissing, FileDone
<1>15. CASE BeginStream(s) \/ StreamDone(s) \/ StreamCut(s)
  BY <1>8, <1>15 DEF BeginStream, StreamDone, StreamCut
<1>16. CASE StartTimeout(s) \/ PollTimeout(s)
  BY <1>8, <1>16 DEF StartTimeout, PollTimeout
<1>7a. QED
  BY <1>1, <1>2, <1>3, <1>4, <1>5, <1>6, <1>7, <1>9, <1>10, <1>11, <1>12,
     <1>13, <1>14, <1>15, <1>16
  DEF SessionNext, Proceed, Timeout, TorrentsStep

LEMMA NextTorrents == TypeOK /\ [Next]_vars => TorrentsStep
<1>. SUFFICES ASSUME TypeOK, [Next]_vars PROVE TorrentsStep
  OBVIOUS
<1>. USE DEF clientVars, sessionVars, otherVars
<1>1. CASE UNCHANGED <<torrents, ready, pc, file>>
  BY <1>1 DEF QuietStep, TorrentsStep
<1>2. CASE \E s \in Session : SessionNext(s)
  BY <1>2, SessionNextTorrents
<1>3. ASSUME NEW h \in Hash, TorrentReady(h) PROVE ReadyStep(h)
  BY <1>3 DEF TorrentReady, BecomeReady, ReadyStep
<1>4. CASE \E e \in events : HandleEvent(e)
  BY <1>1, <1>4
  DEF HandleEvent, HandleTorrentOpen, HandleTorrentRead, HandleTorrentRelease
<1>5. ASSUME NEW u \in Stopper, StopProceeds(u) \/ \E h \in Hash : RequestStop(u, h)
      PROVE  TorrentsStep
  <2>1. CASE StopRequested(u)
    <3>1. stopper[u].hash \in Hash
      BY <2>1 DEF TypeOK, StopRequested, StopperStep
    <3>2. QED
      BY <2>1, <3>1, DestroyTorrentRemoves DEF StopRequested, TorrentsStep
  <2>2. CASE StopRequestedGone(u)
    BY <2>2, ProcessExitIsExit DEF StopRequestedGone, TorrentsStep
  <2>3. QED
    BY <1>1, <1>5, <2>1, <2>2
    DEF StopProceeds, RequestStop, Hide, StopCalledBack, Show
<1>6. ASSUME NEW w \in Sweep, BeginSweep(w) \/ SweepProceeds(w) PROVE TorrentsStep
  <2>1. CASE SweepStop(w)
    <3>1. sweep[w].hash \in Hash
      BY <2>1 DEF TypeOK, SweepStop
    <3>2. QED
      BY <2>1, <3>1, DestroyTorrentRemoves DEF SweepStop, TorrentsStep
  <2>2. CASE SweepStopGone(w)
    BY <2>2, ProcessExitIsExit DEF SweepStopGone, TorrentsStep
  <2>3. QED
    BY <1>1, <1>6, <2>1, <2>2
    DEF BeginSweep, SweepProceeds, SweepStopped, Walk, PauseBetween
<1>7. CASE RunUpdateTorrentStatus \/ TimePasses
  BY <1>1, <1>7 DEF RunUpdateTorrentStatus, UpdateTorrentStatus, TimePasses, Tick
<1>8. CASE Crash
  BY <1>8, ProcessExitIsExit DEF Crash, TorrentsStep
<1>9. CASE Start
  BY <1>1, <1>9 DEF Start
<1>10. CASE UNCHANGED vars
  BY <1>1, <1>10 DEF vars
<1>11. QED
  BY <1>2, <1>3, <1>4, <1>5, <1>6, <1>7, <1>8, <1>9, <1>10 DEF Next, TorrentsStep

-----------------------------------------------------------------------------
(* The torrents: no duplicates, none pending without a read that waits,    *)
(* and the bound on the ready ones.                                        *)

ReadyInClient == ready \subseteq Range(torrents)

\* The places taken: ready torrents, and those reads in flight may yet add.
\* A read is counted from the limit check on, not from its client.add:
\* otherwise the bound is not inductive.
Wanted == {file[s] : s \in {x \in Session : pc[x] \in InFlight}}
PlacesBound ==
    Cardinality(ready \cup Wanted) <= MaxReady + Cardinality(Session) - 1

TorrentsInv ==
    NoDuplicates /\ ReadyInClient /\ PendingHasStarter /\ PlacesBound

\* Sessions have one torrent each; stated for any p and f, so that it can be
\* used before and after a step.
LEMMA FilesOfSessions ==
    ASSUME NEW p \in [Session -> SessionPC],
           NEW f \in [Session -> Hash \cup {Undefined}],
           \A s \in Session : f[s] = Undefined <=> p[s] = "closed"
    PROVE  LET W == {f[s] : s \in {x \in Session : p[x] \in InFlight}} IN
           /\ W \subseteq Hash
           /\ IsFiniteSet(W)
           /\ Cardinality(W) <= Cardinality(Session)
<1> DEFINE S == {x \in Session : p[x] \in InFlight}
           W == {f[s] : s \in S}
           g == [s \in S |-> f[s]]
<1>1. W \subseteq Hash
  BY DEF InFlight, SettingUp, Starting
<1>2. IsFiniteSet(S) /\ Cardinality(S) <= Cardinality(Session)
  BY ActorAssumption, FS_Subset
<1>3. g \in Surjection(S, W)
  BY DEF Surjection
<1>4. IsFiniteSet(W) /\ Cardinality(W) <= Cardinality(S)
  BY <1>2, <1>3, FS_Surjection
<1>5. /\ Cardinality(W) \in Nat /\ Cardinality(S) \in Nat
      /\ Cardinality(Session) \in Nat
  BY <1>2, <1>4, ActorAssumption, FS_CardinalityType
<1>6. QED
  BY <1>1, <1>2, <1>4, <1>5

LEMMA WantedSize ==
    /\ TypeOK => /\ Wanted \subseteq Hash /\ IsFiniteSet(Wanted)
                 /\ Cardinality(Wanted) <= Cardinality(Session)
    /\ TypeOK' => /\ Wanted' \subseteq Hash /\ IsFiniteSet(Wanted')
                  /\ Cardinality(Wanted') <= Cardinality(Session)
  BY FilesOfSessions DEF TypeOK, Wanted

LEMMA PlacesStep ==
    ASSUME TypeOK, TypeOK', TorrentsInv, TorrentsStep
    PROVE  PlacesBound'
<1> DEFINE places == ready \cup Wanted
<1>1. IsFiniteSet(places) /\ IsFiniteSet(places') /\ IsFiniteSet(ready)
  <2>1. places \subseteq Hash /\ places' \subseteq Hash /\ ready \subseteq Hash
    BY WantedSize DEF TypeOK, ClientTypeOK
  <2>2. QED
    BY <2>1, HashAssumption, FS_Subset
<1>2. /\ Cardinality(places) \in Nat /\ Cardinality(places') \in Nat
      /\ Cardinality(ready) \in Nat /\ Cardinality(Session) \in Nat
  BY <1>1, ActorAssumption, FS_CardinalityType
<1>3. ASSUME places' \subseteq places PROVE PlacesBound'
  <2>1. Cardinality(places') <= Cardinality(places)
    BY <1>1, <1>3, FS_Subset
  <2>2. QED
    BY <1>2, <2>1, LimitAssumption DEF TorrentsInv, PlacesBound
<1>4. CASE QuietStep
  BY <1>3, <1>4 DEF QuietStep, Wanted
<1>5. ASSUME NEW s \in Session, AdmitStep(s) PROVE PlacesBound'
  <2>1. Wanted' \subseteq Wanted \cup {file[s]}
    BY <1>5 DEF AdmitStep, Wanted, TypeOK
  <2>2. CASE InClient(file[s])
    <3>1. file[s] \in places
      <4>1. CASE file[s] \in ready
        BY <4>1
      <4>2. CASE file[s] \notin ready
        <5>1. PICK r \in Session : file[r] = file[s] /\ pc[r] \in {"starting", "expired"}
          BY <2>2, <4>2 DEF TorrentsInv, PendingHasStarter, InClient
        <5>2. QED
          BY <5>1 DEF Wanted, InFlight, Starting
      <4>3. QED
        BY <4>1, <4>2
    <3>2. QED
      BY <1>3, <1>5, <2>1, <3>1 DEF AdmitStep
  <2>3. CASE ~HasReachedMaxConcurrentReadyTorrents
    <3>1. Cardinality(ready) <= MaxReady - 1
      BY <1>2, <2>3, LimitAssumption DEF HasReachedMaxConcurrentReadyTorrents
    <3>2. IsFiniteSet(Wanted') /\ Cardinality(Wanted') <= Cardinality(Session)
      BY WantedSize
    <3>3. places' = ready \cup Wanted'
      BY <1>5 DEF AdmitStep
    <3>4. /\ Cardinality(places')
               = Cardinality(ready) + Cardinality(Wanted')
                 - Cardinality(ready \cap Wanted')
          /\ Cardinality(ready \cap Wanted') \in Nat
          /\ Cardinality(Wanted') \in Nat
      <4>1. Cardinality(ready \cup Wanted')
               = Cardinality(ready) + Cardinality(Wanted')
                 - Cardinality(ready \cap Wanted')
        BY <1>1, <3>2, FS_Union
      <4>2. IsFiniteSet(ready \cap Wanted')
        BY <1>1, FS_Subset
      <4>3. QED
        BY <3>2, <3>3, <4>1, <4>2, FS_CardinalityType
    <3>5. Cardinality(places') <= MaxReady + Cardinality(Session) - 1
      BY <1>2, <3>1, <3>2, <3>4, LimitAssumption
    <3>6. QED
      BY <3>5 DEF PlacesBound
  <2>4. QED
    BY <1>5, <2>2, <2>3 DEF AdmitStep
<1>6. ASSUME NEW s \in Session, StartStep(s) PROVE PlacesBound'
  BY <1>3, <1>6 DEF StartStep, Wanted, InFlight, SettingUp, Starting, TypeOK
<1>7. ASSUME NEW h \in Hash, ReadyStep(h) PROVE PlacesBound'
  <2>1. h \in places
    <3>1. CASE h \in ready
      BY <3>1
    <3>2. CASE h \notin ready
      BY <1>7, <3>2
      DEF ReadyStep, InClient, TorrentsInv, PendingHasStarter, Wanted, InFlight, Starting
    <3>3. QED
      BY <3>1, <3>2
  <2>2. Wanted' \subseteq Wanted
    BY <1>7 DEF ReadyStep, Wanted, InFlight, SettingUp, Starting
  <2>3. QED
    BY <1>3, <1>7, <2>1, <2>2 DEF ReadyStep
<1>8. ASSUME NEW h \in Hash, RemoveStep(h) PROVE PlacesBound'
  BY <1>3, <1>8 DEF RemoveStep, Destroy, Wanted
<1>9. CASE ExitStep
  BY <1>3, <1>9 DEF ExitStep, Wanted, InFlight, SettingUp, Starting
<1>10. QED
  BY <1>4, <1>5, <1>6, <1>7, <1>8, <1>9 DEF TorrentsStep

LEMMA AppendRange ==
    ASSUME torrents \in Seq(Hash), NEW h \in Hash, torrents' = Append(torrents, h)
    PROVE  /\ Range(torrents') = Range(torrents) \cup {h}
           /\ NoDuplicates /\ ~InClient(h) => NoDuplicates'
<1>1. /\ torrents' \in Seq(Hash) /\ Len(torrents') = Len(torrents) + 1
      /\ \A i \in 1..(Len(torrents) + 1) :
            torrents'[i] = IF i <= Len(torrents) THEN torrents[i] ELSE h
  OBVIOUS
<1>2. NoDuplicates /\ ~InClient(h) => NoDuplicates'
  BY <1>1 DEF NoDuplicates, InClient, Range
<1>3. Range(torrents') \subseteq Range(torrents) \cup {h}
  BY <1>1 DEF Range
<1>4. h \in Range(torrents')
  <2>1. torrents'[Len(torrents) + 1] = h /\ Len(torrents) + 1 \in DOMAIN torrents'
    BY <1>1
  <2>2. QED
    BY <2>1 DEF Range
<1>5. Range(torrents) \subseteq Range(torrents')
  BY <1>1 DEF Range
<1>6. QED
  BY <1>2, <1>3, <1>4, <1>5

LEMMA TorrentsInvStep ==
    ASSUME TypeOK, TypeOK', TorrentsInv, TorrentsStep
    PROVE  TorrentsInv'
<1> DEFINE Others == NoDuplicates /\ ReadyInClient /\ PendingHasStarter
<1>1. ASSUME QuietStep PROVE Others'
  BY <1>1
  DEF QuietStep, TorrentsInv, NoDuplicates, ReadyInClient, PendingHasStarter, Waiting
<1>2. ASSUME NEW s \in Session, AdmitStep(s) PROVE Others'
  BY <1>2
  DEF AdmitStep, TorrentsInv, NoDuplicates, ReadyInClient, PendingHasStarter, TypeOK
<1>3. ASSUME NEW s \in Session, StartStep(s) PROVE Others'
  <2>1. file[s] \in Hash
    BY <1>3 DEF StartStep, TypeOK
  <2>2. Range(torrents') = Range(torrents) \cup {file[s]} /\ NoDuplicates'
    BY <1>3, <2>1, AppendRange DEF StartStep, TorrentsInv, TypeOK, ClientTypeOK
  <2>3. ReadyInClient'
    BY <1>3, <2>2 DEF StartStep, TorrentsInv, ReadyInClient
  <2>4. PendingHasStarter'
    BY <1>3, <2>2 DEF StartStep, TorrentsInv, PendingHasStarter, TypeOK
  <2>5. QED
    BY <2>2, <2>3, <2>4
<1>4. ASSUME NEW h \in Hash, ReadyStep(h) PROVE Others'
  BY <1>4
  DEF ReadyStep, TorrentsInv, NoDuplicates, ReadyInClient, PendingHasStarter, InClient
<1>5. ASSUME NEW h \in Hash, RemoveStep(h) PROVE Others'
  <2>1. Range(torrents') = Range(torrents) \ {h} /\ NoDuplicates'
    BY <1>5, DestroyRange
    DEF RemoveStep, TorrentsInv, NoDuplicates, TypeOK, ClientTypeOK
  <2>2. ready' = ready \ {h}
    BY <1>5 DEF RemoveStep, Destroy
  <2>3. QED
    BY <1>5, <2>1, <2>2
    DEF RemoveStep, TorrentsInv, ReadyInClient, PendingHasStarter, Waiting
<1>6. ASSUME ExitStep PROVE Others'
  BY <1>6 DEF ExitStep, NoDuplicates, ReadyInClient, PendingHasStarter, Range
<1>7. QED
  BY <1>1, <1>2, <1>3, <1>4, <1>5, <1>6, PlacesStep DEF TorrentsStep, TorrentsInv

LEMMA TorrentsInvInit == Init => TorrentsInv
<1>. SUFFICES ASSUME Init PROVE TorrentsInv
  OBVIOUS
<1>1. NoDuplicates /\ ReadyInClient /\ PendingHasStarter
  BY DEF Init, ClientInit, NoDuplicates, ReadyInClient, PendingHasStarter, Range
<1>2. ready \cup Wanted = {}
  BY DEF Init, ClientInit, Wanted, InFlight, SettingUp, Starting
<1>3. Cardinality(Session) \in Nat /\ Cardinality(Session) # 0
  BY ActorAssumption, FS_CardinalityType, FS_EmptySet
<1>4. QED
  BY <1>1, <1>2, <1>3, LimitAssumption, FS_EmptySet DEF TorrentsInv, PlacesBound

\* The conjunction is inductive.
THEOREM TorrentsInvariant == Spec => []TorrentsInv
<1>1. TypeOK /\ TypeOK' /\ TorrentsInv /\ [Next]_vars => TorrentsInv'
  BY NextTorrents, TorrentsInvStep
<1>2. QED
  BY <1>1, TorrentsInvInit, TypeCorrect, PTL DEF Spec

\* No torrent is added to the client twice.
THEOREM NeverDuplicate == Spec => []NoDuplicates
<1>1. TorrentsInv => NoDuplicates
  BY DEF TorrentsInv
<1>2. QED
  BY <1>1, TorrentsInvariant, PTL

\* A torrent without metadata always has a read that will stop it.
THEOREM PendingAlwaysHasStarter == Spec => []PendingHasStarter
<1>1. TorrentsInv => PendingHasStarter
  BY DEF TorrentsInv
<1>2. QED
  BY <1>1, TorrentsInvariant, PTL

\* However many torrents there are, the limit is exceeded by less than the
\* number of file handles.
THEOREM ReadyIsBounded == Spec => []ReadyBound
<1>1. TypeOK /\ TorrentsInv => ReadyBound
  <2>. SUFFICES ASSUME TypeOK, TorrentsInv PROVE ReadyBound
    OBVIOUS
  <2>1. IsFiniteSet(ready \cup Wanted)
    BY HashAssumption, WantedSize, FS_Subset DEF TypeOK, ClientTypeOK
  <2>2. /\ Cardinality(ready) <= Cardinality(ready \cup Wanted)
        /\ Cardinality(ready) \in Nat /\ Cardinality(ready \cup Wanted) \in Nat
    BY <2>1, FS_Subset, FS_CardinalityType
  <2>3. Cardinality(Session) \in Nat
    BY ActorAssumption, FS_CardinalityType
  <2>4. QED
    BY <2>2, <2>3, LimitAssumption DEF TorrentsInv, PlacesBound, ReadyBound
<1>2. QED
  BY <1>1, TypeCorrect, TorrentsInvariant, PTL

-----------------------------------------------------------------------------
(* Streaming implements TorrentPool. *)

\* Sessions whose read does not go on with its torrent let go of it.
LEMMA PoolRelease ==
    ASSUME \A s \in Session : pc'[s] \in InFlight => pc[s] \in InFlight /\ file'[s] = file[s]
    PROVE  Pool!Release({s \in Session : pc'[s] \notin InFlight})
  BY DEF Pool!Release

LEMMA PoolWanted ==
    ASSUME NEW s \in Session, pc[s] \in InFlight
    PROVE  Pool!Wanted(file[s])
  BY DEF Pool!Wanted

LEMMA PoolStep ==
    ASSUME TypeOK, TypeOK', TorrentsInv, TorrentsStep
    PROVE  Pool!Next
<1> DEFINE gone == {s \in Session : pc'[s] \notin InFlight}
<1>0. gone \in SUBSET Session
  OBVIOUS
<1>r. ASSUME \A s \in Session : pc'[s] \in InFlight => pc[s] \in InFlight /\ file'[s] = file[s]
      PROVE  Pool!Release(gone)
  BY <1>r, PoolRelease
<1>s. ASSUME \A s \in Session : pc'[s] \notin InFlight
      PROVE  gone = Session
  BY <1>s
<1> HIDE DEF gone
<1>1. CASE QuietStep
  <2>1. Pool!Release(gone)
    BY <1>1, <1>r DEF QuietStep
  <2>2. Pool!GiveUp(gone)
    BY <1>1, <2>1 DEF QuietStep, Pool!GiveUp
  <2>3. QED
    BY <1>0, <2>2 DEF Pool!Next, Pool!Release, Pool!GiveUp
<1>2. ASSUME NEW s \in Session, AdmitStep(s) PROVE Pool!Next
  <2>1. file[s] \in Hash
    BY <1>2 DEF AdmitStep, TypeOK
  <2>2. "check" \notin InFlight /\ "find" \in InFlight
    BY DEF InFlight, SettingUp, Starting
  <2>3. Pool!Cardinality(ready) = Cardinality(ready)
    BY DEF Pool!Cardinality, Cardinality
  <2>4. Cardinality(ready) \in Nat
    BY HashAssumption, FS_Subset, FS_CardinalityType DEF TypeOK, ClientTypeOK
  <2>5. file[s] \in Range(torrents) \/ Pool!Cardinality(ready) < MaxReady
    BY <1>2, <2>3, <2>4, LimitAssumption
    DEF AdmitStep, InClient, HasReachedMaxConcurrentReadyTorrents
  <2>6. Pool!Admit(s, file[s])
    <3>1. pc \in [Session -> SessionPC] /\ pc' = [pc EXCEPT ![s] = "find"]
      BY <1>2 DEF AdmitStep, TypeOK
    <3>2. pc[s] = "check" /\ UNCHANGED <<torrents, ready, file>>
      BY <1>2 DEF AdmitStep
    <3>3. QED
      BY <2>2, <2>5, <3>1, <3>2 DEF Pool!Admit
  <2>7. QED
    BY <2>1, <2>6 DEF Pool!Next, Pool!Admit
<1>3. ASSUME NEW s \in Session, StartStep(s) PROVE Pool!Next
  <2>1. file[s] \in Hash
    BY <1>3 DEF StartStep, TypeOK
  <2>2. "start" \in InFlight /\ "starting" \in InFlight
    BY DEF InFlight, SettingUp, Starting
  <2>3. Pool!Wanted(file[s])
    BY <1>3, <2>2, PoolWanted DEF StartStep
  <2>4. Range(torrents') = Range(torrents) \cup {file[s]}
    BY <1>3, <2>1, AppendRange DEF StartStep, TypeOK, ClientTypeOK
  <2>5. Pool!Add(file[s])
    BY <1>3, <2>2, <2>3, <2>4 DEF StartStep, TypeOK, Pool!Add, InClient
  <2>6. QED
    BY <2>1, <2>5 DEF Pool!Next, Pool!Add
<1>4. ASSUME NEW h \in Hash, ReadyStep(h) PROVE Pool!Next
  <2>1. \A s \in Session : pc'[s] \in InFlight => pc[s] \in InFlight /\ file'[s] = file[s]
    BY <1>4 DEF ReadyStep, InFlight, SettingUp, Starting
  <2>2. Pool!Release(gone)
    BY <2>1, <1>r
  <2>3. CASE h \in ready
    <3>1. Pool!GiveUp(gone)
      BY <1>4, <2>2, <2>3 DEF ReadyStep, Pool!GiveUp
    <3>2. QED
      BY <1>0, <3>1 DEF Pool!Next, Pool!Release, Pool!GiveUp
  <2>4. CASE h \notin ready
    <3>1. PICK s \in Session : file[s] = h /\ pc[s] \in {"starting", "expired"}
      BY <1>4, <2>4 DEF ReadyStep, InClient, TorrentsInv, PendingHasStarter
    <3>2. Pool!Wanted(h)
      BY <3>1, PoolWanted DEF InFlight, Starting
    <3>3. Pool!BecomeReady(h, gone)
      BY <1>4, <2>2, <2>4, <3>2 DEF ReadyStep, InClient, Pool!BecomeReady
    <3>4. QED
      BY <1>0, <3>3 DEF Pool!Next, Pool!Release, Pool!BecomeReady
  <2>5. QED
    BY <2>3, <2>4
<1>5. ASSUME NEW h \in Hash, RemoveStep(h) PROVE Pool!Next
  <2>1. Pool!Release(gone)
    BY <1>5, <1>r DEF RemoveStep
  <2>2. Range(torrents') = Range(torrents) \ {h}
    BY <1>5, DestroyRange DEF RemoveStep, TorrentsInv, NoDuplicates, TypeOK, ClientTypeOK
  <2>3. Pool!Remove(h, gone)
    BY <1>5, <2>1, <2>2 DEF RemoveStep, Destroy, InClient, Pool!Remove
  <2>4. QED
    BY <1>0, <2>3 DEF Pool!Next, Pool!Release, Pool!Remove
<1>6. CASE ExitStep
  <2>1. gone = Session
    BY <1>6, <1>s DEF ExitStep, InFlight, SettingUp, Starting
  <2>2. Pool!Release(gone)
    BY <1>6, <1>r DEF ExitStep, InFlight, SettingUp, Starting
  <2>3. Range(torrents') = {}
    BY <1>6 DEF ExitStep, Range
  <2>4. Pool!Exit
    BY <1>6, <2>1, <2>2, <2>3 DEF ExitStep, Pool!Exit, Pool!Release
  <2>5. QED
    BY <2>4 DEF Pool!Next
<1>7. QED
  BY <1>1, <1>2, <1>3, <1>4, <1>5, <1>6 DEF TorrentsStep

\* The detailed specification implements the abstract one: whatever the read
\* path, the stops and the cron jobs do, they treat the limit like the pool.
THEOREM PoolImplemented == Spec => ImplementsPool
<1>1. Init => Pool!Init
  <2>. SUFFICES ASSUME Init PROVE Pool!Init
    OBVIOUS
  <2>1. \A s \in Session : pc[s] \notin InFlight
    BY DEF Init, InFlight, SettingUp, Starting
  <2>2. Range(torrents) = {} /\ ready = {}
    BY DEF Init, ClientInit, Range
  <2>3. QED
    BY <2>1, <2>2 DEF Pool!Init
<1>2. TypeOK /\ TypeOK' /\ TorrentsInv /\ [Next]_vars => [Pool!Next]_Pool!vars
  BY NextTorrents, PoolStep
<1>3. QED
  BY <1>1, <1>2, TypeCorrect, TorrentsInvariant, PTL DEF Spec, ImplementsPool, Pool!Spec
=============================================================================
