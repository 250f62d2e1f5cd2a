------------------------ MODULE StreamingIdleProofs ------------------------
(***************************************************************************)
(* Proofs about the clock that decides which torrents are stopped: marks   *)
(* agree with it, and every ready torrent is on it.                        *)
(***************************************************************************)
EXTENDS StreamingProofs

-----------------------------------------------------------------------------
(* What a step does to the marks and the clock. *)

\* Neither changes; events are only added, and reads whose start has expired
\* are still to stop their torrent.
KeepStep ==
    /\ UNCHANGED <<ready, status, idle>>
    /\ events \subseteq events'
    /\ \A s \in Session :
          pc[s] = "expired" => pc'[s] = "expired" /\ file'[s] = file[s]

ForgetStep(h) == RemoveStep(h) /\ UNCHANGED events

CronStep ==
    /\ UpdateTorrentStatus \/ Tick \/ \E i, k : PauseBetween(i, k)
    /\ UNCHANGED <<pc, file, events>>

ClockStep ==
    \/ KeepStep
    \/ \E e \in events : HandleEvent(e)
    \/ \E h \in Hash : TorrentReady(h) \/ ForgetStep(h)
    \/ CronStep
    \/ ProcessExit

LEMMA SessionNextClock ==
    ASSUME TypeOK, NEW s \in Session, SessionNext(s)
    PROVE  ClockStep
<1>. USE DEF Step
<1>1. ASSUME UNCHANGED clientVars, events \subseteq events',
             pc[s] # "expired",
             \A r \in Session \ {s} : pc'[r] = pc[r] /\ file'[r] = file[r]
      PROVE  ClockStep
  BY <1>1 DEF KeepStep, ClockStep, clientVars
<1>2. ASSUME NEW from, NEW to, NEW emitted, NEW kept,
             StepKeeping(s, from, to, emitted, kept), from # "expired"
      PROVE  ClockStep
  BY <1>1, <1>2 DEF TypeOK, StepKeeping
<1>3. ASSUME NEW h \in Hash, Open(s, h) PROVE ClockStep
  BY <1>1, <1>3 DEF TypeOK, Open, SetFile
<1>4. CASE OpenHidden(s) \/ Release(s)
  BY <1>1, <1>4 DEF TypeOK, OpenHidden, Release, SetFile
<1>5. CASE StartTorrent(s)
  BY <1>5 DEF TypeOK, StartTorrent, Add, KeepStep, ClockStep
<1>6. CASE StopExpired(s)
  <2>1. file[s] \in Hash
    BY <1>6, NotifyType DEF StopExpired
  <2>2. ForgetStep(file[s])
    BY <1>6
    DEF TypeOK, StopExpired, DestroyTorrent, RemoveStep, ForgetStep, InFlight,
        SettingUp, Starting, Waiting
  <2>3. QED
    BY <2>1, <2>2 DEF ClockStep
<1>7. CASE StopExpiredGone(s)
  BY <1>7 DEF StopExpiredGone, ClockStep
<1>8. CASE OpenVisible(s) \/ BeginRead(s) \/ ReadOverLimit(s) \/ ReadWithinLimit(s)
  BY <1>2, <1>8 DEF OpenVisible, BeginRead, ReadOverLimit, ReadWithinLimit
<1>9. CASE FindReady(s) \/ LookupInfo(s) \/ LocateAbsent(s) \/ LocatePending(s)
  BY <1>2, <1>9 DEF FindReady, LookupInfo, LocateAbsent, LocatePending
<1>10. CASE LocateReady(s)
  <2>1. CASE "readyTorrent" \in local[s]
    BY <1>2, <1>10, <2>1 DEF LocateReady
  <2>2. CASE "readyTorrent" \notin local[s]
    BY <1>2, <1>10, <2>2 DEF LocateReady
  <2>3. QED
    BY <2>1, <2>2
<1>11. CASE StartBeaten(s) \/ ExpiredStopped(s) \/ PollReady(s) \/ PollGone(s)
  BY <1>2, <1>11 DEF StartBeaten, ExpiredStopped, PollReady, PollGone
<1>12. CASE PolledTorrent(s) \/ PolledGone(s) \/ FileMissing(s) \/ FileDone(s)
  BY <1>2, <1>12 DEF PolledTorrent, PolledGone, FileMissing, FileDone
<1>13. CASE BeginStream(s) \/ StreamDone(s) \/ StreamCut(s)
  BY <1>2, <1>13 DEF BeginStream, StreamDone, StreamCut
<1>14. CASE StartTimeout(s) \/ PollTimeout(s)
  BY <1>2, <1>14 DEF StartTimeout, PollTimeout
<1>15. QED
  BY <1>3, <1>4, <1>5, <1>6, <1>7, <1>8, <1>9, <1>10, <1>11, <1>12, <1>13, <1>14
  DEF SessionNext, Proceed, Timeout

LEMMA NextClock == TypeOK /\ [Next]_vars => ClockStep
<1>. SUFFICES ASSUME TypeOK, [Next]_vars PROVE ClockStep
  OBVIOUS
<1>1. CASE UNCHANGED <<clientVars, sessionVars>>
  BY <1>1 DEF KeepStep, ClockStep, clientVars, sessionVars
<1>2. CASE \E s \in Session : SessionNext(s)
  BY <1>2, SessionNextClock
<1>3. ASSUME NEW u \in Stopper, StopProceeds(u) \/ \E h \in Hash : RequestStop(u, h)
      PROVE  ClockStep
  <2>1. CASE StopRequested(u)
    <3>1. stopper[u].hash \in Hash
      BY <2>1 DEF TypeOK, StopRequested, StopperStep
    <3>2. ForgetStep(stopper[u].hash)
      BY <2>1, <3>1, DestroyTorrentRemoves DEF StopRequested, DestroyTorrent, ForgetStep
    <3>3. QED
      BY <3>1, <3>2 DEF ClockStep
  <2>2. CASE StopRequestedGone(u)
    BY <2>2 DEF StopRequestedGone, ClockStep
  <2>3. QED
    BY <1>1, <1>3, <2>1, <2>2
    DEF StopProceeds, RequestStop, Hide, StopCalledBack, Show
<1>4. ASSUME NEW w \in Sweep, BeginSweep(w) \/ SweepProceeds(w) PROVE ClockStep
  <2>1. CASE SweepStop(w)
    <3>1. sweep[w].hash \in Hash
      BY <2>1 DEF TypeOK, SweepStop
    <3>2. ForgetStep(sweep[w].hash)
      BY <2>1, <3>1, DestroyTorrentRemoves DEF SweepStop, DestroyTorrent, ForgetStep
    <3>3. QED
      BY <3>1, <3>2 DEF ClockStep
  <2>2. CASE SweepStopGone(w)
    BY <2>2 DEF SweepStopGone, ClockStep
  <2>3. ASSUME NEW i, Walk(w, i) PROVE ClockStep
    BY <2>3 DEF Walk, CronStep, ClockStep, sessionVars
  <2>4. QED
    BY <1>4, <2>1, <2>2, <2>3 DEF BeginSweep, SweepProceeds, SweepStopped
<1>5. CASE RunUpdateTorrentStatus \/ TimePasses
  BY <1>5 DEF RunUpdateTorrentStatus, TimePasses, CronStep, ClockStep, sessionVars
<1>6. CASE Crash
  BY <1>6 DEF Crash, ClockStep
<1>7. CASE Start
  BY <1>1, <1>7 DEF Start
<1>8. CASE UNCHANGED vars
  BY <1>1, <1>8 DEF vars
<1>9. QED
  BY <1>2, <1>3, <1>4, <1>5, <1>6, <1>7, <1>8 DEF Next, ClockStep

-----------------------------------------------------------------------------
(* Marks agree with the clock. *)

LEMMA MarkedStep ==
    ASSUME TypeOK, TypeOK', MarkedIsIdle, ClockStep
    PROVE  MarkedIsIdle'
<1>. USE DEF MarkedIsIdle, IdleFor
<1>1. CASE KeepStep
  BY <1>1 DEF KeepStep
<1>2. ASSUME NEW e \in events, HandleEvent(e) PROVE MarkedIsIdle'
  <2>1. e.hash \in Hash
    BY DEF TypeOK, Event
  <2>2. CASE Touch(e.hash)
    BY <2>1, <2>2 DEF TypeOK, ClientTypeOK, Touch
  <2>3. CASE UNCHANGED <<status, idle>>
    BY <2>3
  <2>4. QED
    BY <1>2, <2>2, <2>3
    DEF HandleEvent, HandleTorrentOpen, HandleTorrentRead, HandleTorrentRelease, clientVars
<1>3. ASSUME NEW h \in Hash, TorrentReady(h) PROVE MarkedIsIdle'
  BY <1>3 DEF TorrentReady, BecomeReady
<1>4. ASSUME NEW h \in Hash, ForgetStep(h) PROVE MarkedIsIdle'
  BY <1>4, SentinelAssumption
  DEF ForgetStep, RemoveStep, Destroy, ForgetFields, TypeOK, ClientTypeOK
<1>5. CASE UpdateTorrentStatus
  BY <1>5, LimitAssumption
  DEF UpdateTorrentStatus, NextStatus, TypeOK, ClientTypeOK, Status
<1>6. CASE Tick
  <2>1. \A h \in Hash : idle[h] # Undefined => idle[h] \in 0..MaxIdle
    BY DEF TypeOK, ClientTypeOK
  <2>2. \A h \in Hash, n \in Nat : IdleFor(h, n) => idle'[h] # Undefined /\ idle'[h] >= n
    BY <1>6, <2>1, MaxIdleType, SentinelAssumption DEF Tick, Aged
  <2>3. QED
    BY <1>6, <2>2, LimitAssumption DEF Tick
<1>7. ASSUME NEW i, NEW k, PauseBetween(i, k) PROVE MarkedIsIdle'
  BY <1>7 DEF PauseBetween
<1>8. CASE ProcessExit
  BY <1>8, SentinelAssumption DEF ProcessExit, ClientLost
<1>9. QED
  BY <1>1, <1>2, <1>3, <1>4, <1>5, <1>6, <1>7, <1>8 DEF ClockStep, CronStep

\* A torrent is only ever marked while it has been idle for that long; every
\* open and read takes the mark away.
THEOREM MarkedStaysIdle == Spec => []MarkedIsIdle
<1>1. Init => MarkedIsIdle
  BY SentinelAssumption DEF Init, ClientInit, MarkedIsIdle
<1>2. TypeOK /\ TypeOK' /\ MarkedIsIdle /\ [Next]_vars => MarkedIsIdle'
  BY NextClock, MarkedStep
<1>3. QED
  BY <1>1, <1>2, TypeCorrect, PTL DEF Spec

-----------------------------------------------------------------------------
(* Every ready torrent is on the clock. *)

LEMMA TimedStep ==
    ASSUME TypeOK, TypeOK', TorrentsInv, ReadyIsTimed, ClockStep
    PROVE  ReadyIsTimed'
<1>. USE DEF ReadyIsTimed
<1>1. CASE KeepStep
  BY <1>1 DEF KeepStep
<1>2. ASSUME NEW e \in events, HandleEvent(e) PROVE ReadyIsTimed'
  <2>1. /\ e.hash \in Hash
        /\ UNCHANGED <<ready, pc, file, torrents>>
        /\ events' = events \ {e}
    BY <1>2
    DEF HandleEvent, HandleTorrentOpen, HandleTorrentRead, HandleTorrentRelease,
        clientVars, TypeOK, Event
  <2>. SUFFICES ASSUME NEW h \in ready
                PROVE  \/ idle'[h] # Undefined
                       \/ \E f \in events' : f.hash = h /\ f.kind = "read"
                       \/ \E s \in Session : file[s] = h /\ pc[s] = "expired"
    BY <2>1
  <2>2. h \in Hash /\ InClient(h)
    BY DEF TypeOK, ClientTypeOK, TorrentsInv, ReadyInClient, InClient
  <2>3. CASE h = e.hash /\ e.kind = "read"
    <3>1. HandleTorrentRead(h)
      BY <1>2, <2>2, <2>3 DEF HandleEvent
    <3>2. idle'[h] = 0
      BY <2>2, <3>1 DEF HandleTorrentRead, Touch, TypeOK, ClientTypeOK
    <3>3. QED
      BY <3>2, SentinelAssumption
  <2>4. CASE ~(h = e.hash /\ e.kind = "read")
    <3>1. \A f \in events : f.hash = h /\ f.kind = "read" => f \in events'
      BY <2>1, <2>4
    <3>2. idle[h] # Undefined => idle'[h] # Undefined
      BY <1>2, <2>1, <2>2, SentinelAssumption
      DEF HandleEvent, HandleTorrentOpen, HandleTorrentRead, HandleTorrentRelease,
          Touch, clientVars, TypeOK, ClientTypeOK
    <3>3. QED
      BY <3>1, <3>2
  <2>5. QED
    BY <2>3, <2>4
<1>3. ASSUME NEW h \in Hash, TorrentReady(h) PROVE ReadyIsTimed'
  <2>1. PICK s \in Session : file[s] = h /\ pc[s] \in {"starting", "expired"}
    BY <1>3 DEF TorrentReady, IsReady, InClient, TorrentsInv, PendingHasStarter
  <2>2. /\ ready' = ready \cup {h}
        /\ UNCHANGED <<idle, file>>
        /\ events \subseteq events'
        /\ \A x \in Session : pc[x] = "expired" => pc'[x] = "expired"
    BY <1>3 DEF TorrentReady, BecomeReady
  <2>3. pc[s] = "starting" => \E e \in events' : e.hash = h /\ e.kind = "read"
    <3>1. SUFFICES ASSUME pc[s] = "starting"
                   PROVE  \E e \in events' : e.hash = h /\ e.kind = "read"
      OBVIOUS
    <3>2. Notify("read", s) \subseteq events'
      BY <1>3, <2>1, <3>1 DEF TorrentReady
    <3>3. QED
      BY <2>1, <3>2 DEF Notify
  <2>4. QED
    BY <2>1, <2>2, <2>3
<1>4. ASSUME NEW h \in Hash, ForgetStep(h) PROVE ReadyIsTimed'
  BY <1>4 DEF ForgetStep, RemoveStep, Destroy, ForgetFields, Waiting, TypeOK, ClientTypeOK
<1>5. CASE CronStep
  <2>1. UNCHANGED <<ready, pc, file, events>>
    BY <1>5 DEF CronStep, UpdateTorrentStatus, PauseBetween, Tick
  <2>2. \A h \in Hash : idle[h] # Undefined => idle'[h] # Undefined
    BY <1>5, SentinelAssumption, MaxIdleType
    DEF CronStep, UpdateTorrentStatus, PauseBetween, Tick, Aged, TypeOK, ClientTypeOK
  <2>3. QED
    <3>1. ready \subseteq Hash
      BY DEF TypeOK, ClientTypeOK
    <3>2. QED
      BY <2>1, <2>2, <3>1
<1>6. CASE ProcessExit
  BY <1>6 DEF ProcessExit, ClientLost
<1>7. QED
  BY <1>1, <1>2, <1>3, <1>4, <1>5, <1>6 DEF ClockStep

\* No ready torrent escapes the cron jobs by having no lastReadDate.
THEOREM ReadyAlwaysTimed == Spec => []ReadyIsTimed
<1>1. Init => ReadyIsTimed
  BY DEF Init, ClientInit, ReadyIsTimed
<1>2. TypeOK /\ TypeOK' /\ TorrentsInv /\ ReadyIsTimed /\ [Next]_vars => ReadyIsTimed'
  BY NextClock, TimedStep
<1>3. QED
  BY <1>1, <1>2, TypeCorrect, TorrentsInvariant, PTL DEF Spec
=============================================================================
