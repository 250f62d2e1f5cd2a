------------------------ MODULE StreamingReadsProofs ------------------------
(***************************************************************************)
(* Proofs about activeReads, the number of readers the web page shows:     *)
(* opens and releases reach it as events, in any order between handles,    *)
(* and it never counts more than one reader too many.                      *)
(***************************************************************************)
EXTENDS StreamingProofs

\* The listener of this event of s has still to run.
Pending(kind, s, h) == [kind |-> kind, by |-> s, hash |-> h] \in events

\* The handles whose open has been counted and whose release has not.
Counted(h) ==
    {s \in Session :
        \/ file[s] = h /\ pc[s] # "opening" /\ ~Pending("open", s, h)
        \/ Pending("release", s, h)}

\* An open that is still to be counted is that of the present handle; with a
\* release still to be counted there is no handle.
EventsMatch ==
    \A s \in Session, h \in Hash :
        /\ Pending("open", s, h) => file[s] = h /\ pc[s] # "opening"
        /\ Pending("release", s, h) => file[s] = Undefined

\* The count against those that were counted; the one is the first open's,
\* which finds no count and adds two.
CountedBound ==
    \A h \in Hash :
        activeReads[h] \in Int => activeReads[h] <= Cardinality(Counted(h)) + 1

\* A count goes with its torrent.
CountInClient == \A h \in Hash : ~InClient(h) => activeReads[h] = Undefined

ReadsInv == EventsMatch /\ CountedBound /\ CountInClient

-----------------------------------------------------------------------------
(* What a step does to handles, their events and the count. *)

\* None of them changes, but for counts that are lost with their torrent.
SameCounts ==
    /\ UNCHANGED file
    /\ \A s \in Session : pc'[s] = "opening" <=> pc[s] = "opening"
    /\ \A s \in Session, h \in Hash, kind \in {"open", "release"} :
          Pending(kind, s, h)' <=> Pending(kind, s, h)
    /\ \A h \in Hash :
          /\ activeReads'[h] \in {activeReads[h], Undefined}
          /\ InClient(h) /\ ~InClient(h)' => activeReads'[h] = Undefined

ReadsStep ==
    \/ SameCounts
    \/ \E s \in Session :
          \/ \E h \in Hash : Open(s, h)
          \/ OpenHidden(s) \/ OpenVisible(s) \/ Release(s)
    \/ \E e \in events : HandleEvent(e)
    \/ ProcessExit

LEMMA DestroySameCounts ==
    ASSUME TypeOK, NoDuplicates, NEW h \in Hash, InClient(h),
           NEW p \in [Session -> SessionPC],
           \A s \in Session : p[s] = "opening" <=> pc[s] = "opening",
           DestroyTorrent(h, p)
    PROVE  SameCounts
<1>1. \A s \in Session : pc'[s] = "opening" <=> p[s] = "opening"
  BY DEF DestroyTorrent
<1>2. \A g \in Hash : activeReads'[g] \in {activeReads[g], Undefined}
  BY DEF DestroyTorrent, Destroy, ForgetFields, TypeOK, ClientTypeOK
<1>3. \A g \in Hash : InClient(g) /\ ~InClient(g)' => activeReads'[g] = Undefined
  <2>1. Range(torrents') = Range(torrents) \ {h}
    BY DestroyRange DEF DestroyTorrent, TypeOK, ClientTypeOK, NoDuplicates
  <2>2. activeReads'[h] = Undefined
    BY DEF DestroyTorrent, Destroy, ForgetFields, TypeOK, ClientTypeOK
  <2>3. QED
    BY <2>1, <2>2 DEF InClient
<1>4. QED
  BY <1>1, <1>2, <1>3 DEF DestroyTorrent, SameCounts, Pending

LEMMA SessionNextReads ==
    ASSUME TypeOK, NoDuplicates, NEW s \in Session, SessionNext(s)
    PROVE  ReadsStep
<1>. USE DEF Step
<1>1. ASSUME NEW from, NEW to, NEW emitted, NEW kept,
             StepKeeping(s, from, to, emitted, kept),
             from # "opening", to # "opening", emitted \in {{}, Notify("read", s)}
      PROVE  ReadsStep
  <2>1. \A r \in Session : pc'[r] = "opening" <=> pc[r] = "opening"
    BY <1>1 DEF TypeOK, StepKeeping
  <2>2. \A r \in Session, h \in Hash, kind \in {"open", "release"} :
            [kind |-> kind, by |-> r, hash |-> h] \notin emitted
    <3>1. \A e \in emitted : e.kind = "read"
      BY <1>1 DEF Notify
    <3>2. QED
      BY <3>1
  <2>3. events' = events \cup emitted /\ UNCHANGED <<file, torrents, activeReads>>
    BY <1>1 DEF StepKeeping, clientVars
  <2>4. SameCounts
    BY <2>1, <2>2, <2>3 DEF SameCounts, Pending, InClient
  <2>5. QED
    BY <2>4 DEF ReadsStep
<1>2. CASE \/ \E h \in Hash : Open(s, h)
           \/ OpenHidden(s) \/ OpenVisible(s) \/ Release(s)
  BY <1>2 DEF ReadsStep
<1>3. CASE StartTorrent(s)
  <2>1. file[s] \in Hash
    BY <1>3, NotifyType DEF StartTorrent
  <2>2. Range(torrents') = Range(torrents) \cup {file[s]}
    BY <1>3, <2>1, AppendRange DEF StartTorrent, Add, TypeOK, ClientTypeOK
  <2>3. SameCounts
    BY <1>3, <2>2 DEF StartTorrent, Add, SameCounts, Pending, InClient, TypeOK
  <2>4. QED
    BY <2>3 DEF ReadsStep
<1>4. CASE StopExpired(s)
  <2>1. file[s] \in Hash
    BY <1>4, NotifyType DEF StopExpired
  <2>2. [pc EXCEPT ![s] = "destroying"] \in [Session -> SessionPC]
    BY DEF TypeOK, SessionPC
  <2>3. \A r \in Session : [pc EXCEPT ![s] = "destroying"][r] = "opening" <=> pc[r] = "opening"
    BY <1>4 DEF TypeOK, StopExpired
  <2>4. SameCounts
    BY <1>4, <2>1, <2>2, <2>3, DestroySameCounts DEF StopExpired
  <2>5. QED
    BY <2>4 DEF ReadsStep
<1>5. CASE StopExpiredGone(s)
  BY <1>5 DEF StopExpiredGone, ReadsStep
<1>6. CASE BeginRead(s) \/ ReadOverLimit(s) \/ ReadWithinLimit(s)
  BY <1>1, <1>6 DEF BeginRead, ReadOverLimit, ReadWithinLimit
<1>7. CASE FindReady(s) \/ LookupInfo(s) \/ LocateAbsent(s) \/ LocatePending(s)
  BY <1>1, <1>7 DEF FindReady, LookupInfo, LocateAbsent, LocatePending
<1>8. CASE LocateReady(s)
  <2>1. CASE "readyTorrent" \in local[s]
    BY <1>1, <1>8, <2>1 DEF LocateReady
  <2>2. CASE "readyTorrent" \notin local[s]
    BY <1>1, <1>8, <2>2 DEF LocateReady
  <2>3. QED
    BY <2>1, <2>2
<1>9. CASE StartBeaten(s) \/ ExpiredStopped(s) \/ PollReady(s) \/ PollGone(s)
  BY <1>1, <1>9 DEF StartBeaten, ExpiredStopped, PollReady, PollGone
<1>10. CASE PolledTorrent(s) \/ PolledGone(s) \/ FileMissing(s) \/ FileDone(s)
  BY <1>1, <1>10 DEF PolledTorrent, PolledGone, FileMissing, FileDone
<1>11. CASE BeginStream(s) \/ StreamDone(s) \/ StreamCut(s)
  BY <1>1, <1>11 DEF BeginStream, StreamDone, StreamCut
<1>12. CASE StartTimeout(s) \/ PollTimeout(s)
  BY <1>1, <1>12 DEF StartTimeout, PollTimeout
<1>13. QED
  BY <1>2, <1>3, <1>4, <1>5, <1>6, <1>7, <1>8, <1>9, <1>10, <1>11, <1>12
  DEF SessionNext, Proceed, Timeout

LEMMA NextReads == TypeOK /\ NoDuplicates /\ [Next]_vars => ReadsStep
<1>. SUFFICES ASSUME TypeOK, NoDuplicates, [Next]_vars PROVE ReadsStep
  OBVIOUS
<1>1. CASE UNCHANGED <<file, pc, events, torrents, activeReads>>
  BY <1>1 DEF SameCounts, Pending, InClient, ReadsStep
<1>2. ASSUME NEW h \in Hash, InClient(h), DestroyTorrent(h, pc) PROVE ReadsStep
  BY <1>2, DestroySameCounts DEF TypeOK, ReadsStep
<1>3. CASE \E s \in Session : SessionNext(s)
  BY <1>3, SessionNextReads
<1>4. ASSUME NEW h \in Hash, TorrentReady(h) PROVE ReadsStep
  <2>1. \A s \in Session : pc'[s] = "opening" <=> pc[s] = "opening"
    BY <1>4 DEF TorrentReady
  <2>2. \A e \in events' : e \in events \/ e.kind = "read"
    BY <1>4 DEF TorrentReady, Notify
  <2>3. \A s \in Session, g \in Hash, kind \in {"open", "release"} :
            Pending(kind, s, g)' <=> Pending(kind, s, g)
    <3>1. events \subseteq events'
      BY <1>4 DEF TorrentReady
    <3>2. QED
      BY <2>2, <3>1 DEF Pending
  <2>4. SameCounts
    BY <1>4, <2>1, <2>3 DEF TorrentReady, BecomeReady, SameCounts, InClient
  <2>5. QED
    BY <2>4 DEF ReadsStep
<1>5. ASSUME NEW e \in events, HandleEvent(e) PROVE ReadsStep
  BY <1>5 DEF ReadsStep
<1>6. ASSUME NEW u \in Stopper, StopProceeds(u) \/ \E h \in Hash : RequestStop(u, h)
      PROVE  ReadsStep
  <2>1. CASE StopRequested(u)
    <3>1. stopper[u].hash \in Hash
      BY <2>1 DEF TypeOK, StopRequested, StopperStep
    <3>2. QED
      BY <2>1, <3>1, <1>2 DEF StopRequested
  <2>2. CASE StopRequestedGone(u)
    BY <2>2 DEF StopRequestedGone, ReadsStep
  <2>3. QED
    BY <1>1, <1>6, <2>1, <2>2
    DEF StopProceeds, RequestStop, Hide, StopCalledBack, Show, clientVars, sessionVars
<1>7. ASSUME NEW w \in Sweep, BeginSweep(w) \/ SweepProceeds(w) PROVE ReadsStep
  <2>1. CASE SweepStop(w)
    <3>1. sweep[w].hash \in Hash
      BY <2>1 DEF TypeOK, SweepStop
    <3>2. QED
      BY <2>1, <3>1, <1>2 DEF SweepStop
  <2>2. CASE SweepStopGone(w)
    BY <2>2 DEF SweepStopGone, ReadsStep
  <2>3. ASSUME NEW i, Walk(w, i) PROVE ReadsStep
    BY <1>1, <2>3 DEF Walk, PauseBetween, sessionVars
  <2>4. QED
    BY <1>7, <2>1, <2>2, <2>3 DEF BeginSweep, SweepProceeds, SweepStopped
<1>8. CASE RunUpdateTorrentStatus \/ TimePasses \/ Start
  BY <1>1, <1>8
  DEF RunUpdateTorrentStatus, UpdateTorrentStatus, TimePasses, Tick, Start, clientVars,
      sessionVars
<1>9. CASE Crash
  BY <1>9 DEF Crash, ReadsStep
<1>10. CASE UNCHANGED vars
  BY <1>1, <1>10 DEF vars, clientVars, sessionVars
<1>11. QED
  BY <1>3, <1>4, <1>5, <1>6, <1>7, <1>8, <1>9, <1>10 DEF Next

-----------------------------------------------------------------------------
(* Counting *)

LEMMA CountedFinite ==
    ASSUME NEW h
    PROVE  /\ IsFiniteSet(Counted(h)) /\ Cardinality(Counted(h)) \in Nat
           /\ IsFiniteSet(Counted(h)') /\ Cardinality(Counted(h)') \in Nat
<1>1. Counted(h) \subseteq Session /\ Counted(h)' \subseteq Session
  BY DEF Counted
<1>2. QED
  BY <1>1, ActorAssumption, FS_Subset, FS_CardinalityType

\* The bound goes on when the counted handles stay or become more and the
\* count stays or is lost.
LEMMA BoundKept ==
    ASSUME TypeOK, CountedBound,
           \A h \in Hash : Counted(h) \subseteq Counted(h)',
           \A h \in Hash : activeReads'[h] \in {activeReads[h], Undefined}
    PROVE  CountedBound'
<1>. SUFFICES ASSUME NEW h \in Hash, activeReads'[h] \in Int
              PROVE  activeReads'[h] <= Cardinality(Counted(h)') + 1
  BY DEF CountedBound
<1>1. activeReads'[h] = activeReads[h]
  BY SentinelAssumption
<1>2. Cardinality(Counted(h)) <= Cardinality(Counted(h)')
  BY CountedFinite, FS_Subset
<1>3. QED
  BY <1>1, <1>2, CountedFinite DEF CountedBound

LEMMA EventReads ==
    ASSUME TypeOK, ReadsInv, NEW e \in events, HandleEvent(e)
    PROVE  ReadsInv'
<1>. USE DEF ReadsInv
<1>1. /\ e \in Event /\ e.by \in Session /\ e.hash \in Hash
      /\ e = [kind |-> e.kind, by |-> e.by, hash |-> e.hash]
  BY DEF TypeOK, Event
<1>2. UNCHANGED <<file, pc>> /\ events' = events \ {e}
  BY DEF HandleEvent
<1>3. EventsMatch'
  BY <1>2 DEF EventsMatch, Pending
<1>3a. CountInClient'
  <2>1. \A h \in Hash : ~InClient(h) => activeReads'[h] = activeReads[h]
    BY <1>1
    DEF HandleEvent, HandleTorrentOpen, HandleTorrentRead, HandleTorrentRelease,
        clientVars, TypeOK, ClientTypeOK
  <2>2. UNCHANGED torrents
    BY DEF HandleEvent, HandleTorrentOpen, HandleTorrentRead, HandleTorrentRelease, clientVars
  <2>3. QED
    BY <2>1, <2>2 DEF CountInClient, InClient
<1>4. \A s \in Session, h \in Hash, kind \in {"open", "release"} :
          Pending(kind, s, h)' <=>
              Pending(kind, s, h) /\ ~(kind = e.kind /\ s = e.by /\ h = e.hash)
  BY <1>1, <1>2 DEF Pending
<1>5. CASE UNCHANGED activeReads /\ e.kind # "release"
  <2>1. \A h \in Hash : Counted(h) \subseteq Counted(h)'
    BY <1>2, <1>4, <1>5 DEF Counted
  <2>2. QED
    BY <1>3a, <1>3, <1>5, <2>1, BoundKept
<1>6. CASE e.kind = "open" /\ HandleTorrentOpen(e.hash)
  <2>1. e.by \notin Counted(e.hash)
    <3>1. Pending("open", e.by, e.hash)
      BY <1>1, <1>6 DEF Pending
    <3>2. file[e.by] = e.hash
      BY <1>1, <3>1 DEF EventsMatch
    <3>3. ~Pending("release", e.by, e.hash)
      BY <1>1, <3>2, SentinelAssumption DEF EventsMatch
    <3>4. QED
      BY <3>1, <3>3 DEF Counted
  <2>2. \A h \in Hash : Counted(h)' = IF h = e.hash THEN Counted(h) \cup {e.by} ELSE Counted(h)
    <3>1. Pending("open", e.by, e.hash)
      BY <1>1, <1>6 DEF Pending
    <3>2. file[e.by] = e.hash /\ pc[e.by] # "opening"
      BY <1>1, <3>1 DEF EventsMatch
    <3>3. QED
      BY <1>1, <1>2, <1>4, <1>6, <3>2 DEF Counted
  <2>3. Cardinality(Counted(e.hash)') = Cardinality(Counted(e.hash)) + 1
    BY <1>1, <2>1, <2>2, CountedFinite, FS_AddElement
  <2>4. activeReads' = [activeReads EXCEPT ![e.hash] = OneMoreRead(@)]
    BY <1>6 DEF HandleTorrentOpen
  <2>. SUFFICES ASSUME NEW h \in Hash, activeReads'[h] \in Int
                PROVE  activeReads'[h] <= Cardinality(Counted(h)') + 1
    BY <1>3a, <1>3 DEF CountedBound
  <2>5. CASE h # e.hash
    BY <1>1, <2>2, <2>4, <2>5 DEF CountedBound, TypeOK, ClientTypeOK
  <2>6. CASE h = e.hash
    <3>1. activeReads'[h] = OneMoreRead(activeReads[h])
      BY <1>1, <2>4, <2>6 DEF TypeOK, ClientTypeOK
    <3>2. activeReads[h] \in Int \cup {Undefined, NaN}
      BY DEF TypeOK, ClientTypeOK
    <3>3. CASE activeReads[h] \in {Undefined, NaN, 0}
      <4>1. activeReads'[h] = 2
        BY <3>1, <3>3 DEF OneMoreRead
      <4>2. QED
        BY <2>3, <2>6, <4>1, CountedFinite
    <3>4. CASE activeReads[h] \notin {Undefined, NaN, 0}
      <4>1. activeReads[h] \in Int /\ activeReads'[h] = activeReads[h] + 1
        BY <3>1, <3>2, <3>4 DEF OneMoreRead
      <4>2. activeReads[h] <= Cardinality(Counted(h)) + 1
        BY <4>1 DEF CountedBound
      <4>3. QED
        BY <2>3, <2>6, <4>1, <4>2, CountedFinite
    <3>5. QED
      BY <3>3, <3>4
  <2>7. QED
    BY <2>5, <2>6
<1>7. CASE e.kind = "release" /\ (HandleTorrentRelease(e.hash) \/ (~InClient(e.hash) /\ UNCHANGED clientVars))
  <2>1. Pending("release", e.by, e.hash)
    BY <1>1, <1>7 DEF Pending
  <2>2. file[e.by] = Undefined
    BY <1>1, <2>1 DEF EventsMatch
  <2>3. e.by \in Counted(e.hash)
    BY <1>1, <2>1 DEF Counted
  <2>4. \A h \in Hash : Counted(h)' = IF h = e.hash THEN Counted(h) \ {e.by} ELSE Counted(h)
    BY <1>1, <1>2, <1>4, <1>7, <2>2, SentinelAssumption DEF Counted
  <2>5. Cardinality(Counted(e.hash)') = Cardinality(Counted(e.hash)) - 1
    BY <1>1, <2>3, <2>4, CountedFinite, FS_RemoveElement
  <2>. SUFFICES ASSUME NEW h \in Hash, activeReads'[h] \in Int
                PROVE  activeReads'[h] <= Cardinality(Counted(h)') + 1
    BY <1>3a, <1>3 DEF CountedBound
  <2>6. CASE h # e.hash
    BY <1>1, <1>7, <2>4, <2>6
    DEF CountedBound, HandleTorrentRelease, clientVars, TypeOK, ClientTypeOK
  <2>7. CASE h = e.hash
    <3>1. HandleTorrentRelease(e.hash)
      BY <1>1, <1>7, <2>7, SentinelAssumption DEF CountInClient, clientVars
    <3>2. activeReads'[h] = OneLessRead(activeReads[h])
      BY <1>1, <2>7, <3>1 DEF HandleTorrentRelease, TypeOK, ClientTypeOK
    <3>3. activeReads[h] \in Int /\ activeReads'[h] = activeReads[h] - 1
      BY <3>2, SentinelAssumption DEF OneLessRead, TypeOK, ClientTypeOK
    <3>4. activeReads[h] <= Cardinality(Counted(h)) + 1
      BY <3>3 DEF CountedBound
    <3>5. QED
      BY <2>5, <2>7, <3>3, <3>4, CountedFinite
  <2>8. QED
    BY <2>6, <2>7
<1>8. QED
  BY <1>5, <1>6, <1>7
  DEF HandleEvent, HandleTorrentRead, clientVars

LEMMA SessionReads ==
    ASSUME TypeOK, ReadsInv, NEW s \in Session,
           \/ \E h \in Hash : Open(s, h)
           \/ OpenHidden(s) \/ OpenVisible(s) \/ Release(s)
    PROVE  ReadsInv'
<1>. USE DEF ReadsInv
<1>1. UNCHANGED <<torrents, activeReads>>
  BY DEF Open, OpenHidden, OpenVisible, Release, Step, StepKeeping, clientVars
<1>2. CountInClient'
  BY <1>1 DEF CountInClient, InClient
<1>3. EventsMatch' /\ \A h \in Hash : Counted(h) \subseteq Counted(h)'
  <2>1. ASSUME NEW h \in Hash, Open(s, h)
        PROVE  EventsMatch' /\ \A g \in Hash : Counted(g) \subseteq Counted(g)'
    <3>1. \A g \in Hash, kind \in {"open", "release"} : ~Pending(kind, s, g)
      BY <2>1 DEF Open, Settled, Pending
    <3>2. \A g \in Hash : file[s] # g
      BY <2>1, SentinelAssumption DEF Open, TypeOK
    <3>3. QED
      BY <2>1, <3>1, <3>2 DEF Open, SetFile, EventsMatch, Counted, Pending, TypeOK
  <2>2. CASE OpenHidden(s)
    BY <2>2 DEF OpenHidden, SetFile, EventsMatch, Counted, Pending, TypeOK
  <2>3. CASE OpenVisible(s)
    <3>1. file[s] \in Hash /\ pc[s] = "opening"
      BY <2>3, NotifyType DEF OpenVisible, Step, StepKeeping
    <3>2. \A r \in Session, h \in Hash, kind \in {"open", "release"} :
              Pending(kind, r, h)' <=>
                  Pending(kind, r, h) \/ (kind = "open" /\ r = s /\ h = file[s])
      BY <2>3 DEF OpenVisible, Step, StepKeeping, Notify, Pending
    <3>3. UNCHANGED file /\ pc' = [pc EXCEPT ![s] = "open"]
      BY <2>3 DEF OpenVisible, Step, StepKeeping
    <3>4. \A h \in Hash : ~Pending("release", s, h) \/ file[s] = Undefined
      BY DEF EventsMatch
    <3>5. QED
      BY <3>1, <3>2, <3>3, <3>4, SentinelAssumption DEF EventsMatch, Counted, TypeOK
  <2>4. CASE Release(s)
    <3>1. file[s] \in Hash
      BY <2>4, NotifyType DEF Release
    <3>2. \A r \in Session, h \in Hash, kind \in {"open", "release"} :
              Pending(kind, r, h)' <=>
                  Pending(kind, r, h) \/ (kind = "release" /\ r = s /\ h = file[s])
      BY <2>4 DEF Release, Notify, Pending
    <3>3. pc' = [pc EXCEPT ![s] = "closed"] /\ file' = [file EXCEPT ![s] = Undefined]
      BY <2>4 DEF Release, SetFile
    <3>4. \A h \in Hash : ~Pending("open", s, h)
      BY <2>4 DEF Release, Settled, Pending
    <3>5. QED
      BY <3>1, <3>2, <3>3, <3>4, SentinelAssumption DEF EventsMatch, Counted, TypeOK
  <2>5. QED
    BY <2>1, <2>2, <2>3, <2>4
<1>4. CountedBound'
  BY <1>1, <1>3, BoundKept
<1>5. QED
  BY <1>2, <1>3, <1>4

LEMMA ReadsInvStep ==
    ASSUME TypeOK, ReadsInv, ReadsStep
    PROVE  ReadsInv'
<1>1. CASE SameCounts
  <2>1. EventsMatch'
    BY <1>1 DEF SameCounts, ReadsInv, EventsMatch
  <2>2. \A h \in Hash : Counted(h) \subseteq Counted(h)'
    BY <1>1 DEF SameCounts, Counted
  <2>3. CountedBound'
    BY <1>1, <2>2, BoundKept DEF SameCounts, ReadsInv
  <2>4. CountInClient'
    BY <1>1 DEF SameCounts, ReadsInv, CountInClient
  <2>5. QED
    BY <2>1, <2>3, <2>4 DEF ReadsInv
<1>2. CASE ProcessExit
  <2>1. /\ events' = {} /\ torrents' = <<>>
        /\ \A h \in Hash : activeReads'[h] = Undefined
    BY <1>2 DEF ProcessExit, ClientLost
  <2>2. QED
    BY <2>1, SentinelAssumption DEF ReadsInv, EventsMatch, CountedBound, CountInClient, Pending
<1>3. QED
  BY <1>1, <1>2, SessionReads, EventReads DEF ReadsStep

\* What activeReads counts, and what of it is still on its way.
THEOREM ReadsInvariant == Spec => []ReadsInv
<1>1. Init => ReadsInv
  BY SentinelAssumption
  DEF Init, ClientInit, ReadsInv, EventsMatch, CountedBound, CountInClient, Pending
<1>2. TypeOK /\ TorrentsInv /\ ReadsInv /\ [Next]_vars => ReadsInv'
  BY NextReads, ReadsInvStep DEF TorrentsInv
<1>3. QED
  BY <1>1, <1>2, TypeCorrect, TorrentsInvariant, PTL DEF Spec

\* The number of readers on the web page (handleTorrentOpen and
\* handleTorrentRelease) is never more than one too high.
THEOREM CountDriftsByOne == Spec => []ActiveReadsDrift
<1>1. ReadsInv => ActiveReadsDrift
  <2>. SUFFICES ASSUME ReadsInv, NEW h \in Hash, activeReads[h] \in Int
                PROVE  activeReads[h] <= Cardinality(Readers(h)) + 1
    BY DEF ActiveReadsDrift
  <2>1. Counted(h) \subseteq Readers(h)
    BY DEF Counted, Readers, Pending
  <2>2. Readers(h) \subseteq Session
    BY DEF Readers
  <2>3. /\ Cardinality(Readers(h)) \in Nat
        /\ Cardinality(Counted(h)) <= Cardinality(Readers(h))
    BY <2>1, <2>2, ActorAssumption, FS_Subset, FS_CardinalityType
  <2>4. QED
    BY <2>3, CountedFinite DEF ReadsInv, CountedBound
<1>2. QED
  BY <1>1, ReadsInvariant, PTL
=============================================================================
