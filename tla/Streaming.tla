----------------------------- MODULE Streaming -----------------------------
(***************************************************************************)
(* One Streamarrfs process while its file system is mounted: the FUSE      *)
(* handlers open, read and release of StreamarrFsService, the torrent      *)
(* client they drive, the two cron jobs that stop idle torrents, and the   *)
(* stop button of the web page (StreamarrService.stopTorrent).             *)
(*                                                                         *)
(* A session is one file handle of a FUSE client (Plex, a copy): it opens  *)
(* a file of one torrent, issues one read after the other and releases it. *)
(* Several sessions run at once, also on one torrent.  Every await is a    *)
(* point where any other handler may run; the code between two awaits is   *)
(* one action; StartTorrent says where there is an exception.              *)
(***************************************************************************)
EXTENDS TorrentClient

CONSTANTS
    Session,  \* file handles
    Stopper,  \* stop requests that can be in flight at once
    Sweep     \* runs of pauseOrStopTorrents that can be in flight at once

ASSUME ActorAssumption == IsFiniteSet(Session) /\ Session # {}

VARIABLES
    up,       \* the process is running
    visible,  \* torrents whose row has isVisible = true
    pc,       \* where each session is, see SessionPC
    file,     \* the torrent its file handle belongs to
    local,    \* makeTorrentReadable's locals that are not null
    events,   \* emitted events whose listener has not finished
    stopper,  \* where each stop request is, and the torrent it names
    sweep     \* where each run of pauseOrStopTorrents is

sessionVars == <<pc, file, local, events>>
otherVars == <<up, visible, stopper, sweep>>
vars == <<clientVars, sessionVars, otherVars>>

\* A read past the limit check, on its way to a torrent.
SettingUp == {"find", "lookup", "locate", "start"}
\* A read waiting for its own client.add: orphaned when the torrent was
\* destroyed by someone else, expired when it has run into the timeout.
Starting == {"starting", "orphaned", "expired"}
SessionPC ==
    {"closed", "opening", "open", "check"} \cup SettingUp \cup Starting
    \cup {"destroying", "poll", "polled", "file", "stream", "cut"}

Event == [kind : {"open", "read", "release"}, by : Session, hash : Hash]
StopperIdle == [pc |-> "idle", hash |-> Undefined]
SweepIdle == [pc |-> "idle", at |-> 0, hash |-> Undefined]

\* The types; a handle has a torrent, and a request a name, exactly while
\* they are in use.
TypeOK ==
    /\ ClientTypeOK
    /\ up \in BOOLEAN
    /\ visible \subseteq Hash
    /\ pc \in [Session -> SessionPC]
    /\ file \in [Session -> Hash \cup {Undefined}]
    /\ \A s \in Session : file[s] = Undefined <=> pc[s] = "closed"
    /\ local \in [Session -> SUBSET {"readyTorrent", "torrentInfo"}]
    /\ events \subseteq Event
    /\ stopper \in [Stopper ->
          [pc : {"idle", "hide", "stop", "stopping", "show"},
           hash : Hash \cup {Undefined}]]
    /\ \A u \in Stopper : stopper[u].hash = Undefined <=> stopper[u].pc = "idle"
    /\ sweep \in [Sweep ->
          [pc : {"idle", "stop", "stopping"}, at : Nat,
           hash : Hash \cup {Undefined}]]
    /\ \A w \in Sweep : sweep[w].hash = Undefined <=> sweep[w].pc = "idle"

Init ==
    /\ ClientInit
    /\ pc = [s \in Session |-> "closed"]
    /\ file = [s \in Session |-> Undefined]
    /\ local = [s \in Session |-> {}]
    /\ events = {}
    /\ up = TRUE
    /\ visible = Hash
    /\ stopper = [u \in Stopper |-> StopperIdle]
    /\ sweep = [w \in Sweep |-> SweepIdle]

-----------------------------------------------------------------------------
(* Shared steps *)

\* Session s moves on, emitting events and keeping some locals; the client
\* and the other actors do not change.
StepKeeping(s, from, to, emitted, kept) ==
    /\ pc[s] = from
    /\ pc' = [pc EXCEPT ![s] = to]
    /\ events' = events \cup emitted
    /\ local' = [local EXCEPT ![s] = kept]
    /\ UNCHANGED <<clientVars, file, otherVars>>

Step(s, from, to, emitted) == StepKeeping(s, from, to, emitted, {})

\* Listeners await a lookup of the torrent first, so an event takes effect
\* some time after it is emitted.
Notify(kind, s) == {[kind |-> kind, by |-> s, hash |-> file[s]]}

\* They are done before the FUSE client has its answer and asks again.
Settled(s) == \A e \in events : e.by # s

\* torrent.destroy, whose add() never calls back and whose streams break.
DestroyTorrent(h, p) ==
    /\ Destroy(h)
    /\ pc' = [s \in Session |->
          CASE file[s] = h /\ p[s] = "starting" -> "orphaned"
            [] file[s] = h /\ p[s] = "stream"   -> "cut"
            [] OTHER                            -> p[s]]
    /\ UNCHANGED <<file, local, events>>

\* The client, the mount with its handles and every request are lost; the
\* database, and with it visible, is not.
ProcessExit ==
    /\ ClientLost
    /\ pc' = [s \in Session |-> "closed"]
    /\ file' = [s \in Session |-> Undefined]
    /\ local' = [s \in Session |-> {}]
    /\ events' = {}
    /\ up' = FALSE
    /\ UNCHANGED visible
    /\ stopper' = [u \in Stopper |-> StopperIdle]
    /\ sweep' = [w \in Sweep |-> SweepIdle]

-----------------------------------------------------------------------------
(* open and release *)

SetFile(s, h) == file' = [file EXCEPT ![s] = h]

Open(s, h) ==
    /\ up /\ Settled(s)
    /\ pc[s] = "closed"
    /\ pc' = [pc EXCEPT ![s] = "opening"]
    /\ SetFile(s, h)
    /\ UNCHANGED <<clientVars, local, events, otherVars>>

\* findOneVisibleByInfoHash finds nothing: ENOENT.
OpenHidden(s) ==
    /\ pc[s] = "opening"
    /\ file[s] \notin visible
    /\ pc' = [pc EXCEPT ![s] = "closed"]
    /\ SetFile(s, Undefined)
    /\ UNCHANGED <<clientVars, local, events, otherVars>>

\* The limit check lacks an await: !isTorrentInClient(...) negates a promise
\* and is always false, so open never answers EBUSY.
OpenVisible(s) ==
    /\ file[s] \in visible
    /\ Step(s, "opening", "open", Notify("open", s))

Release(s) ==
    /\ pc[s] = "open" /\ Settled(s)
    /\ pc' = [pc EXCEPT ![s] = "closed"]
    /\ events' = events \cup Notify("release", s)
    /\ SetFile(s, Undefined)
    /\ UNCHANGED <<clientVars, local, otherVars>>

-----------------------------------------------------------------------------
(* read: the limit, then makeTorrentReadable *)

BeginRead(s) == Settled(s) /\ Step(s, "open", "check", {})

\* EBUSY: a new torrent, and the limit of ready torrents is reached.
ReadOverLimit(s) ==
    /\ ~InClient(file[s]) /\ HasReachedMaxConcurrentReadyTorrents
    /\ Step(s, "check", "open", {})

\* The check answers EBUSY and goes on all the same.
BugLimitUnchecked(s) == Step(s, "check", "find", {})

ReadWithinLimit(s) ==
    /\ InClient(file[s]) \/ ~HasReachedMaxConcurrentReadyTorrents
    /\ Step(s, "check", "find", {})

\* findReadyAndUnpausedTorrent; resumeTorrent then finds nothing paused.
FindReady(s) ==
    StepKeeping(s, "find", "lookup", {},
                {x \in {"readyTorrent"} : IsReady(file[s])})

\* findOneVisibleByInfoHash
LookupInfo(s) ==
    StepKeeping(s, "lookup", "locate", {},
                local[s] \cup {x \in {"torrentInfo"} : file[s] \in visible})

\* Not in the client: start it; without torrentInfo, reading its magnetURI
\* throws and the read answers EIO.
LocateAbsent(s) ==
    /\ ~InClient(file[s])
    /\ Step(s, "locate", IF "torrentInfo" \in local[s] THEN "start" ELSE "open", {})

\* In the client but not ready: pWaitFor.
LocatePending(s) ==
    /\ InClient(file[s]) /\ ~IsReady(file[s])
    /\ Step(s, "locate", "poll", {})

\* Ready: the torrent found at first is returned.  When none was, null is:
\* onTorrentReadable throws on it and the read answers EBUSY.
LocateReady(s) ==
    /\ IsReady(file[s])
    /\ IF "readyTorrent" \in local[s]
       THEN Step(s, "locate", "file", Notify("read", s))
       ELSE Step(s, "locate", "open", {})

-----------------------------------------------------------------------------
(* startTorrentWithTimeout *)

\* Someone else has added the torrent since: null, EBUSY.
StartBeaten(s) ==
    /\ InClient(file[s])
    /\ Step(s, "start", "open", {})

\* The lookup before client.add is dropped.
BugStartUnchecked(s) ==
    /\ pc[s] = "start"
    /\ Add(file[s])
    /\ pc' = [pc EXCEPT ![s] = "starting"]
    /\ UNCHANGED <<file, local, events, otherVars>>

\* getTorrentWithInfoHash is awaited before client.add; only promises lie
\* between them, and no other handler runs meanwhile.
StartTorrent(s) ==
    /\ pc[s] = "start"
    /\ ~InClient(file[s])
    /\ Add(file[s])
    /\ pc' = [pc EXCEPT ![s] = "starting"]
    /\ UNCHANGED <<file, local, events, otherVars>>

\* onTorrentReadable is not called for a torrent that was just started.
BugStartNotNotified(h) ==
    /\ InClient(h) /\ ~IsReady(h)
    /\ BecomeReady(h)
    /\ pc' = [s \in Session |->
          IF pc[s] = "starting" /\ file[s] = h THEN "file" ELSE pc[s]]
    /\ UNCHANGED <<file, local, events, otherVars>>

\* Metadata arrives: add() calls back and the read that waits for it goes on.
TorrentReady(h) ==
    /\ InClient(h) /\ ~IsReady(h)
    /\ BecomeReady(h)
    /\ LET waiting == {s \in Session : pc[s] = "starting" /\ file[s] = h} IN
       /\ pc' = [s \in Session |-> IF s \in waiting THEN "file" ELSE pc[s]]
       /\ events' = events \cup UNION {Notify("read", s) : s \in waiting}
    /\ UNCHANGED <<file, local, otherVars>>

\* The timeout answers the read and leaves the torrent, or there is none.
BugTimeoutLeavesTorrent(s) ==
    \E waiting \in {"starting", "orphaned"} : Step(s, waiting, "open", {})
BugNoTimeout(s) == FALSE

\* pTimeout rejects with a TimeoutError; the torrent is to be stopped.
StartTimeout(s) ==
    \E waiting \in {"starting", "orphaned"} : Step(s, waiting, "expired", {})

\* stopTorrentWithInfoHash destroys the torrent of that infohash, whoever
\* added it.
StopExpired(s) ==
    /\ pc[s] = "expired"
    /\ InClient(file[s])
    /\ DestroyTorrent(file[s], [pc EXCEPT ![s] = "destroying"])
    /\ UNCHANGED otherVars

\* There is none: null.destroy throws in the promise's async executor, a
\* rejection nobody handles, which ends the process.
StopExpiredGone(s) ==
    /\ pc[s] = "expired"
    /\ ~InClient(file[s])
    /\ ProcessExit

\* destroy calls back: null and EBUSY, or its error and EIO.
ExpiredStopped(s) == Step(s, "destroying", "open", {})

-----------------------------------------------------------------------------
(* pWaitFor, for a torrent another read has started *)

PollReady(s) ==
    /\ IsReady(file[s])
    /\ Step(s, "poll", "polled", {})

\* polledTorrent is null and throws: EBUSY.
PollGone(s) ==
    /\ ~InClient(file[s])
    /\ Step(s, "poll", "open", {})

PollTimeout(s) == Step(s, "poll", "open", {})

\* The torrent is looked up once more, and passed on ready or not.
PolledTorrent(s) ==
    /\ InClient(file[s])
    /\ Step(s, "polled", "file", Notify("read", s))

PolledGone(s) ==
    /\ ~InClient(file[s])
    /\ Step(s, "polled", "open", {})

-----------------------------------------------------------------------------
(* read, from the torrent on *)

\* getTorrentFileByPath throws on a null torrent, or finds no file (before
\* its metadata a torrent has none): EIO.
FileMissing(s) ==
    /\ ~IsReady(file[s])
    /\ Step(s, "file", "open", {})

\* The path is not in the torrent (EIO), or pos is past its end (0).
FileDone(s) ==
    /\ IsReady(file[s])
    /\ Step(s, "file", "open", {})

BeginStream(s) ==
    /\ IsReady(file[s])
    /\ Step(s, "file", "stream", Notify("read", s))

\* All pieces have come.  A read of a stalled torrent waits for ever.
StreamDone(s) == Settled(s) /\ Step(s, "stream", "open", Notify("read", s))

\* The iterator of a destroyed torrent fails, or never answers.
StreamCut(s) == Step(s, "cut", "open", {})

-----------------------------------------------------------------------------
(* The listeners in WebTorrentService *)

HandleEvent(e) ==
    /\ e \in events
    /\ events' = events \ {e}
    /\ \/ e.kind = "open" /\ HandleTorrentOpen(e.hash)
       \/ e.kind = "read" /\ HandleTorrentRead(e.hash)
       \/ e.kind = "release" /\ HandleTorrentRelease(e.hash)
       \/ ~InClient(e.hash) /\ UNCHANGED clientVars
    /\ UNCHANGED <<pc, file, local, otherVars>>

-----------------------------------------------------------------------------
(* StreamarrService.stopTorrent *)

RequestStop(u, h) ==
    /\ up
    /\ stopper[u].pc = "idle"
    /\ stopper' = [stopper EXCEPT ![u] = [pc |-> "hide", hash |-> h]]
    /\ UNCHANGED <<clientVars, sessionVars, up, visible, sweep>>

StopperStep(u, from, to) ==
    /\ stopper[u].pc = from
    /\ stopper' = [stopper EXCEPT ![u] =
          IF to = "idle" THEN StopperIdle ELSE [@ EXCEPT !.pc = to]]
    /\ UNCHANGED <<up, sweep>>

Hide(u) ==
    /\ StopperStep(u, "hide", "stop")
    /\ visible' = visible \ {stopper[u].hash}
    /\ UNCHANGED <<clientVars, sessionVars>>

StopRequested(u) ==
    /\ InClient(stopper[u].hash)
    /\ StopperStep(u, "stop", "stopping")
    /\ DestroyTorrent(stopper[u].hash, pc)
    /\ UNCHANGED visible

\* null.destroy again: the process ends and the row stays hidden.
StopRequestedGone(u) ==
    /\ stopper[u].pc = "stop"
    /\ ~InClient(stopper[u].hash)
    /\ ProcessExit

\* destroy calls back; with an error, the request fails and the row stays
\* hidden.
StopCalledBack(u) ==
    /\ StopperStep(u, "stopping", "show") \/ StopperStep(u, "stopping", "idle")
    /\ UNCHANGED <<clientVars, sessionVars, visible>>

Show(u) ==
    /\ StopperStep(u, "show", "idle")
    /\ visible' = visible \cup {stopper[u].hash}
    /\ UNCHANGED <<clientVars, sessionVars>>

-----------------------------------------------------------------------------
(* Cron jobs *)

RunUpdateTorrentStatus ==
    /\ up
    /\ UpdateTorrentStatus
    /\ UNCHANGED <<sessionVars, otherVars>>

\* The loop of pauseOrStopTorrents from position i to its next await, or to
\* the end of the array as it is now.
Walk(w, i) ==
    LET k == NextToStop(i) IN
    /\ PauseBetween(i, k)
    /\ sweep' = [sweep EXCEPT ![w] =
          IF k \in DOMAIN torrents
          THEN [pc |-> "stop", at |-> k, hash |-> torrents[k]]
          ELSE SweepIdle]
    /\ UNCHANGED <<sessionVars, up, visible, stopper>>

\* A run starts whether or not the one before has ended.
BeginSweep(w) ==
    /\ up
    /\ sweep[w].pc = "idle"
    /\ Walk(w, 1)

SweepStop(w) ==
    /\ sweep[w].pc = "stop"
    /\ InClient(sweep[w].hash)
    /\ DestroyTorrent(sweep[w].hash, pc)
    /\ sweep' = [sweep EXCEPT ![w].pc = "stopping"]
    /\ UNCHANGED <<up, visible, stopper>>

\* The try/catch around the call does not see the rejection.
SweepStopGone(w) ==
    /\ sweep[w].pc = "stop"
    /\ ~InClient(sweep[w].hash)
    /\ ProcessExit

\* destroy calls back, with or without an error: on to the next position, in
\* an array that is one shorter than when this one was reached.
SweepStopped(w) ==
    /\ sweep[w].pc = "stopping"
    /\ Walk(w, sweep[w].at + 1)

TimePasses ==
    /\ up
    /\ Tick
    /\ UNCHANGED <<sessionVars, otherVars>>

-----------------------------------------------------------------------------
(* The process *)

\* Killed, or gone for a reason outside this model.
Crash == up /\ ProcessExit

\* Started again, on the same database.
Start ==
    /\ ~up
    /\ up' = TRUE
    /\ UNCHANGED <<clientVars, sessionVars, visible, stopper, sweep>>

-----------------------------------------------------------------------------

\* What a session does of its own accord once an operation has begun.
Proceed(s) ==
    \/ OpenHidden(s) \/ OpenVisible(s)
    \/ ReadOverLimit(s) \/ ReadWithinLimit(s)
    \/ FindReady(s) \/ LookupInfo(s)
    \/ LocateAbsent(s) \/ LocatePending(s) \/ LocateReady(s)
    \/ StartBeaten(s) \/ StartTorrent(s)
    \/ StopExpired(s) \/ StopExpiredGone(s) \/ ExpiredStopped(s)
    \/ PollReady(s) \/ PollGone(s)
    \/ PolledTorrent(s) \/ PolledGone(s)
    \/ FileMissing(s) \/ FileDone(s) \/ BeginStream(s)

Timeout(s) == StartTimeout(s) \/ PollTimeout(s)

StopProceeds(u) ==
    \/ Hide(u) \/ StopRequested(u) \/ StopRequestedGone(u)
    \/ StopCalledBack(u) \/ Show(u)

SweepProceeds(w) == SweepStop(w) \/ SweepStopGone(w) \/ SweepStopped(w)

SessionNext(s) ==
    \/ \E h \in Hash : Open(s, h)
    \/ BeginRead(s) \/ Release(s)
    \/ Proceed(s) \/ Timeout(s)
    \/ StreamDone(s) \/ StreamCut(s)

Next ==
    \/ \E s \in Session : SessionNext(s)
    \/ \E h \in Hash : TorrentReady(h)
    \/ \E e \in events : HandleEvent(e)
    \/ \E u \in Stopper : StopProceeds(u) \/ \E h \in Hash : RequestStop(u, h)
    \/ \E w \in Sweep : BeginSweep(w) \/ SweepProceeds(w)
    \/ RunUpdateTorrentStatus \/ TimePasses
    \/ Crash \/ Start

Spec == Init /\ [][Next]_vars

\* What Node.js runs by itself: the code after an await, the timers, the cron
\* jobs, the listeners, and the callback of destroy.  Nobody has to open,
\* read, stop or restart, and no metadata or piece has to arrive.
Fairness ==
    /\ \A s \in Session : WF_vars(Proceed(s)) /\ WF_vars(Timeout(s))
    /\ \A e \in Event : WF_vars(HandleEvent(e))
    /\ \A u \in Stopper : WF_vars(StopProceeds(u))
    /\ \A w \in Sweep : WF_vars(BeginSweep(w)) /\ WF_vars(SweepProceeds(w))
    /\ WF_vars(RunUpdateTorrentStatus) /\ WF_vars(TimePasses)

FairSpec == Spec /\ Fairness
=============================================================================
