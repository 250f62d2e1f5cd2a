--------------------------- MODULE TorrentClient ---------------------------
(***************************************************************************)
(* The streaming webtorrent client and the bookkeeping WebTorrentService   *)
(* keeps on its torrents (server/src/webtorrent/webtorrent.service.ts).    *)
(*                                                                         *)
(* client.torrents is an array: the order matters, because                 *)
(* pauseOrStopTorrents walks it while torrents leave it.  A torrent is     *)
(* named by its infohash.  The webtorrent library itself is external: it   *)
(* is modelled by what the service relies on.  add() makes a torrent       *)
(* findable at once and ready later or never; destroy() takes it out of    *)
(* the array at once and calls back later, with or without an error.       *)
(*                                                                         *)
(* torrent.paused is not modelled: the only pause() is commented out       *)
(* (line 432), so it is always false, resumeTorrent always returns null    *)
(* and the "is paused" branches are dead.                                  *)
(*                                                                         *)
(* Names starting with "Bug" are defects no specification here contains:   *)
(* each is put in the place of the definition below it to see that the     *)
(* properties notice.                                                      *)
(***************************************************************************)
EXTENDS Integers, Sequences, SequencesExt

CONSTANTS
    Hash,        \* infohashes of the indexed torrents
    MaxReady,    \* STREAMARRFS_TORRENT_MAX_READY
    PauseAfter,  \* STREAMARRFS_TORRENT_PAUSE_AFTER_MS, in ticks
    StopAfter,   \* STREAMARRFS_TORRENT_STOP_AFTER_MS, in ticks
    Undefined,   \* JavaScript's undefined
    NaN          \* JavaScript's NaN

ASSUME HashAssumption == IsFiniteSet(Hash)
\* parseInt(...) || default never yields 0.
ASSUME LimitAssumption == /\ MaxReady \in Nat \ {0}
                          /\ PauseAfter \in Nat \ {0}
                          /\ StopAfter \in Nat \ {0}
\* The two sentinels are neither numbers, statuses nor infohashes.
ASSUME SentinelAssumption ==
    /\ Undefined # NaN
    /\ Undefined \notin Int /\ NaN \notin Int
    /\ Undefined \notin Hash
    /\ Undefined \notin {"running", "pausing", "paused", "stopping"}

VARIABLES
    torrents,    \* client.torrents, in array order
    ready,       \* those whose metadata has arrived (torrent.ready)
    status,      \* torrent.status
    idle,        \* ticks since torrent.lastReadDate
    activeReads  \* torrent.activeReads

clientVars == <<torrents, ready, status, idle, activeReads>>

Status == {Undefined, "running", "pausing", "paused", "stopping"}

\* Time beyond the later of the two thresholds is not told apart.
MaxIdle == IF PauseAfter > StopAfter THEN PauseAfter ELSE StopAfter

ClientTypeOK ==
    /\ torrents \in Seq(Hash)
    /\ ready \subseteq Hash
    /\ status \in [Hash -> Status]
    /\ idle \in [Hash -> (0..MaxIdle) \cup {Undefined}]
    /\ activeReads \in [Hash -> Int \cup {Undefined, NaN}]

ClientInit ==
    /\ torrents = <<>>
    /\ ready = {}
    /\ status = [h \in Hash |-> Undefined]
    /\ idle = [h \in Hash |-> Undefined]
    /\ activeReads = [h \in Hash |-> Undefined]

-----------------------------------------------------------------------------
(* What a lookup sees. *)

\* getTorrentWithInfoHash(h) finds a torrent.
InClient(h) == h \in Range(torrents)

\* findReadyAndUnpausedTorrent(h) finds a torrent.
IsReady(h) == InClient(h) /\ h \in ready

\* Off by one.
BugLimitExceeded == Cardinality(ready) > MaxReady

\* Torrents still waiting for their metadata are not counted.
HasReachedMaxConcurrentReadyTorrents == Cardinality(ready) >= MaxReady

-----------------------------------------------------------------------------
(* Changes to the array. *)

\* The service's own fields live on the torrent object and go with it.
ForgetFields(h) ==
    /\ status' = [status EXCEPT ![h] = Undefined]
    /\ idle' = [idle EXCEPT ![h] = Undefined]
    /\ activeReads' = [activeReads EXCEPT ![h] = Undefined]

\* The process that held the client is gone.
ClientLost ==
    /\ torrents' = <<>>
    /\ ready' = {}
    /\ status' = [h \in Hash |-> Undefined]
    /\ idle' = [h \in Hash |-> Undefined]
    /\ activeReads' = [h \in Hash |-> Undefined]

\* client.add(magnetURI): the torrent is in the array, not ready yet.
Add(h) ==
    /\ torrents' = Append(torrents, h)
    /\ UNCHANGED <<ready, status, idle, activeReads>>

\* webtorrent has the torrent's metadata.
BecomeReady(h) ==
    /\ ready' = ready \cup {h}
    /\ UNCHANGED <<torrents, status, idle, activeReads>>

\* torrent.destroy({ destroyStore: true }): out of the array at once.
Destroy(h) ==
    /\ torrents' = RemoveAt(torrents, CHOOSE i \in DOMAIN torrents : torrents[i] = h)
    /\ ready' = ready \ {h}
    /\ ForgetFields(h)

-----------------------------------------------------------------------------
(* The listeners of the file system's events.  An event for a torrent that *)
(* is not in the client changes nothing.                                   *)

\* A read does not take the mark away.
BugTouchKeepsStatus(h) == idle' = [idle EXCEPT ![h] = 0] /\ UNCHANGED status

\* torrent.lastReadDate = Date.now(); torrent.status = 'running'
Touch(h) ==
    /\ idle' = [idle EXCEPT ![h] = 0]
    /\ status' = [status EXCEPT ![h] = "running"]

\* Falsy counts are set to 1 first, then every open adds one.
OneMoreRead(n) == IF n \in {Undefined, NaN, 0} THEN 2 ELSE n + 1

\* The count only ever goes up.
BugReleaseNotCounted(n) == n

\* undefined - 1 and NaN - 1 are NaN.
OneLessRead(n) == IF n \in {Undefined, NaN} THEN NaN ELSE n - 1

HandleTorrentOpen(h) ==
    /\ InClient(h)
    /\ Touch(h)
    /\ activeReads' = [activeReads EXCEPT ![h] = OneMoreRead(@)]
    /\ UNCHANGED <<torrents, ready>>

HandleTorrentRead(h) ==
    /\ InClient(h)
    /\ Touch(h)
    /\ UNCHANGED <<torrents, ready, activeReads>>

HandleTorrentRelease(h) ==
    /\ InClient(h)
    /\ activeReads' = [activeReads EXCEPT ![h] = OneLessRead(@)]
    /\ UNCHANGED <<torrents, ready, status, idle>>

-----------------------------------------------------------------------------
(* The two cron jobs, and the clock they compare with. *)

\* now - lastReadDate >= limit; a comparison with undefined is false.
IdleFor(h, limit) == idle[h] # Undefined /\ idle[h] >= limit

\* What is paused is not looked at again.
BugPausedIsLeft(h) ==
    CASE idle[h] # Undefined /\ idle[h] < PauseAfter     -> "running"
      [] IdleFor(h, PauseAfter) /\ status[h] = "paused"  -> "paused"
      [] IdleFor(h, StopAfter) /\ status[h] # "paused"   -> "stopping"
      [] idle[h] = Undefined                             -> status[h]
      [] OTHER                                           -> "pausing"

\* What was never read has the status that is there for it, which no job
\* knows.
BugNeverReadIsNa(h) ==
    CASE idle[h] = Undefined       -> "na"
      [] idle[h] < PauseAfter      -> "running"
      [] idle[h] < StopAfter       -> "pausing"
      [] OTHER                     -> "stopping"

\* The three ifs of updateTorrentStatus, the last one deciding.
NextStatus(h) ==
    CASE idle[h] # Undefined /\ idle[h] < PauseAfter     -> "running"
      [] IdleFor(h, PauseAfter) /\ IdleFor(h, StopAfter) -> "stopping"
      [] /\ IdleFor(h, PauseAfter) /\ ~IdleFor(h, StopAfter)
         /\ status[h] # "paused"                         -> "pausing"
      [] OTHER                                           -> status[h]

UpdateTorrentStatus ==
    /\ status' = [h \in Hash |-> IF IsReady(h) THEN NextStatus(h) ELSE status[h]]
    /\ UNCHANGED <<torrents, ready, idle, activeReads>>

\* pauseOrStopTorrents from position i on: the first torrent to be stopped,
\* where the loop awaits, or one past the array.
NextToStop(i) ==
    Min({k \in i..Len(torrents) : status[torrents[k]] = "stopping"}
        \cup {Len(torrents) + 1})

\* Those it passes on the way are paused in name only.
PauseBetween(i, k) ==
    /\ status' = [h \in Hash |->
          IF status[h] = "pausing" /\ \E j \in i..(k - 1) : torrents[j] = h
          THEN "paused" ELSE status[h]]
    /\ UNCHANGED <<torrents, ready, idle, activeReads>>

Aged(n) == IF n \in {Undefined, MaxIdle} THEN n ELSE n + 1

\* Date.now() advances.
Tick ==
    /\ idle' = [h \in Hash |-> Aged(idle[h])]
    /\ UNCHANGED <<torrents, ready, status, activeReads>>
=============================================================================
