------------------------ MODULE StreamingProperties ------------------------
(***************************************************************************)
(* What the streaming core promises, and what its documentation promises   *)
(* for it.                                                                 *)
(***************************************************************************)
EXTENDS Streaming

-----------------------------------------------------------------------------
(* Safety *)

\* A torrent is in the client at most once, although reads of one torrent
\* look it up and add it concurrently: startTorrentWithTimeout looks it up
\* once more, with nothing but promises between this lookup and client.add.
NoDuplicates ==
    \A i, j \in DOMAIN torrents : torrents[i] = torrents[j] => i = j

\* The limit of ready torrents is soft, but not unbounded.  read checks it
\* against the torrents that are ready now; reads that passed the check
\* earlier may still be starting theirs, one per handle.
ReadyBound == Cardinality(ready) <= MaxReady + Cardinality(Session) - 1

\* No torrent stays in the client without metadata: whoever destroys what,
\* some read still waits for it and will stop it on its timeout.  The cron
\* jobs would never do so, they look at ready torrents only.
PendingHasStarter ==
    \A h \in Range(torrents) \ ready :
        \E s \in Session : file[s] = h /\ pc[s] \in {"starting", "expired"}

\* A ready torrent has a lastReadDate, or is about to get one, or is about to
\* be stopped: updateTorrentStatus never selects a torrent without one.
ReadyIsTimed ==
    \A h \in ready :
        \/ idle[h] # Undefined
        \/ \E e \in events : e.hash = h /\ e.kind = "read"
        \/ \E s \in Session : file[s] = h /\ pc[s] = "expired"

\* A torrent marked for pausing or stopping has not been read since it became
\* idle for that long: an open or read always takes the mark away.
MarkedIsIdle ==
    \A h \in Hash :
        /\ status[h] \in {"pausing", "paused"} => IdleFor(h, PauseAfter)
        /\ status[h] = "stopping" => IdleFor(h, StopAfter)

\* The sessions whose open of h may have been counted and whose release has
\* not been.
Readers(h) ==
    {s \in Session :
        \/ file[s] = h
        \/ \E e \in events : e.by = s /\ e.hash = h /\ e.kind = "release"}

\* activeReads, which the web page shows, is never more than one too high:
\* handleTorrentOpen counts the open that finds no count twice, but once only.
ActiveReadsDrift ==
    \A h \in Hash :
        activeReads[h] \in Int => activeReads[h] <= Cardinality(Readers(h)) + 1

-----------------------------------------------------------------------------
(* The limit of ready torrents, as an abstract specification *)

\* A read from the limit check to the torrent it was let in for.
InFlight == SettingUp \cup Starting

Pool == INSTANCE TorrentPool WITH
    Limit <- MaxReady, None <- Undefined,
    pool <- Range(torrents),
    wants <- [s \in Session |-> IF pc[s] \in InFlight THEN file[s] ELSE Undefined]

\* A torrent enters the client, and becomes ready, only for a read that was
\* let in, whatever times out, is stopped, swept or crashes meanwhile, and
\* what is destroyed is gone.
ImplementsPool == Pool!Spec

-----------------------------------------------------------------------------
(* Liveness, under FairSpec *)

\* Nothing is reading or about to read h; handles on it may stay open.
NotRead(h) ==
    \A s \in Session : file[s] = h => pc[s] \in {"open", "cut"}

\* A torrent that is no longer read leaves the client, whatever the walk of
\* pauseOrStopTorrents skips when the array shrinks under it.
IdleTorrentsAreStopped ==
    \A h \in Hash : (<>[]NotRead(h)) => []<>~InClient(h)

\* A read that has begun comes back with an answer or gets as far as pieces;
\* from there on it depends on the peers.  The wait for someone else's start,
\* the timeout and its clean-up never leave it hanging.
ReadsAreAnswered ==
    \A s \in Session :
        pc[s] \in SettingUp \cup Starting \cup {"check", "destroying", "poll", "polled", "file"}
            ~> pc[s] \in {"open", "closed", "stream", "cut"}

-----------------------------------------------------------------------------
(* What the documentation says and the code does not do *)

\* README, STREAMARRFS_TORRENT_MAX_READY: "The maximum number of torrents
\* allowed to be streaming at any given time."
StreamingWithinMax ==
    Cardinality({file[s] : s \in {x \in Session : pc[x] = "stream"}}) <= MaxReady

\* README on the limit: it "might cause a new stream to result in an error if
\* the max running torrents has been reached"; open's log message: "Cannot
\* open ... Max ready torrents reached."
OpenRefusedAtLimit ==
    [][\A s \in Session :
          pc[s] = "opening" /\ pc'[s] = "open" /\ ~InClient(file[s])
              => ~HasReachedMaxConcurrentReadyTorrents]_vars

\* startTorrentWithTimeout: "If torrent exceeds timeout to be ready null is
\* returned and the torrent is stopped." So there is a torrent to stop, or
\* stopTorrentWithInfoHash takes the process down with it.
ExpiredStartCanBeStopped ==
    \A s \in Session : pc[s] = "expired" => InClient(file[s])
=============================================================================
