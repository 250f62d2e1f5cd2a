---------------------- MODULE TorrentIndexerProperties ----------------------
(***************************************************************************)
(* What the indexing of torrents promises, and what its comments promise   *)
(* for it.                                                                 *)
(***************************************************************************)
EXTENDS TorrentIndexer

-----------------------------------------------------------------------------
(* Safety *)

\* The file system only shows torrents that were indexed completely, whatever
\* the indexer, a stop request and a deletion do to a row in whatever order:
\* open and getattr take infoHash and files of a visible row for granted.
VisibleIsReady ==
    \A id \in DOMAIN rows :
        rows[id].isVisible => rows[id].status = "READY" /\ rows[id].infoHash # Null

\* The rows a run will still look up or is looking up.
Held(r) == CASE runs[r].pc = "mark" -> runs[r].list
             [] runs[r].pc = "add"  -> runs[r].left
             [] OTHER               -> (runs[r].left \cup {runs[r].row}) \ {Null}

\* No row is looked up by two overlapping runs of consumedQueuedTorrents:
\* marking all QUEUED rows before the first lookup keeps the next run away
\* from them.  Two lookups of one torrent would collide in the client.
NoDoubleIndexing ==
    \A q, r \in Run : q # r => Held(q) \cap Held(r) = {}

\* A torrent that was indexed stays indexed until it is deleted: no write of
\* PROCESSING, from a copy of the row taken earlier, comes after READY.
ReadyStays ==
    [][\A id \in DOMAIN rows \cap DOMAIN rows' :
          rows[id].status = "READY" =>
              rows'[id].status = "READY" /\ rows'[id].infoHash = rows[id].infoHash]_vars

\* No more rows wait than may be looked up at once, also when both jobs tick
\* at the same second and a run gives up half-way through its list.
QueuedBound == Cardinality(queuedTorrents) <= Concurrency

-----------------------------------------------------------------------------
(* The life cycle *)

\* What the life cycle calls the state of a row.
StageOf(id) ==
    IF ~IsRow(id) THEN "none"
    ELSE IF rows[id].status # "READY" THEN rows[id].status
    ELSE IF rows[id].isVisible THEN "shown" ELSE "hidden"

LifeCycle == INSTANCE TorrentLifeCycle WITH
    stage <- [id \in Id |-> StageOf(id)],
    inHand <- UNION {Held(r) : r \in Run}

\* The two jobs with their lists, flags and stale copies of rows move each
\* torrent along its life cycle: none is taken twice, shown before it is
\* finished, or worked on after.
FollowsLifeCycle == LifeCycle!Spec

-----------------------------------------------------------------------------
(* Liveness, under FairSpec *)

\* Every new torrent has its turn, whatever happened to those before it:
\* rows a failed or killed run left behind do not take up the queue for ever.
NewRowsAreTaken ==
    \A id \in Id :
        IsRow(id) /\ rows[id].status = "NEW"
            ~> ~IsRow(id) \/ rows[id].status \notin {"NEW", "QUEUED"}

-----------------------------------------------------------------------------
(* What the comments say and the code does not do *)

\* TorrentIndexerService "finds info of torrents"; "Once there is enough info
\* for torrent it is then updated to a READY state"; indexTorrent: "failed to
\* get full info" is an ERROR.  So what is PROCESSING comes to an end.
ProcessingEnds ==
    \A id \in Id :
        IsRow(id) /\ rows[id].status = "PROCESSING"
            ~> ~IsRow(id) \/ rows[id].status \in {"READY", "ERROR"}

\* stopTorrent: "Make torrent inVisible before stop.  This is to make sure any
\* read can no longer happen": no visible row has its infohash.
HiddenIsUnreadable ==
    \A id \in hidden \cap DOMAIN rows : \A i \in DOMAIN rows :
        rows[i].isVisible => rows[i].infoHash # rows[id].infoHash
=============================================================================
