--------------------------- MODULE TorrentIndexer ---------------------------
(***************************************************************************)
(* How a torrent gets from a feed into the file system: the cron jobs of   *)
(* TorrentIndexerService (server/src/torrents/indexer), and what else      *)
(* writes rows meanwhile: the sources, the REST controller, the stop       *)
(* button.                                                                 *)
(*                                                                         *)
(* queueNewTorrents moves one row at a time from NEW to QUEUED.            *)
(* consumedQueuedTorrents marks all QUEUED rows PROCESSING and then looks  *)
(* them up one after the other, each for up to minutes; its cron goes on   *)
(* ticking, so runs of it overlap.                                         *)
(*                                                                         *)
(* Assumed of time: a run is through with the database, before its first   *)
(* lookup, when the next run of the same job begins 10 or 30 seconds       *)
(* later; and what Written says of the write that a lookup does not await. *)
(*                                                                         *)
(* The operators named Bug... are defects, as in TorrentClient.            *)
(***************************************************************************)
EXTENDS TorrentStore

CONSTANTS
    Run,          \* runs of consumedQueuedTorrents that can be in flight
    Concurrency,  \* STREAMARRFS_TORRENT_INDEXER_CONCURRENCY
    FreeHash,     \* infohashes of the free magnet links, none if they are not wanted
    MaxCrashes    \* crashes in a behaviour: a bound of the model

ASSUME IndexerAssumption ==
    /\ IsFiniteSet(Run) /\ Concurrency \in Nat \ {0} /\ MaxCrashes \in Nat
    /\ FreeHash \subseteq InfoHash

VARIABLES
    queueJob,  \* where queueNewTorrents is; isQueueJobRunning = (queueJob = "pop")
    runs,      \* where each run of consumedQueuedTorrents is
    hidden,    \* rows stopTorrent has hidden and will show again
    free,      \* rows of free torrents, whose feedGuid is their infohash
    listening, \* whether the server takes requests
    crashes

jobVars == <<queueJob, runs, hidden>>
processVars == <<free, listening, crashes>>
vars == <<storeVars, jobVars, processVars>>

\* list: the rows the run read as QUEUED, while it marks them.  left: those
\* the present loop has not come to.  row: the one being looked up.  write:
\* the row PROCESSING is being written to, which the lookup does not await.
RunState ==
    [pc : {"idle", "mark", "add", "jackett", "magnet"},
     list : SUBSET Id, left : SUBSET Id, row : Id \cup {Null}, write : Id \cup {Null}]
RunIdle == [pc |-> "idle", list |-> {}, left |-> {}, row |-> Null, write |-> Null]

\* The types; a run has a row exactly while it looks one up.
TypeOK ==
    /\ StoreTypeOK
    /\ queueJob \in {"idle", "pop"}
    /\ runs \in [Run -> RunState]
    /\ \A r \in Run : /\ runs[r].row # Null <=> runs[r].pc \in {"jackett", "magnet"}
                      /\ runs[r].pc = "mark" => runs[r].left \subseteq runs[r].list
    /\ hidden \subseteq Id /\ free \subseteq Id
    /\ listening \in BOOLEAN
    /\ crashes \in 0..MaxCrashes

Init ==
    /\ StoreInit
    /\ queueJob = "idle"
    /\ runs = [r \in Run |-> RunIdle]
    /\ hidden = {} /\ free = {}
    /\ listening = FALSE
    /\ crashes = 0

-----------------------------------------------------------------------------
(* Where rows come from *)

\* An item of a Jackett feed whose guid no row has.
AddFromFeed ==
    /\ create(NewRow("NEW", FALSE, Null))
    /\ UNCHANGED <<jobVars, processVars>>

\* A free torrent, whose metadata was looked up before its row is created.
\* None has a row of this source already, which its magnet link would find;
\* and the server does not listen yet.
AddFree ==
    /\ ~listening
    /\ \E h \in FreeHash :
          /\ \A id \in free \cap DOMAIN rows : rows[id].infoHash # h
          /\ create(NewRow("READY", TRUE, h))
    /\ free' = free \cup {nextId}
    /\ UNCHANGED <<jobVars, listening, crashes>>

\* The free torrents are there, or a lookup of one has failed.
Listen ==
    /\ listening' = TRUE
    /\ UNCHANGED <<storeVars, jobVars, free, crashes>>

-----------------------------------------------------------------------------
(* queueNewTorrents *)

\* The limit counts the rows at work as well.
BugCountsProcessing == Cardinality(queuedTorrents \cup WithStatus("PROCESSING")) < Concurrency
\* The limit is off by one.
BugOneTooMany == Cardinality(queuedTorrents) <= Concurrency

RoomInQueue == Cardinality(queuedTorrents) < Concurrency

\* The queue is counted; its rows may change before the pop.
BeginQueueJob ==
    /\ queueJob = "idle"
    /\ RoomInQueue
    /\ queueJob' = "pop"
    /\ UNCHANGED <<storeVars, runs, hidden, processVars>>

PopNewTorrent ==
    /\ queueJob = "pop"
    /\ popNewTorrent
    /\ queueJob' = "idle"
    /\ UNCHANGED <<runs, hidden, processVars>>

-----------------------------------------------------------------------------
(* consumedQueuedTorrents *)

\* queue.pending: the lookups that are running.
Pending == {r \in Run : runs[r].pc \in {"jackett", "magnet"}}
Busy == Cardinality(Pending) >= Concurrency

SetRun(r, state) ==
    /\ runs' = [runs EXCEPT ![r] = state]
    /\ UNCHANGED <<queueJob, hidden, processVars>>

\* Rows that a failed run left PROCESSING are taken up as well.
BugTakesProcessing(r) ==
    LET waiting == queuedTorrents \cup WithStatus("PROCESSING") IN
    /\ runs[r].pc = "idle"
    /\ \A q \in Run : runs[q].pc # "mark"
    /\ SetRun(r, [RunIdle EXCEPT !.pc = "mark", !.list = waiting, !.left = waiting])
    /\ UNCHANGED storeVars

\* The run reads the list.
BeginConsume(r) ==
    /\ runs[r].pc = "idle"
    /\ \A q \in Run : runs[q].pc # "mark"
    /\ SetRun(r, [RunIdle EXCEPT !.pc = "mark", !.list = queuedTorrents,
                                 !.left = queuedTorrents])
    /\ UNCHANGED storeVars

\* Either loop gives up when as many lookups run as may.
GiveUp(r) ==
    /\ runs[r].pc \in {"mark", "add"}
    /\ runs[r].left # {} /\ Busy
    /\ SetRun(r, RunIdle)
    /\ UNCHANGED storeVars

\* The row stays QUEUED while it is looked up.
BugNotMarked(r) ==
    /\ runs[r].pc = "mark"
    /\ runs[r].left # {} /\ ~Busy
    /\ SetRun(r, [runs[r] EXCEPT !.left = @ \ {Min(@)}])
    /\ UNCHANGED storeVars

MarkNext(r) ==
    /\ runs[r].pc = "mark"
    /\ runs[r].left # {} /\ ~Busy
    /\ updateTorrentStatus(Min(runs[r].left), "PROCESSING")
    /\ SetRun(r, [runs[r] EXCEPT !.left = @ \ {Min(@)}])

AllMarked(r) ==
    /\ runs[r].pc = "mark"
    /\ runs[r].left = {}
    /\ SetRun(r, [runs[r] EXCEPT !.pc = "add", !.left = runs[r].list, !.list = {}])
    /\ UNCHANGED storeVars

\* queue.add: indexTorrent starts at once, with a link to Jackett or with a
\* magnet link, and begins to write PROCESSING once more.
IndexNext(r) ==
    /\ runs[r].pc = "add"
    /\ runs[r].left # {} /\ ~Busy
    /\ LET next == Min(runs[r].left) IN
       \E lookup \in {"jackett", "magnet"} :
          SetRun(r, [runs[r] EXCEPT !.pc = lookup, !.row = next, !.write = next,
                                    !.left = @ \ {next}])
    /\ UNCHANGED storeVars

AllIndexed(r) ==
    /\ runs[r].pc = "add"
    /\ runs[r].left = {}
    /\ SetRun(r, RunIdle)
    /\ UNCHANGED storeVars

-----------------------------------------------------------------------------
(* indexTorrent *)

WriteProcessing(r) ==
    /\ runs[r].write # Null
    /\ updateTorrentStatus(runs[r].write, "PROCESSING")
    /\ SetRun(r, [runs[r] EXCEPT !.write = Null])

\* A driver that leaves the event loop free while it writes.
BugDriverDefers(r) == TRUE

\* better-sqlite3 does not: between the reading and the saving of the row are
\* promises only, and no answer comes from the network meanwhile.
Written(r) == runs[r].write = Null

\* The loop of the run goes on.
NextOfRun(r) == SetRun(r, [runs[r] EXCEPT !.pc = "add", !.row = Null])

\* What there is to an answer of Jackett, "none" where a header is missing.
Response ==
    [status : {200, 302, 404}, location : {"none", "magnet", "http"},
     contentType : {"none", "torrent", "html"}, disposition : {"none", "attachment", "inline"},
     parses : BOOLEAN]

\* A redirect or a download without its header throws, where other answers
\* are null; so does what cannot be parsed.
getTorrentInfoFromJackettUrl(resp) ==
    LET parsed(sourceType) == IF resp.parses THEN sourceType ELSE "throws" IN
    CASE resp.status = 302 /\ resp.location = "none"   -> "throws"
      [] resp.status = 302 /\ resp.location = "magnet" -> parsed("magnet")
      [] resp.status = 200 /\ resp.contentType = "torrent" /\ resp.disposition = "none" -> "throws"
      [] resp.status = 200 /\ resp.contentType = "torrent" /\ resp.disposition = "attachment" ->
            parsed("file")
      [] OTHER -> "null"

JackettOutcomes == {getTorrentInfoFromJackettUrl(resp) : resp \in Response}

JackettSays(r, outcome) ==
    runs[r].pc = "jackett" /\ Written(r) /\ outcome \in JackettOutcomes

\* Jackett redirects to a magnet link, which has no files: it is looked up.
FoundMagnet(r) ==
    /\ JackettSays(r, "magnet")
    /\ SetRun(r, [runs[r] EXCEPT !.pc = "magnet", !.write = runs[r].row])
    /\ UNCHANGED storeVars

\* What Jackett says of a magnet link is taken for enough.
BugMagnetIsEnough(r) ==
    /\ r \in Pending /\ Written(r)
    /\ Save(runs[r].row, NewRow("READY", TRUE, Null))
    /\ NextOfRun(r)

\* A torrent file, or the metadata of a magnet link: enough info.
FoundInfo(r) ==
    /\ JackettSays(r, "file") \/ (runs[r].pc = "magnet" /\ Written(r))
    /\ \E h \in InfoHash : Save(runs[r].row, NewRow("READY", TRUE, h))
    /\ NextOfRun(r)

\* Jackett answers with something else, or the URL is of no known kind.
FoundNothing(r) ==
    /\ JackettSays(r, "null")
    /\ IsRow(runs[r].row)
    /\ update(runs[r].row, [rows[runs[r].row] EXCEPT !.status = "ERROR", !.isVisible = FALSE])
    /\ NextOfRun(r)

\* A lookup that times out has the status that is there for it, which no job
\* looks for.
BugTimesOut(r) ==
    /\ r \in Pending /\ Written(r)
    /\ Save(runs[r].row, NewRow("TIMEOUT", FALSE, Null))
    /\ NextOfRun(r)

\* fetch, the answer, the timeout of the magnet lookup, or the update of a row
\* that was deleted throws: nothing catches it, and the run ends with rows
\* left over.
LookupThrows(r) ==
    /\ r \in Pending /\ Written(r)
    /\ SetRun(r, RunIdle)
    /\ UNCHANGED storeVars

-----------------------------------------------------------------------------
(* Others that write rows, at the request of the web page or of a client   *)

\* DELETE api/torrents/:id
Remove(id) ==
    /\ listening
    /\ remove(id)
    /\ UNCHANGED <<jobVars, processVars>>

\* stopTorrent finds the first row with the infohash, hides it, and after the
\* torrent is destroyed shows it again, or fails to.
HideRow(id) ==
    /\ listening
    /\ IsRow(id) /\ rows[id].infoHash # Null
    /\ \A i \in DOMAIN rows : rows[i].infoHash = rows[id].infoHash => id <= i
    /\ update(id, [rows[id] EXCEPT !.isVisible = FALSE])
    /\ hidden' = hidden \cup {id}
    /\ UNCHANGED <<queueJob, runs, processVars>>

ShowRow(id) ==
    /\ id \in hidden
    /\ hidden' = hidden \ {id}
    /\ \/ IsRow(id) /\ update(id, [rows[id] EXCEPT !.isVisible = TRUE])
       \/ UNCHANGED storeVars
    /\ UNCHANGED <<queueJob, runs, processVars>>

\* The process dies and is started again: the jobs are lost, the table is not.
Crash ==
    /\ crashes < MaxCrashes
    /\ crashes' = crashes + 1
    /\ queueJob' = "idle"
    /\ runs' = [r \in Run |-> RunIdle]
    /\ hidden' = {} /\ listening' = FALSE
    /\ UNCHANGED <<storeVars, free>>

-----------------------------------------------------------------------------

Consume(r) == MarkNext(r) \/ AllMarked(r) \/ IndexNext(r) \/ AllIndexed(r) \/ GiveUp(r)

IndexTorrent(r) ==
    WriteProcessing(r) \/ FoundMagnet(r) \/ FoundInfo(r) \/ FoundNothing(r) \/ LookupThrows(r)

Next ==
    \/ AddFromFeed \/ AddFree \/ Listen
    \/ BeginQueueJob \/ PopNewTorrent
    \/ \E r \in Run : BeginConsume(r) \/ Consume(r) \/ IndexTorrent(r)
    \/ \E id \in Id : Remove(id) \/ HideRow(id) \/ ShowRow(id)
    \/ Crash

Spec == Init /\ [][Next]_vars

\* The cron jobs go on, and every lookup ends: fetch gives up on a silent
\* server, and a magnet lookup has its timeout.
Fairness ==
    /\ WF_vars(BeginQueueJob) /\ WF_vars(PopNewTorrent)
    /\ \A r \in Run : WF_vars(BeginConsume(r)) /\ WF_vars(Consume(r)) /\ WF_vars(IndexTorrent(r))

FairSpec == Spec /\ Fairness
=============================================================================
