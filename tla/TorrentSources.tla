--------------------------- MODULE TorrentSources ---------------------------
(***************************************************************************)
(* Where torrents come from, from the start of the process on:             *)
(* JackettTorrentSourceService reads its feeds 5 seconds after the start   *)
(* and at every tick of its cron; FreeTorrentSourceService looks up the    *)
(* free torrents, one after the other, and the server only listens when it *)
(* is through; the indexer looks torrents up with the same client.         *)
(*                                                                         *)
(* A row is named by its feedGuid, which is UNIQUE: the guid of a feed's   *)
(* item, or the infohash of a free torrent.  Feeds are enabled and of a    *)
(* known type, and are read in any order; items without guid or link are   *)
(* left out.  Nest starts the cron jobs before it runs the hook of the     *)
(* free torrents, so that a tick may come at any time of the start.        *)
(*                                                                         *)
(* The operators named Bug... are defects, as in TorrentClient.            *)
(***************************************************************************)
EXTENDS TorrentInfo

CONSTANTS
    Feed,       \* STREAMARRFS_JACKETT_FEEDS
    Item,       \* guids of items
    Free,       \* infohashes of freeMagnetLinks
    FreeSource  \* FreeTorrentSourceService as a caller; the rest is the indexer

ASSUME SourcesAssumption ==
    Free \subseteq InfoHash /\ FreeSource \in Caller /\ Item \cap InfoHash = {}

VARIABLES
    up,             \* "down", "starting" or "listening"
    table,          \* the feedGuids of the rows
    isTaskRunning,  \* of JackettTorrentSourceService
    job,            \* where its run after the start and the cron's run are
    free            \* where the loop over the free torrents is

vars == <<lookupVars, up, table, isTaskRunning, job, free>>

Job == {"start", "cron"}
Indexer == Caller \ {FreeSource}

\* feeds: those to come.  items: those of the present feed to come, item the
\* one that was not found.
JobState == [pc : {"off", "idle", "next", "fetch", "items", "create"}, feeds : SUBSET Feed,
             feed : Feed \cup {NoHash}, items : SUBSET Item, item : Item \cup {NoHash}]
JobAt(pc) == [pc |-> pc, feeds |-> {}, feed |-> NoHash, items |-> {}, item |-> NoHash]

FreeState == [pc : {"off", "find", "asked"}, left : SUBSET Free]
FreeOff == [pc |-> "off", left |-> {}]

TypeOK ==
    /\ LookupTypeOK
    /\ up \in {"down", "starting", "listening"}
    /\ table \subseteq Item \cup Free
    /\ isTaskRunning \in BOOLEAN
    /\ job \in [Job -> JobState]
    /\ free \in FreeState

Init ==
    /\ LookupInit
    /\ up = "down" /\ table = {} /\ isTaskRunning = FALSE
    /\ job = [j \in Job |-> JobAt("off")]
    /\ free = FreeOff

-----------------------------------------------------------------------------
(* The process *)

\* onApplicationBootstrap of both sources; Jackett's is over at once.
Start ==
    /\ up = "down"
    /\ up' = "starting"
    /\ job' = [j \in Job |-> JobAt("idle")]
    /\ free' = [pc |-> "find", left |-> Free]
    /\ UNCHANGED <<lookupVars, table, isTaskRunning>>

\* app.listen
Listen ==
    /\ up = "starting" /\ free.pc = "off"
    /\ up' = "listening"
    /\ UNCHANGED <<lookupVars, table, isTaskRunning, job, free>>

ProcessEnds ==
    /\ up # "down"
    /\ LookupsLost
    /\ up' = "down" /\ isTaskRunning' = FALSE
    /\ job' = [j \in Job |-> JobAt("off")]
    /\ free' = FreeOff
    /\ UNCHANGED table

Crash == ProcessEnds

-----------------------------------------------------------------------------
(* JackettTorrentSourceService *)

SetJob(j, state) ==
    /\ job' = [job EXCEPT ![j] = state]
    /\ UNCHANGED <<lookupVars, up, free>>

\* The run after the start comes once; what it leaves is not run again.
AfterRun(j) == JobAt(IF j = "cron" THEN "idle" ELSE "off")

\* A run does not mind another one.
BugRunsOverlap(j) ==
    /\ job[j].pc = "idle"
    /\ isTaskRunning' = TRUE
    /\ SetJob(j, [JobAt("next") EXCEPT !.feeds = Feed])
    /\ UNCHANGED table

\* runJob begins: isTaskRunning is tested and set without an await between.
RunJob(j) ==
    /\ job[j].pc = "idle" /\ ~isTaskRunning
    /\ isTaskRunning' = TRUE
    /\ SetJob(j, [JobAt("next") EXCEPT !.feeds = Feed])
    /\ UNCHANGED table

\* The run after the start finds the cron's run at work; a tick of the cron
\* that finds the other changes nothing.
AbortJob ==
    /\ job["start"].pc = "idle" /\ isTaskRunning
    /\ SetJob("start", AfterRun("start"))
    /\ UNCHANGED <<isTaskRunning, table>>

NextFeed(j) ==
    /\ job[j].pc = "next"
    /\ \E f \in job[j].feeds :
          SetJob(j, [JobAt("fetch") EXCEPT !.feed = f, !.feeds = job[j].feeds \ {f}])
    /\ UNCHANGED <<isTaskRunning, table>>

EndJob(j) ==
    /\ job[j].pc = "next" /\ job[j].feeds = {}
    /\ isTaskRunning' = FALSE
    /\ SetJob(j, AfterRun(j))
    /\ UNCHANGED table

FetchFeed(j) ==
    /\ job[j].pc = "fetch"
    /\ \E items \in SUBSET Item : SetJob(j, [job[j] EXCEPT !.pc = "items", !.items = items])
    /\ UNCHANGED <<isTaskRunning, table>>

\* The error ends the whole run.
BugFeedEndsRun(j) ==
    /\ job[j].pc \in {"fetch", "items", "create"}
    /\ SetJob(j, AfterRun(j))
    /\ UNCHANGED <<isTaskRunning, table>>

\* No answer, a status other than 200, no feed, or an error of the database:
\* the feed is given up, and the next one has its turn.
FeedFails(j) ==
    /\ job[j].pc \in {"fetch", "items", "create"}
    /\ SetJob(j, [JobAt("next") EXCEPT !.feeds = job[j].feeds])
    /\ UNCHANGED <<isTaskRunning, table>>

\* findOneByFeedGuid; create comes after the await.
FindItem(j) ==
    /\ job[j].pc = "items"
    /\ \E i \in job[j].items :
          IF i \in table
          THEN SetJob(j, [job[j] EXCEPT !.items = @ \ {i}])
          ELSE SetJob(j, [job[j] EXCEPT !.items = @ \ {i}, !.pc = "create", !.item = i])
    /\ UNCHANGED <<isTaskRunning, table>>

CreateItem(j) ==
    /\ job[j].pc = "create" /\ job[j].item \notin table
    /\ table' = table \cup {job[j].item}
    /\ SetJob(j, [job[j] EXCEPT !.pc = "items", !.item = NoHash])
    /\ UNCHANGED isTaskRunning

FeedDone(j) ==
    /\ job[j].pc = "items" /\ job[j].items = {}
    /\ SetJob(j, [JobAt("next") EXCEPT !.feeds = job[j].feeds])
    /\ UNCHANGED <<isTaskRunning, table>>

JobStep(j) ==
    \/ NextFeed(j) \/ EndJob(j) \/ FetchFeed(j) \/ FeedFails(j)
    \/ FindItem(j) \/ CreateItem(j) \/ FeedDone(j)

-----------------------------------------------------------------------------
(* FreeTorrentSourceService *)

OthersSame == UNCHANGED <<up, isTaskRunning, job>>

FreeKnown ==
    /\ free.pc = "find"
    /\ \E h \in free.left \cap table : free' = [free EXCEPT !.left = @ \ {h}]
    /\ OthersSame /\ UNCHANGED <<lookupVars, table>>

FreeAsks ==
    /\ free.pc = "find"
    /\ \E h \in free.left \ table :
          Ask(FreeSource, h) /\ free' = [pc |-> "asked", left |-> free.left \ {h}]
    /\ OthersSame /\ UNCHANGED table

\* The indexer is looking the same torrent up.
FreeCollides ==
    /\ free.pc = "find"
    /\ \E h \in free.left \ table : Collides(h)
    /\ ProcessEnds

\* The row has its metadata, and is visible at once.
FreeCreate ==
    /\ free.pc = "asked"
    /\ Answered(FreeSource, "info")
    /\ table' = table \cup {lookup[FreeSource].hash}
    /\ free' = [free EXCEPT !.pc = "find"]
    /\ OthersSame

\* The error is only logged: a row without infohash, and so without a guid.
BugCreatesUnknown ==
    /\ free.pc = "asked"
    /\ Answered(FreeSource, "threw")
    /\ table' = table \cup {NoHash}
    /\ free' = [free EXCEPT !.pc = "find"]
    /\ OthersSame

\* One that is not found ends the loop, until the next start.
FreeThrows ==
    /\ free.pc = "asked"
    /\ Answered(FreeSource, "threw")
    /\ free' = FreeOff
    /\ OthersSame /\ UNCHANGED table

FreeDone ==
    /\ free.pc = "find" /\ free.left = {}
    /\ free' = FreeOff
    /\ OthersSame /\ UNCHANGED <<lookupVars, table>>

FreeStep == FreeKnown \/ FreeAsks \/ FreeCollides \/ FreeCreate \/ FreeThrows \/ FreeDone

-----------------------------------------------------------------------------
(* The other users of the client and of the table *)

IndexerAsks(c, h) ==
    /\ up # "down"
    /\ Ask(c, h)
    /\ OthersSame /\ UNCHANGED <<table, free>>

IndexerCollides(c, h) ==
    /\ up # "down" /\ lookup[c].pc = "none"
    /\ Collides(h)
    /\ ProcessEnds

IndexerGoesOn(c) ==
    /\ \E result \in {"info", "threw"} : Answered(c, result)
    /\ OthersSame /\ UNCHANGED <<table, free>>

\* DELETE api/torrents/:id
Delete(guid) ==
    /\ up = "listening" /\ guid \in table
    /\ table' = table \ {guid}
    /\ OthersSame /\ UNCHANGED <<lookupVars, free>>

-----------------------------------------------------------------------------

LookUp(c) == LookupStep(c) /\ OthersSame /\ UNCHANGED <<table, free>>
TimedLookUp(c) == OwnStep(c) /\ OthersSame /\ UNCHANGED <<table, free>>

Next ==
    \/ Start \/ Listen \/ Crash
    \/ AbortJob
    \/ \E j \in Job : RunJob(j) \/ JobStep(j)
    \/ FreeStep
    \/ \E c \in Caller : LookUp(c)
    \/ \E c \in Indexer : IndexerGoesOn(c)
    \/ \E c \in Indexer, h \in InfoHash : IndexerAsks(c, h) \/ IndexerCollides(c, h)
    \/ \E guid \in table : Delete(guid)

Spec == Init /\ [][Next]_vars

\* Timers fire, the cron ticks, and a feed answers or the request fails.  No
\* torrent need ever be found, no destroy call back, and nobody restarts a
\* process that has ended.
Fairness ==
    /\ WF_vars(Listen) /\ WF_vars(FreeStep) /\ WF_vars(RunJob("cron"))
    /\ \A j \in Job : WF_vars(JobStep(j))
    /\ \A c \in Caller : WF_vars(TimedLookUp(c))

FairSpec == Spec /\ Fairness

-----------------------------------------------------------------------------
(* Properties *)

\* What was not found by its guid is still not there when it is created,
\* although the run after the start and the cron's run read the same feeds:
\* otherwise the UNIQUE feedGuid would fail the rest of the feed.
CreateIsAccepted == \A j \in Job : job[j].pc = "create" => job[j].item \notin table

\* Nothing stays behind in the lookup client, which has no limit and no job
\* that would stop it: each torrent there belongs to a lookup that will
\* still take it out, whatever timeouts and errors the others had.
LookupsAreCleanedUp ==
    \A t \in inClient : lookup[t[2]].pc \in {"wait", "locate"} /\ lookup[t[2]].hash = t[1]

\* The server gets to listen although the lookups of the free torrents come
\* first and may never find anything.
BootstrapEnds == up = "starting" ~> up # "starting"

\* No feed is given up for good because one feed, or one run, has failed.
FeedsAreAskedAgain ==
    (<>[](up # "down")) =>
        \A f \in Feed : []<>(\E j \in Job : job[j].pc = "fetch" /\ job[j].feed = f)
=============================================================================
