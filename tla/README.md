# Streamarrfs in TLA+

Streamarrfs is a NestJS server that shows torrents as directories of a FUSE
file system and streams a file's pieces when somebody reads it. This directory
holds TLA+ modules for the parts of it that hold state, TLC configurations that
check them, and proofs for TLAPS. `PROJECT.json` says for every definition
which lines of the source it stands for. Paths below are under `src/server/src`.

## The system

| Component | State | Operations |
| --- | --- | --- |
| `StreamarrFsService` (`streamarrfs/`) | none of its own but the mount | FUSE handlers `open`, `read`, `release`, `readdir`, `getattr`; `makeTorrentReadable`; mount, unmount |
| `WebTorrentService` (`webtorrent/`) | `client.torrents` with `ready`, and its own fields on each torrent: `status`, `lastReadDate`, `activeReads` | start with timeout, stop, lookups, three event listeners, cron jobs `updateTorrentStatus` and `pauseOrStopTorrents` (30 s) |
| `StreamarrService` (`streamarr/`) | none | `stopTorrent` for the web page: hide the row, destroy the torrent, show the row |
| `TorrentsService` and the `Torrent` entity (`torrents/`) | the sqlite table | find, create, update, remove, `popNewTorrent` |
| `TorrentIndexerService` (`torrents/indexer/`) | a flag, a `PQueue`, runs in flight | cron jobs `queueNewTorrents` (10 s) and `consumedQueuedTorrents` (30 s), `indexTorrent` |
| `TorrentInfoService`, `TorrentUtil` | a second webtorrent client | metadata of a magnet link, of a Jackett link |
| `JackettTorrentSourceService`, `FreeTorrentSourceService` (`torrents/sources/`) | `isTaskRunning` | add rows |
| `TorrentsController` | none | REST on the table |
| `main.ts` and the Nest hooks | the mount, the running process | start: mount, sources, listen; signal: unmount, destroy the client, kill |
| configuration, health check, web page, migrations | none | |

How they interact. A FUSE client opens a file; `open` looks the torrent up in
the table and emits an event. `read` checks the limit of ready torrents, finds
or starts the torrent in the client, or waits for another read that is starting
it, and then copies pieces. Events reach listeners that keep `lastReadDate`,
`status` and `activeReads`. Two cron jobs mark idle torrents and stop the marked
ones. The web page stops torrents as well. The sources create NEW rows, the
indexer turns them into READY and visible ones, and the file system shows those.
The free source and the indexer share a second client for lookups, and the
server listens only after the free torrents were looked up.

What is hard. Everything runs on one thread, but every `await` lets others run:
two reads of one torrent, a read and a stop, the sweep and a stop, two runs of
the indexer. Destroying a torrent leaves promises that never settle, timers that
fire later, and an array that shrinks under a loop. Starts time out, lookups
throw, the process crashes and keeps its table and its mount. `PROJECT.json`
lists these hazards with their lines and the properties that cover them.

What makes each part correct. The client: one torrent per infohash, a bounded
number of ready ones, every torrent sooner or later stopped. The read path:
every read is answered, and a torrent with a recent read is not stopped (one whose
read waits for pieces longer than that may be). The indexer:
each row is looked up once at a time, every row has its turn and ends READY or
ERROR. The table: what is visible is complete. The directories: what is listed
exists and is what it is, and a read returns what was asked for. The sources:
nothing is created twice, and no failure silences them. The process: it comes up
again over whatever the last one left, and a stop leaves nothing mounted unless
the unmount itself failed or came too early.

## The modules

| Module | Models |
| --- | --- |
| `TorrentClient` | `client.torrents`, the service's fields, the listeners, the two cron computations; operators and actions on one client |
| `Streaming` | extends it with file handles, events, stop requests, sweeps, time and crashes: one running process |
| `StreamingProperties` | its properties |
| `MCStreaming` | its instances |
| `TorrentPool` | abstract: the soft limit of ready torrents; `Streaming` implements it |
| `TorrentClientProofs`, `StreamingProofs`, `StreamingIdleProofs`, `StreamingReadsProofs` | theorems about `Streaming` |
| `TorrentStore` | the table and `TorrentsService` |
| `TorrentIndexer` | extends it with the indexer's jobs, the sources, deletions, hiding and showing |
| `TorrentIndexerProperties` | its properties |
| `TorrentLifeCycle` | abstract: what becomes of a torrent; `TorrentIndexer` implements it |
| `TorrentIndexerProofs` | theorems about `TorrentIndexer` |
| `TorrentInfo` | the lookup client: `getTorrentInfoFromMagnetURI`, `destroyTorrent` |
| `TorrentSources` | extends it with Jackett's job, the free torrents and the start of the server, with properties |
| `TorrentSourcesProofs` | theorems about `TorrentSources` |
| `MountLifecycle`, `MountLifecycleProofs` | start and stop of the process, mount and unmount; theorems about them |
| `FileTree`, `FileTreeProofs` | `buildTree`, `readdir`, `getattr`, the copy loop of `read`, and what they have to answer; theorems about them |

Operators whose names begin with `Bug` are defects. No specification contains
them; each replaces the definition it stands next to in a run that has to fail,
which shows that the property is about the code.

### Streaming

A `Session` is one file handle. `pc[s]` says where its handler is: `opening` and
`check` are the first awaits of `open` and `read`; `find`, `lookup`, `locate`
and `start` are the lookups of `makeTorrentReadable` and
`startTorrentWithTimeout`; `starting` waits for `client.add`, and becomes
`orphaned` when somebody destroys that torrent and `expired` when the timeout
fires; `destroying` waits for the clean-up; `poll` and `polled` are `pWaitFor`;
`file`, `stream` and `cut` are the rest of `read`. One action is the code from
one await to the next. The locals that survive an await, `readyTorrent` and
`torrentInfo`, are in `local[s]`.

Events are a set: a listener awaits a lookup first, so its effect comes some
time after `emit`, and in any order. `Settled` says that it comes before the
FUSE client asks again. Equal events of one handle coincide; all that is lost is
a second write of the same date.

The sweep keeps its position in an array that others change, like the iterator
of `for...of` does. Time is counted in ticks up to the larger threshold, beyond
which `updateTorrentStatus` tells nothing apart.

webtorrent is external. Modelled is what the service relies on: `add` makes a
torrent findable at once and ready later or never, `destroy` takes it out at
once and calls back later, with or without an error, `add`'s callback never
comes for a destroyed torrent, and its streams break or stall.

The database driver is synchronous and `client.get` resolves without I/O, so
several of these awaits are interrupted by microtasks only. The model lets
anything happen at each of them. Safety shown here holds a fortiori; no finding
rests on such a narrow interleaving.

`stopTorrentWithInfoHash` on a torrent that is gone dereferences null inside an
async promise executor. No `try` sees that rejection and Node.js ends the
process. The model does the same (`ProcessExit`), in the three places that call
it. The compose files have no restart policy; `Start` is the operator's.

`torrent.paused` is not modelled: the only `pause()` is commented out, so
`resumeTorrent` always returns null and the "is paused" branches are dead.

### TorrentIndexer

A row keeps its status, `isVisible` and its infohash; files, name and magnet
link are set together with it. `updateTorrentStatus` spreads the caller's copy
of the row over the row: the copy was taken while the row was QUEUED, so it
resets the other columns, and inserts the row again if it was deleted. `update`
with some columns only fails on a deleted row, whose insert lacks `feedGuid`.

A run of `consumedQueuedTorrents` is in `mark` (first loop), `add` (second loop)
or in a lookup (`jackett`, `magnet`). `queue.add` is awaited, so a run looks up
one row at a time, and `queue.pending` counts runs in a lookup.

Assumed of time: a job is through with the database before its own next tick (10
or 30 s). The two jobs tick at the same second, and interleave. With this
assumption the flag `isQueueJobRunning` is true exactly between the count and the
end of the pop; `isProcessingJobRunning` is never read.

`indexTorrent` does not await its writes of PROCESSING. Such a write is pending in
`write` and comes about by itself (`WriteProcessing`), at any time while other
actors take their steps. That it comes before the answer from the network is
`Written`: the driver is better-sqlite3 (`data-source.ts`), which does not leave
the event loop, so that no I/O is served before the write is through. With a
driver that does, `ReadyStays` fails (`BugDriverDefers`).

A free torrent's `feedGuid` is its infohash, and its magnet link is looked up in
the table before its metadata is. `free` holds the rows of this source: an infohash of
`FreeHash` enters once, until it is deleted, and only before the server listens.
`stopTorrent` hides the first row of an infohash (`findOneByInfoHash`).

What Jackett answers is a record of status and headers, and
`getTorrentInfoFromJackettUrl` a function of it. A redirect or a download
without its header throws, where other unexpected answers are null: the first
ends the run, the second makes the row an ERROR.

POST and PATCH let an operator write any column; they are not modelled.

### TorrentInfo and TorrentSources

A lookup adds its torrent to the second client, waits for the metadata or the
timeout, and destroys the torrent, again with a timeout. Its awaits are
`lookup[c].pc`. `destroyTorrent` looks the torrent up by infohash, so it finds
nothing the second time, or the torrent of another lookup. When it finds nothing, a
lookup whose metadata came returns it, and any other one throws. A `TimeoutError` of
`destroyTorrent` after the metadata came is caught by the handler meant for the
metadata's, which destroys once more; the model does so. `client.add` of a torrent
that is there makes the client emit an error without a listener, which ends the
process (`FreeCollides`, `IndexerCollides`).

`TorrentIndexer` takes a lookup for one step that answers or throws and leaves
the client out; here it is the other way round: the indexer is any caller that
asks for any torrent at any time.

A row is its `feedGuid`, which is unique. `runJob` is run 5 seconds after the
start and by a cron, guarded by one flag; feeds fail for whatever reason at any
point. RSS and JSON feeds differ in parsing only.

### MountLifecycle

The mount path is absent, a directory, a mount, or a stale one: a mount whose
process has died, below which nothing can be removed until it is unmounted. The
start is `rm`, `mkdir`, unmount, mount, sources, listen, as `onModuleInit` and
`bootstrap` await them. Each of `rm`, `mkdir`, unmount and mount may fail for any
reason. `wipeAndRecreateMountedPath` and `unmountFs` log their errors and resolve,
so the start and the shutdown go on; only `mountFs` rejects, which ends the
process. That the operator has to unmount by hand after a forced removal
(`src/README.md:229`) is an unmount that fails.

`Signal` is the signal. Nest then closes the HTTP server and waits until every
connection is closed, which the event stream of an open web page (`dashboard`,
`StreamarrController.sse`) never is by itself; then it runs the shutdown hooks
(`HttpClosed`). Both services are providers of one module, so their hooks run side by
side. The process kills itself when both are over. Nothing stops a start that is under
way: after a signal during the start, its mount may come after the hook's unmount.
`mountLeft` remembers that the hook's unmount failed. `StopLeavesNoMount` says that
these two are the only reasons for a mount a process leaves behind when it kills
itself. `RestartsRecover` says that what is left does no lasting harm: a process that
is started again whenever it is down comes up with its file system mounted, if it
is not for ever signalled, killed, or refused the mkdir or unmount it needs
(`Setback`).

### FileTree

Names are few, paths up to three deep, and `"length"` is one of the names,
because `buildTree` keeps a file's length under that key. Torrents whose files
could not be on a disk (a name that is file and directory) are left out, and
names inherited from `Object.prototype`. The reference is stated on the list of
files, without a tree.

`read` here is the copy loop of a read whose torrent is in the client: the
iterator of webtorrent yields the bytes from `pos` to `pos + len`, end included,
in the torrent's pieces, and `data.copy` puts into the buffer what it has room
for. A byte is its position in the file.

## What the runs check

| Run | Instance | States | Shows |
| --- | --- | --- | --- |
| `StreamingLimit` | 3 torrents, 2 handles, 1 sweep, limit 1 | 739 076 | `NoDuplicates`, `ReadyBound`, `ImplementsPool` |
| `StreamingStops` | 1 torrent, 2 handles, 1 stop request, 1 sweep | 93 434 | `TypeOK`, `PendingHasStarter`, `ReadyIsTimed`, `ActiveReadsDrift`, `ReadsAreAnswered` |
| `StreamingIdle` | 2 torrents, 1 handle, 1 sweep, thresholds 1 and 2 | 26 016 | `MarkedIsIdle`, `IdleTorrentsAreStopped` |
| `Indexing` | 3 rows, 1 infohash, also of a free torrent, 2 runs, concurrency 1, 1 crash | 200 980 | `TypeOK`, `VisibleIsReady`, `NoDoubleIndexing`, `QueuedBound`, `ReadyStays`, `FollowsLifeCycle`, `NewRowsAreTaken` |
| `Sources` | 2 feeds, 1 item, 2 free torrents, 1 other caller | 187 608 | `TypeOK`, `CreateIsAccepted`, `LookupsAreCleanedUp`, `BootstrapEnds`, `FeedsAreAskedAgain` |
| `Lifecycle` | any number of starts, signals, crashes and failures, a web page, no auto-unmount | 438 | `TypeOK`, `ListeningIsMounted`, `StopLeavesNoMount`, `StopEnds`, `RestartsRecover` |
| `FileTree` | lists of up to 3 files, 3 deep, 2 names, lengths 0 and 3, pieces of 2 | 231 582 | `TypeOK`, `ListingsAreExact`, `AttributesAreExact`, `ReadsAreExact`, `ListedIsKnown` |

Why these bounds. `ReadyBound` needs two handles and three torrents: one torrent
left ready by a closed handle, two being started. The hazards around a torrent's
end need its starter, another reader and two who stop it; a second torrent adds
nothing to them, and the theorems hold for any number. A sweep skips one
position per stop, so two torrents show it. The indexer's runs overlap while
one of them looks a row up: at the default concurrency, 1, the other one marks
rows, gives up before or after, and leaves what the queue must get over. Three
rows are one looked up, one left on a list and one new. Lists of several rows
need a greater concurrency: the theorems prove each safety property of the run for
any (what setting it does is the hazard at `config.ts:86`). A feed before and one
after the one that fails are two; the guid both runs want is one. A file of 3 bytes in
pieces of 2, before and after others, begins and ends inside pieces and on their
borders; reads of 1 and 4 bytes end before, at and past its end. With
auto-unmount a dead process leaves a directory, so the run takes the harder case.
The symmetry sets are used in safety runs only.

### What the code does not do as documented

Five runs must be violated, each by a property that quotes a comment or the
README of the repository.

| Run | Documented | What happens |
| --- | --- | --- |
| `DocStreamingWithinMax` | "The maximum number of torrents allowed to be streaming at any given time" | two reads pass the check while neither torrent is ready |
| `DocOpenRefused` | "Cannot open ... Max ready torrents reached." | a missing `await`: the check never refuses |
| `DocExpiredStart` | "null is returned and the torrent is stopped" | the torrent was stopped by the web page before: null is dereferenced |
| `DocProcessingEnds` | "finds info of torrents", "failed to get full info" | a lookup that throws leaves its row PROCESSING for ever |
| `DocHiddenIsUnreadable` | "make sure any read can no longer happen" | two feed items are the same torrent: the row of the second stays visible |

More disagreements are in the model without a run. A read that waits for
pieces longer than the stop threshold has its torrent stopped under it, because
`lastReadDate` is set when a read begins and ends. And when `destroy` reports an
error to `stopTorrent`, or the process ends there, the row stays hidden. A
read between the signal and the unmount reaches a destroyed client, which ends
the process with its mount in place (`ReadTooLate`). The lookup of a torrent that
is being looked up ends the process. A web page that stays open keeps a signal from
ending it. `unmountFs` logs success and failure the wrong way round, and a failed
unmount is ignored.

### Abstract specifications

`TorrentPool` has torrents, those that are ready, and reads that want one. It
says what the limit promises: a read is let in for a torrent that is there, or
while fewer than the limit are ready; torrents enter and get ready for such
reads only. `ImplementsPool` maps the array to a set, and a handle between the
limit check and the torrent to what it wants. The forty actions of `Streaming`,
with timeouts, stops, sweeps and crashes, are six there or none.

`TorrentLifeCycle` has a stage for each torrent and the set the indexer has in
hand. `FollowsLifeCycle` maps a row's status and visibility to the stage, and
what runs still have on their lists to the hand: no row is taken twice, shown
before it is finished or worked on after, although runs overlap, keep copies of
rows and lose them.

### Fairness

`Streaming!Fairness` is weak fairness of what Node.js runs by itself: the code
after an await, the timers, the listeners, the cron jobs, the callback of
`destroy`, the clock. Nobody has to open, read, stop or restart, no metadata and
no piece has to arrive, and a stalled stream may stall for ever.
`IdleTorrentsAreStopped` therefore speaks of torrents that are no longer read,
and `ReadsAreAnswered` stops where the peers decide.

`TorrentIndexer!Fairness` adds that every lookup ends: a magnet lookup has its
timeout, and `fetch` gives up on a silent server. Crashes are finitely many.

`TorrentSources!Fairness`: timers fire, the cron ticks, a feed answers or its
request fails. No torrent need ever be found and no `destroy` need call back.
`FeedsAreAskedAgain` speaks of a process that stays up. `MountLifecycle!FairSpec`:
`rm`, `mkdir`, `fusermount` and `client.destroy` return, well or not, an HTTP server
without connections closes, and both hooks being over, the process kills itself; that the
sources are through is what `BootstrapEnds` shows. Nobody has to start the process
or to close the web page: `StopEnds` speaks of a signal while no page is open, and
`RestartsRecover` of an operator who keeps starting it.

## What is proved

About `Streaming`, for all finite sets of torrents and handles, any sets of stop
requests and sweeps, every limit and threshold of at least 1 (the named
assumptions of `TorrentClient` and `Streaming`; `parseInt(...) || default` never
yields 0); about `TorrentIndexer`, for every number of rows, runs, crashes and
every concurrency; about `TorrentSources`, for all sets of feeds, items, torrents and
callers; about `MountLifecycle`, with auto-unmount and without; about `FileTree`,
for all names, numbers and depths of files, lengths, pieces and reads
(`ReadAssumption`; `NameAssumption`, that no infohash is a name in a torrent):

| Theorem | |
| --- | --- |
| `StreamingProofs!TypeCorrect` | `Spec => []TypeOK` |
| `StreamingProofs!NeverDuplicate` | `Spec => []NoDuplicates` |
| `StreamingProofs!PendingAlwaysHasStarter` | `Spec => []PendingHasStarter` |
| `StreamingProofs!ReadyIsBounded` | `Spec => []ReadyBound` |
| `StreamingProofs!PoolImplemented` | `Spec => ImplementsPool` |
| `StreamingIdleProofs!MarkedStaysIdle` | `Spec => []MarkedIsIdle` |
| `StreamingIdleProofs!ReadyAlwaysTimed` | `Spec => []ReadyIsTimed` |
| `StreamingReadsProofs!CountDriftsByOne` | `Spec => []ActiveReadsDrift` |
| `TorrentIndexerProofs!TypeCorrect` | `Spec => []TypeOK` |
| `TorrentIndexerProofs!VisibleAreReady` | `Spec => []VisibleIsReady` |
| `TorrentIndexerProofs!NoneIndexedTwice` | `Spec => []NoDoubleIndexing` |
| `TorrentIndexerProofs!ReadyForGood` | `Spec => ReadyStays` |
| `TorrentIndexerProofs!QueueIsBounded` | `Spec => []QueuedBound` |
| `TorrentIndexerProofs!LifeCycleFollowed` | `Spec => FollowsLifeCycle` |
| `TorrentSourcesProofs!TypeCorrect` | `Spec => []TypeOK` |
| `TorrentSourcesProofs!CreatesAreAccepted` | `Spec => []CreateIsAccepted` |
| `TorrentSourcesProofs!NothingLeftBehind` | `Spec => []LookupsAreCleanedUp` |
| `MountLifecycleProofs!TypeCorrect` | `Spec => []TypeOK` |
| `MountLifecycleProofs!MountedWhileListening` | `Spec => []ListeningIsMounted` |
| `MountLifecycleProofs!NoMountLeft` | `Spec => StopLeavesNoMount` |
| `FileTreeProofs!TypeCorrect` | `Spec => []TypeOK` |
| `FileTreeProofs!ListingsExact` | `Spec => []ListingsAreExact` |
| `FileTreeProofs!AttributesExact` | `Spec => []AttributesAreExact` |
| `FileTreeProofs!ReadsExact` | `Spec => []ReadsAreExact` |
| `FileTreeProofs!ListedFound` | `Spec => []ListedIsKnown` |

Streaming. `TypeOK` is inductive as it stands. Its second part, a handle has a torrent
exactly while it is in use, is what the other proofs need of it.

`ReadyBound` is not inductive: a state at the bound may have a torrent about to
become ready. The invariant is `TorrentsInv`: no duplicates; every ready torrent
is in the client; every pending one has a waiting read; and `PlacesBound`, which
bounds the ready torrents together with those a read in flight wants
(`Wanted`), since each read occupies one place from the limit check on, whether
its torrent is ready yet or not. At the check there is a place left, or the
torrent has one already. `ReadyBound` follows, as what exceeds the limit has
handles of its own.

The proofs do not go through the forty actions once per invariant. `NextTorrents`
first shows that a step is of one of seven kinds as far as the array and the
reads in flight are concerned (`TorrentsStep`), and `NextClock` likewise for
dates and marks (`ClockStep`); the invariants are then proved against the kinds.

`MarkedIsIdle` is inductive given the type invariant; `ReadyIsTimed` needs
besides that pending torrents have a waiting read, whose event dates the torrent
as soon as it is ready.

`TorrentClientProofs` has what the actions do to the client, among it that
`RemoveAt` takes exactly one element out of an array without duplicates.

`PoolImplemented` needs of the concrete state that ready torrents are in the
client, and the kinds of step `NextTorrents` has; each kind is one of the pool's
steps. `CountDriftsByOne` is not about the count alone: opens and releases are
counted when their event is handled. Its invariant compares the count with the
handles whose open was counted and whose release was not (`Counted`), says that
an event still to come belongs to the present handle, or to none
(`EventsMatch`), and that a count goes with its torrent (`CountInClient`): a
release handled after its torrent is gone changes nothing.

The indexer. `VisibleIsReady` and `ReadyStays` fail if a run that holds a copy
of a row may write it late. The invariant `StateInv` therefore says where copies
may be: what a run holds is PROCESSING, or QUEUED until it is marked
(`HeldAreAtWork`); what the stop button has hidden is READY and in nobody's
hands (`HiddenAreDone`); a row has its infohash exactly when it is READY
(`RowsAreComplete`); no two runs hold one row. A pending write
is to the row the run looks up (`WellFormed`), which `Written` keeps in its hands
until then. Since a deleted row comes back by
the insert of a late write, ids must not be reused (`IdsAreKnown`). `QueueIsBounded`
needs besides that the place counted before the pop is still free
(`QueueInv`). As above, every action is first shown to be one of eight kinds
(`RowsStep`), which are also what `LifeCycleFollowed` maps.

The sources. `CreateIsAccepted` follows from the flag: at most one run is at
work, so what it has not found nobody else creates (`OneRun`), and the free
torrents have other guids. `LookupsAreCleanedUp` is inductive with its types,
because a torrent enters for a lookup that is not in there twice: the second
would have ended the process.

The mount. `MountInv` says that a start past the mount, without a signal, has its
path mounted, and that after a signal that came later than the mount, the path is
mounted past the hook's unmount only if that failed.

The directories and the reads. Three of the properties speak of one state and
follow from the files being a `FileList`; the work is what the loops compute.
`buildTree`, `Offset` and the copying are folds over lists of any length, and
the induction theorems of the library are out of reach, since they take an
operator. `SetInduction` says the same of a set, proved from the well-foundedness
of `<`. `FoldExists` and `FoldRuns` then say of any fold that its values for the
first 0, 1, ... elements are a row, each the step applied to the one before, and
each loop has an invariant along its row: after some files and some names of the
next, the tree has exactly the keys these call for, an object at each name and
the length below the last (`IsPartOf`, `IsTreeOf`); after some pieces, the
buffer holds the bytes from `pos` to where they ended, or is full (`IsFilled`),
given that the chunks are consecutive (`ArePieces`). `KeysAreChildren` needs
that no name is a file and a directory at once: otherwise the key `"length"` of
a leaf would show among the names of a directory. `ListedIsKnown` relates a listing to a
later state; its invariant `ListingOK` says that the listing was of the mount
point, is empty, or is of a directory of a torrent, whose files do not change
while its row is hidden, shown or deleted. TLC checked it too.

Only model-checked: the seven liveness properties (`IdleTorrentsAreStopped`,
`ReadsAreAnswered`, `NewRowsAreTaken`, `BootstrapEnds`, `FeedsAreAskedAgain`,
`StopEnds`, `RestartsRecover`). Liveness under fairness, with its `ENABLED`, is out of the prover's
reach.

## Not modelled

- Configuration: environment variables read once. A number that cannot be parsed
  or is 0 becomes the default, which is what the assumptions say. Its slips
  (`config.ts` lines 75, 86, 124, 132) are settings that have no effect or that of
  another one; there is no state to check.
- The health check, which reads and does not write; the web page; wiring;
  migrations. The formatting of statistics.
- Parsing of feeds, torrents and magnet links, which libraries do.
- POST and PATCH of the REST controller, which may write anything.
- What is never called: `processingTorrents`, `pendingTorrents`,
  `findOneByRecentlyAdded`, `removeByInfoHash`, `tryResumeOtherwiseStartTorrent`,
  and `TorrentUtil` but for `getTorrentInfoFromJackettUrl`.
- The files webtorrent writes: both clients share a directory, and a lookup that
  destroys its torrent removes files another torrent may use.

## Plan

1. Done: the streaming core, the indexer, the sources with the lookup client,
   the start and stop of the process, directories and reads; two abstract
   specifications and their refinements; theorems for every safety property the
   passing runs check.
2. `TorrentIndexer` and `TorrentSources` composed: the indexer's lookups step by step
   on the shared client, instead of as any caller.
3. The downloads directory shared by the two clients, as far as webtorrent's
   behaviour on open files can be relied upon.
