---------------------------- MODULE TorrentInfo ----------------------------
(***************************************************************************)
(* TorrentInfoService and the second webtorrent client, which only looks   *)
(* torrents up: getTorrentInfoFromMagnetURI and destroyTorrent of          *)
(* WebTorrentService (server/src/torrent-info, server/src/webtorrent).     *)
(*                                                                         *)
(* A lookup adds the torrent, waits for its metadata or its timeout, and   *)
(* takes the torrent out again, with a timeout once more.  webtorrent is   *)
(* external, as in TorrentClient: destroy() takes a torrent out at once    *)
(* and calls back later, with or without an error, or never.               *)
(*                                                                         *)
(* The operators named Bug... are defects, as in TorrentClient.            *)
(***************************************************************************)
CONSTANTS
    InfoHash,
    Caller,  \* who looks torrents up, each one torrent at a time
    NoHash

ASSUME LookupAssumption == NoHash \notin InfoHash

VARIABLES
    inClient,  \* the torrents of the lookup client, with the callers that added them
    lookup     \* where the lookup of each caller is

lookupVars == <<inClient, lookup>>

\* found: the metadata is there.  "info" and "threw" are the two results.
Lookup == [pc : {"none", "wait", "locate", "destroying", "info", "threw"},
           hash : InfoHash \cup {NoHash}, found : BOOLEAN]
NoLookup == [pc |-> "none", hash |-> NoHash, found |-> FALSE]

LookupTypeOK == inClient \subseteq InfoHash \X Caller /\ lookup \in [Caller -> Lookup]

\* Init, and the client of a process that has started again.
LookupInit == inClient = {} /\ lookup = [c \in Caller |-> NoLookup]
LookupsLost == inClient' = {} /\ lookup' = [c \in Caller |-> NoLookup]

-----------------------------------------------------------------------------

\* client.get(h)
Torrents(h) == {t \in inClient : t[1] = h}

\* client.add of a torrent that the client has: the client emits an error
\* nobody listens for, which ends the process.
Collides(h) == Torrents(h) # {}

Ask(c, h) ==
    /\ lookup[c].pc = "none"
    /\ ~Collides(h)
    /\ inClient' = inClient \cup {<<h, c>>}
    /\ lookup' = [lookup EXCEPT ![c] = [pc |-> "wait", hash |-> h, found |-> FALSE]]

\* A torrent that was destroyed will not have it.
Metadata(c) ==
    /\ lookup[c].pc = "wait"
    /\ <<lookup[c].hash, c>> \in inClient
    /\ lookup' = [lookup EXCEPT ![c].pc = "locate", ![c].found = TRUE]
    /\ UNCHANGED inClient

\* The error is passed on and the torrent stays.
BugTimeoutKeeps(c) ==
    /\ lookup[c].pc = "wait"
    /\ lookup' = [lookup EXCEPT ![c].pc = "threw"]
    /\ UNCHANGED inClient

\* The caller waits for the metadata however long it takes.
BugNoTimeout(c) == FALSE /\ UNCHANGED lookupVars

\* pTimeout on the metadata.
LookupTimeout(c) ==
    /\ lookup[c].pc = "wait"
    /\ lookup' = [lookup EXCEPT ![c].pc = "locate"]
    /\ UNCHANGED inClient

Result(found) == IF found THEN "info" ELSE "threw"

\* destroyTorrent awaits the torrent and destroys it.  The second time there
\* is none, or that of another lookup; without one it has nothing to do.
Locate(c) ==
    LET present == Torrents(lookup[c].hash) IN
    /\ lookup[c].pc = "locate"
    /\ inClient' = inClient \ present
    /\ lookup' = [lookup EXCEPT ![c].pc =
          IF present = {} THEN Result(lookup[c].found) ELSE "destroying"]

\* destroy calls back.  Its error is thrown, as the timeout of the metadata is.
Destroyed(c) ==
    /\ lookup[c].pc = "destroying"
    /\ \E err \in BOOLEAN :
          lookup' = [lookup EXCEPT ![c].pc = Result(lookup[c].found /\ ~err)]
    /\ UNCHANGED inClient

\* pTimeout on destroy.  After the metadata, the TimeoutError is taken for
\* that of the metadata: the torrent is destroyed once more.
DestroyTimeout(c) ==
    /\ lookup[c].pc = "destroying"
    /\ lookup' = [lookup EXCEPT ![c].pc = IF lookup[c].found THEN "locate" ELSE "threw",
                                ![c].found = FALSE]
    /\ UNCHANGED inClient

\* What comes about without the network and without webtorrent.
OwnStep(c) == LookupTimeout(c) \/ Locate(c) \/ DestroyTimeout(c)

LookupStep(c) == Metadata(c) \/ Destroyed(c) \/ OwnStep(c)

\* The caller goes on with the result.
Answered(c, result) ==
    /\ lookup[c].pc = result
    /\ lookup' = [lookup EXCEPT ![c] = NoLookup]
    /\ UNCHANGED inClient
=============================================================================
