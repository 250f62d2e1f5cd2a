---------------------------- MODULE TorrentStore ----------------------------
(***************************************************************************)
(* The torrent table, and TorrentsService, through which all other parts   *)
(* read and write it (server/src/torrents/torrents.service.ts).            *)
(*                                                                         *)
(* A row keeps its status, isVisible and the infohash; files, name and     *)
(* magnetURI are set together with the infohash and are not told apart     *)
(* from it.  The driver, better-sqlite3, is synchronous: one call of the   *)
(* service is one step.                                                    *)
(***************************************************************************)
EXTENDS Integers, FiniteSets, FiniteSetsExt

CONSTANTS
    MaxRow,     \* rows ever created: a bound of the model
    InfoHash,   \* infohashes found for them
    Null        \* SQL's NULL

ASSUME StoreAssumption == MaxRow \in Nat /\ Null \notin InfoHash /\ Null \notin Int

VARIABLES
    rows,    \* the table: ids to rows
    nextId   \* the next AUTOINCREMENT id; none is used twice

storeVars == <<rows, nextId>>

Id == 1..MaxRow

\* TIMEOUT is declared as well, but nothing assigns it.
TorrentInfoStatus == {"NEW", "QUEUED", "PROCESSING", "READY", "ERROR"}

Torrent == [status : TorrentInfoStatus, isVisible : BOOLEAN, infoHash : InfoHash \cup {Null}]

StoreTypeOK ==
    /\ nextId \in 1..(MaxRow + 1)
    /\ \E ids \in SUBSET (1..(nextId - 1)) : rows \in [ids -> Torrent]

StoreInit == rows = [id \in {} |-> Null] /\ nextId = 1

-----------------------------------------------------------------------------

IsRow(id) == id \in DOMAIN rows

WithStatus(s) == {id \in DOMAIN rows : rows[id].status = s}

queuedTorrents == WithStatus("QUEUED")

NewRow(status, isVisible, infoHash) ==
    [status |-> status, isVisible |-> isVisible, infoHash |-> infoHash]

\* save() of an entity that has an id: the row is replaced, or inserted when
\* there is none.
Put(id, row) == [i \in DOMAIN rows \cup {id} |-> IF i = id THEN row ELSE rows[i]]

Save(id, row) == rows' = Put(id, row) /\ UNCHANGED nextId

create(row) ==
    /\ nextId \in Id
    /\ rows' = Put(nextId, row)
    /\ nextId' = nextId + 1

remove(id) ==
    /\ IsRow(id)
    /\ rows' = [i \in DOMAIN rows \ {id} |-> rows[i]]
    /\ UNCHANGED nextId

\* updateTorrentStatus(torrent, s) spreads the caller's copy of the row over
\* the row.  Callers have a copy taken before the row was indexed, which
\* brings its columns back, and the row itself if it was deleted.
updateTorrentStatus(id, s) == Save(id, NewRow(s, FALSE, Null))

\* update(id, { ... }) with some columns only.  Without a row there is no
\* feedGuid, which is NOT NULL: the insert fails.
update(id, row) == IsRow(id) /\ Save(id, row)

\* The first NEW row by createdAt, which is the order of the ids.
popNewTorrent ==
    IF WithStatus("NEW") = {}
    THEN UNCHANGED storeVars
    ELSE updateTorrentStatus(Min(WithStatus("NEW")), "QUEUED")
=============================================================================
