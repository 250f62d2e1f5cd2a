---------------------------- MODULE TorrentPool ----------------------------
(***************************************************************************)
(* STREAMARRFS_TORRENT_MAX_READY as the code keeps it, without file        *)
(* handles, timeouts or cron jobs: a read may want a torrent that is       *)
(* there, or any torrent while fewer than Limit are ready; torrents are    *)
(* added, and get ready, for a read that wants them only.  The limit is    *)
(* looked at once, so what is ready later may exceed it.                   *)
(* Streaming implements this (StreamingProperties).                        *)
(***************************************************************************)
EXTENDS Integers, FiniteSets

CONSTANTS Hash, Session, Limit, None

VARIABLES
    pool,   \* torrents in the client
    ready,  \* those that can be read
    wants   \* the torrent each session's read was let in for

vars == <<pool, ready, wants>>

Init ==
    /\ pool = {}
    /\ ready = {}
    /\ wants = [s \in Session |-> None]

Wanted(h) == \E s \in Session : wants[s] = h

Admit(s, h) ==
    /\ wants[s] = None
    /\ h \in pool \/ Cardinality(ready) < Limit
    /\ wants' = [wants EXCEPT ![s] = h]
    /\ UNCHANGED <<pool, ready>>

\* Reads end, for whatever reason, alone or with what ends them.
Release(readers) ==
    wants' = [s \in Session |-> IF s \in readers THEN None ELSE wants[s]]

GiveUp(readers) == Release(readers) /\ UNCHANGED <<pool, ready>>

Add(h) ==
    /\ Wanted(h) /\ h \notin pool
    /\ pool' = pool \cup {h}
    /\ UNCHANGED <<ready, wants>>

BecomeReady(h, readers) ==
    /\ Wanted(h) /\ h \in pool \ ready
    /\ ready' = ready \cup {h}
    /\ Release(readers)
    /\ UNCHANGED pool

Remove(h, readers) ==
    /\ h \in pool
    /\ pool' = pool \ {h}
    /\ ready' = ready \ {h}
    /\ Release(readers)

\* The process ends.
Exit ==
    /\ pool' = {}
    /\ ready' = {}
    /\ Release(Session)

Next ==
    \/ \E s \in Session, h \in Hash : Admit(s, h)
    \/ \E h \in Hash : Add(h)
    \/ \E readers \in SUBSET Session :
          \/ GiveUp(readers)
          \/ \E h \in Hash : BecomeReady(h, readers) \/ Remove(h, readers)
    \/ Exit

Spec == Init /\ [][Next]_vars
=============================================================================
