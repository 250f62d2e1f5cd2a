-------------------------- MODULE TorrentLifeCycle --------------------------
(***************************************************************************)
(* What becomes of a torrent, as the comments of TorrentInfoStatus and     *)
(* TorrentIndexerService tell it: NEW, QUEUED, PROCESSING, and READY or    *)
(* ERROR.  No jobs, lists or copies of rows: a torrent is in the indexer's *)
(* hands or not, and only a torrent in its hands is worked on.             *)
(* TorrentIndexer implements this (TorrentIndexerProperties).              *)
(***************************************************************************)
CONSTANT Id

VARIABLES
    stage,  \* how far each torrent is
    inHand  \* those the indexer has taken and not finished with

vars == <<stage, inHand>>

Stage == {"none", "NEW", "QUEUED", "PROCESSING", "ERROR", "shown", "hidden"}

TypeOK == stage \in [Id -> Stage] /\ inHand \subseteq Id

Init == stage = [id \in Id |-> "none"] /\ inHand = {}

Move(id, from, to) ==
    /\ stage[id] \in from
    /\ stage' = [stage EXCEPT ![id] = to]

\* A source adds it: to be indexed, or complete.
Enter(id) ==
    /\ Move(id, {"none"}, "NEW") \/ Move(id, {"none"}, "shown")
    /\ UNCHANGED inHand

Queue(id) == Move(id, {"NEW"}, "QUEUED") /\ UNCHANGED inHand

\* The indexer takes torrents that wait; none is taken twice.
Take(ids) ==
    /\ \A id \in ids : stage[id] = "QUEUED"
    /\ ids \cap inHand = {}
    /\ inHand' = inHand \cup ids
    /\ UNCHANGED stage

\* It works on one.  What was deleted meanwhile comes back.
Work(id) ==
    /\ id \in inHand
    /\ Move(id, {"none", "QUEUED", "PROCESSING"}, "PROCESSING")
    /\ UNCHANGED inHand

\* It is through with one, which it shows only now, or never.
Finish(id) ==
    /\ id \in inHand
    /\ Move(id, {"none", "PROCESSING"}, "shown") \/ Move(id, {"PROCESSING"}, "ERROR")
    /\ inHand' = inHand \ {id}

\* It loses some, where they are.
Drop(ids) ==
    /\ inHand' = inHand \ ids
    /\ UNCHANGED stage

\* The stop button hides what is complete and shows it again.
Hide(id) == Move(id, {"shown"}, "hidden") /\ UNCHANGED inHand
Show(id) == Move(id, {"hidden"}, "shown") /\ UNCHANGED inHand

Delete(id) == Move(id, Stage \ {"none"}, "none") /\ UNCHANGED inHand

Next ==
    \/ \E id \in Id :
          \/ Enter(id) \/ Queue(id) \/ Work(id) \/ Finish(id)
          \/ Hide(id) \/ Show(id) \/ Delete(id)
    \/ \E ids \in SUBSET Id : Take(ids) \/ Drop(ids)

Spec == Init /\ [][Next]_vars
=============================================================================
