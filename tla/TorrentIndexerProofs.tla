------------------------ MODULE TorrentIndexerProofs ------------------------
(***************************************************************************)
(* Machine-checked proofs about TorrentIndexer, for any number of rows,    *)
(* runs and crashes and any concurrency.                                   *)
(***************************************************************************)
EXTENDS TorrentIndexerProperties, FiniteSetTheorems, WellFoundedInduction, TLAPS

-----------------------------------------------------------------------------
(* The first row of a list is on it. *)

\* The library's theorem on smallest elements takes an operator; the sets of
\* what is below an element, ordered by inclusion, do instead.
LEMMA MinIsMember ==
    ASSUME NEW S, S \subseteq Int, IsFiniteSet(S), S # {}
    PROVE  Min(S) \in S
<1> DEFINE below(x) == {z \in S : z < x}
           T == {below(x) : x \in S}
<1>1. IsWellFoundedOn(StrictSubsetOrdering(S), SUBSET S)
  BY FS_StrictSubsetOrderingWellFounded, FS_FiniteSubsetsOfFinite
<1>2. T \subseteq SUBSET S /\ T # {}
  OBVIOUS
<1>3. PICK m \in T : \A t \in T : <<t, m>> \notin StrictSubsetOrdering(S)
  BY <1>1, <1>2, WFMin
<1>4. PICK x \in S : m = below(x)
  OBVIOUS
<1>5. ASSUME NEW y \in S, y < x PROVE FALSE
  <2>0. y \in Int /\ x \in Int /\ \A z \in S : z \in Int
    OBVIOUS
  <2>1. \A z \in S : z < y => z < x
    BY <1>5, <2>0
  <2>2. y \in below(x) /\ y \notin below(y)
    BY <1>5
  <2>3. below(y) \in T /\ below(y) \in SUBSET S /\ below(x) \in SUBSET S
    OBVIOUS
  <2>4. ASSUME NEW a \in SUBSET S, NEW b \in SUBSET S, a \subseteq b, a # b
        PROVE  <<a, b>> \in StrictSubsetOrdering(S)
    BY <2>4 DEF StrictSubsetOrdering
  <2>5. below(y) # below(x)
    BY <2>2
  <2>6. <<below(y), m>> \in StrictSubsetOrdering(S)
    BY <1>4, <2>1, <2>3, <2>4, <2>5
  <2>7. QED
    BY <1>3, <2>3, <2>6
<1>6. \A y \in S : x =< y
  BY <1>5
<1>7. QED
  BY <1>6 DEF Min

-----------------------------------------------------------------------------
(* The inductive invariant *)

\* Those of its rows a run has not marked yet.
Unmarked(r) == IF runs[r].pc = "mark" THEN runs[r].left ELSE {}

WellFormed(state) ==
    /\ state \in RunState
    /\ state.pc = "mark" => state.left \subseteq state.list
    /\ state.row # Null <=> state.pc \in {"jackett", "magnet"}
    /\ state.row \notin state.left /\ state.write \in {Null, state.row}
    /\ state.pc = "idle" => state.left = {}

\* Ids come from the table; the row being looked up is off the list, and no
\* other is being written.
IdsAreKnown ==
    /\ \A r \in Run : /\ Held(r) \subseteq 1..(nextId - 1)
                      /\ WellFormed(runs[r])
    /\ hidden \subseteq 1..(nextId - 1)

\* A row has its infohash exactly when it is READY, and is not visible before.
RowsAreComplete ==
    \A id \in DOMAIN rows :
        /\ rows[id].status = "READY" <=> rows[id].infoHash # Null
        /\ rows[id].isVisible => rows[id].status = "READY"

\* A row in a run's hands is PROCESSING, or QUEUED while it is not marked yet.
HeldAreAtWork ==
    \A r \in Run : \A id \in Held(r) \cap DOMAIN rows :
        \/ rows[id].status = "PROCESSING"
        \/ rows[id].status = "QUEUED" /\ id \in Unmarked(r)

\* What the stop button has hidden is READY, and in nobody's hands.
HiddenAreDone ==
    \A id \in hidden : /\ id \in DOMAIN rows => rows[id].status = "READY"
                       /\ \A r \in Run : id \notin Held(r)

\* A row that is about to be queued has its place.
QueueInv == QueuedBound /\ (queueJob = "pop" => RoomInQueue)

-----------------------------------------------------------------------------
(* Rows *)

LEMMA PutRows ==
    ASSUME NEW id, NEW row, rows' = Put(id, row)
    PROVE  /\ DOMAIN rows' = DOMAIN rows \cup {id}
           /\ rows'[id] = row
           /\ \A i \in DOMAIN rows \ {id} : rows'[i] = rows[i]
  BY DEF Put

LEMMA RowsType ==
    ASSUME TypeOK
    PROVE  /\ nextId \in 1..(MaxRow + 1) /\ MaxRow \in Nat
           /\ DOMAIN rows \subseteq 1..(nextId - 1)
           /\ DOMAIN rows \subseteq Id
           /\ \A id \in DOMAIN rows : rows[id] \in Torrent
           /\ queuedTorrents \subseteq DOMAIN rows
<1>1. PICK ids \in SUBSET (1..(nextId - 1)) : rows \in [ids -> Torrent]
  BY DEF TypeOK, StoreTypeOK
<1>2. nextId \in 1..(MaxRow + 1) /\ MaxRow \in Nat
  BY StoreAssumption DEF TypeOK, StoreTypeOK
<1>3. 1..(nextId - 1) \subseteq Id
  BY <1>2 DEF Id
<1>4. QED
  BY <1>1, <1>2, <1>3 DEF queuedTorrents, WithStatus

\* A row may be written wherever there is one or was one.
LEMMA PutType ==
    ASSUME TypeOK, NEW id \in 1..(nextId - 1), NEW row \in Torrent,
           rows' = Put(id, row), UNCHANGED nextId
    PROVE  StoreTypeOK'
<1>1. DOMAIN rows \cup {id} \in SUBSET (1..(nextId' - 1))
  BY RowsType
<1>2. rows' \in [DOMAIN rows \cup {id} -> Torrent]
  BY RowsType DEF Put
<1>3. QED
  BY <1>1, <1>2, RowsType DEF StoreTypeOK

LEMMA CreateType ==
    ASSUME TypeOK, NEW row \in Torrent, create(row)
    PROVE  StoreTypeOK'
<1>1. nextId \in 1..MaxRow /\ nextId' = nextId + 1
  BY DEF create, Id
<1>2. DOMAIN rows \cup {nextId} \in SUBSET (1..(nextId' - 1))
  BY <1>1, RowsType
<1>3. rows' \in [DOMAIN rows \cup {nextId} -> Torrent]
  BY RowsType DEF create, Put
<1>4. QED
  BY <1>1, <1>2, <1>3, StoreAssumption DEF StoreTypeOK

LEMMA RowTypes ==
    /\ \A s \in TorrentInfoStatus : NewRow(s, FALSE, Null) \in Torrent
    /\ \A h \in InfoHash : NewRow("READY", TRUE, h) \in Torrent
    /\ {"NEW", "QUEUED", "PROCESSING"} \subseteq TorrentInfoStatus
  BY DEF NewRow, Torrent, TorrentInfoStatus

-----------------------------------------------------------------------------
(* What a step does to rows and to what is held: the invariants and the    *)
(* life cycle need only these kinds.                                       *)

Same(r) == Held(r)' = Held(r) /\ Unmarked(r)' = Unmarked(r)
Empty(r) == Held(r)' = {} /\ Unmarked(r)' = {}

QuietStep ==
    /\ UNCHANGED storeVars
    /\ hidden' \subseteq hidden
    /\ \A r \in Run : Same(r) \/ Empty(r)

\* Only the table changes.
TableStep == hidden' = hidden /\ \A r \in Run : Same(r)

CreateStep ==
    /\ TableStep
    /\ \/ create(NewRow("NEW", FALSE, Null))
       \/ \E h \in InfoHash : create(NewRow("READY", TRUE, h))

QueueStep(id) ==
    /\ TableStep
    /\ queueJob = "pop" /\ queueJob' = "idle"
    /\ IsRow(id) /\ rows[id].status = "NEW"
    /\ updateTorrentStatus(id, "QUEUED")

RemoveStep(id) == TableStep /\ remove(id)

TakeStep(r) ==
    /\ UNCHANGED storeVars /\ hidden' = hidden
    /\ Held(r)' = queuedTorrents /\ Unmarked(r)' = queuedTorrents
    /\ Held(r) = {} /\ \A q \in Run : Unmarked(q) = {}
    /\ \A q \in Run \ {r} : Same(q)

WorkStep(r, id) ==
    /\ id \in Held(r)
    /\ updateTorrentStatus(id, "PROCESSING") /\ hidden' = hidden
    /\ Held(r)' = Held(r) /\ Unmarked(r)' \in {Unmarked(r), Unmarked(r) \ {id}}
    /\ \A q \in Run \ {r} : Same(q)

FinishStep(r, id) ==
    /\ id \in Held(r)
    /\ \/ \E h \in InfoHash : Save(id, NewRow("READY", TRUE, h))
       \/ update(id, [rows[id] EXCEPT !.status = "ERROR", !.isVisible = FALSE])
    /\ hidden' = hidden
    /\ Held(r)' = Held(r) \ {id} /\ Unmarked(r) = {} /\ Unmarked(r)' = {}
    /\ \A q \in Run \ {r} : Same(q)

ButtonStep(id) ==
    /\ \E shown \in BOOLEAN : update(id, [rows[id] EXCEPT !.isVisible = shown])
    /\ \/ hidden' = hidden \cup {id} /\ rows[id].infoHash # Null /\ ~rows'[id].isVisible
       \/ hidden' = hidden \ {id} /\ id \in hidden
    /\ \A r \in Run : Same(r)

RowsStep ==
    \/ QuietStep \/ CreateStep
    \/ \E id \in Id : QueueStep(id) \/ RemoveStep(id) \/ ButtonStep(id)
    \/ \E r \in Run : TakeStep(r) \/ \E id \in Id : WorkStep(r, id) \/ FinishStep(r, id)

\* A step of one run leaves the others alone.
LEMMA OtherRuns ==
    ASSUME TypeOK, NEW r \in Run, NEW state, SetRun(r, state)
    PROVE  /\ runs'[r] = state
           /\ \A q \in Run \ {r} : Same(q)
           /\ hidden' = hidden
  BY DEF TypeOK, SetRun, Same, Held, Unmarked

LEMMA RunsStay ==
    ASSUME runs' = runs
    PROVE  \A r \in Run : Same(r)
  BY DEF Same, Held, Unmarked

\* The first of those a run has left.
LEMMA FirstLeft ==
    ASSUME TypeOK, NEW r \in Run, runs[r].left # {}
    PROVE  Min(runs[r].left) \in runs[r].left
<1>0. runs[r].left \in SUBSET Id
  <2>1. runs[r] \in RunState
    BY DEF TypeOK
  <2>2. QED
    BY <2>1 DEF RunState
<1>1. runs[r].left \subseteq 1..MaxRow
  BY <1>0, StoreAssumption DEF Id
<1>2. IsFiniteSet(runs[r].left)
  <2>0. MaxRow \in Int /\ 1 \in Int
    BY StoreAssumption
  <2>1. IsFiniteSet(1..MaxRow)
    BY <2>0, FS_Interval
  <2>2. QED
    BY <1>1, <2>1, FS_Subset
<1>3. QED
  BY <1>1, <1>2, MinIsMember

\* The shape of what a run keeps, for the steps that change it.
LEMMA RunType ==
    ASSUME TypeOK, IdsAreKnown, StoreTypeOK', NEW r \in Run, NEW state,
           WellFormed(state), SetRun(r, state)
    PROVE  TypeOK' /\ \A q \in Run : WellFormed(runs'[q])
<1>1. runs' \in [Run -> RunState]
  BY DEF TypeOK, SetRun, WellFormed
<1>2. \A q \in Run : WellFormed(runs'[q])
  BY DEF TypeOK, IdsAreKnown, SetRun
<1>3. /\ queueJob' = queueJob /\ hidden' = hidden
      /\ free' = free /\ listening' = listening /\ crashes' = crashes
  BY DEF SetRun, processVars
<1>4. QED
  BY <1>1, <1>2, <1>3 DEF TypeOK, WellFormed

\* The same, for the steps that leave the runs alone.
LEMMA OtherType ==
    ASSUME TypeOK, IdsAreKnown, StoreTypeOK', runs' = runs, crashes' = crashes,
           queueJob' \in {"idle", "pop"}, hidden' \subseteq Id,
           free' \subseteq Id, listening' \in BOOLEAN
    PROVE  TypeOK' /\ \A q \in Run : WellFormed(runs'[q])
  BY DEF TypeOK, IdsAreKnown

LEMMA IdleType == WellFormed(RunIdle)
  BY StoreAssumption DEF WellFormed, RunIdle, RunState, Id

\* Every step of the indexer is of one of the kinds, and keeps the types.
LEMMA SourcesRows ==
    ASSUME TypeOK, IdsAreKnown, AddFromFeed \/ AddFree
    PROVE  RowsStep /\ TypeOK' /\ \A q \in Run : WellFormed(runs'[q])
<1>1. /\ runs' = runs /\ hidden' = hidden /\ crashes' = crashes /\ queueJob' = queueJob
      /\ listening' = listening /\ free' \in {free, free \cup {nextId}}
      /\ \/ create(NewRow("NEW", FALSE, Null))
         \/ \E h \in InfoHash : create(NewRow("READY", TRUE, h))
  BY IndexerAssumption DEF AddFromFeed, AddFree, jobVars, processVars
<1>0. free' \subseteq Id
  BY <1>1 DEF TypeOK, create
<1>2. StoreTypeOK'
  BY <1>1, RowTypes, CreateType
<1>3. TypeOK' /\ \A q \in Run : WellFormed(runs'[q])
  BY <1>0, <1>1, <1>2, OtherType DEF TypeOK
<1>4. QED
  BY <1>1, <1>3, RunsStay DEF RowsStep, CreateStep, TableStep

LEMMA ListenRows ==
    ASSUME TypeOK, IdsAreKnown, Listen
    PROVE  RowsStep /\ TypeOK' /\ \A q \in Run : WellFormed(runs'[q])
<1>1. /\ UNCHANGED storeVars /\ runs' = runs /\ hidden' = hidden /\ queueJob' = queueJob
      /\ crashes' = crashes /\ free' = free /\ listening' \in BOOLEAN
  BY DEF Listen, jobVars
<1>2. StoreTypeOK'
  BY <1>1 DEF TypeOK, StoreTypeOK, storeVars
<1>3. QED
  BY <1>1, <1>2, OtherType, RunsStay DEF TypeOK, RowsStep, QuietStep

LEMMA QueueRows ==
    ASSUME TypeOK, IdsAreKnown, BeginQueueJob \/ PopNewTorrent
    PROVE  RowsStep /\ TypeOK' /\ \A q \in Run : WellFormed(runs'[q])
<1>0. /\ runs' = runs /\ hidden' = hidden /\ crashes' = crashes /\ queueJob' \in {"idle", "pop"}
      /\ free' = free /\ listening' = listening
      /\ \A q \in Run : Same(q)
  BY RunsStay DEF BeginQueueJob, PopNewTorrent, processVars
<1>1. CASE UNCHANGED storeVars
  <2>1. StoreTypeOK'
    BY <1>1 DEF TypeOK, StoreTypeOK, storeVars
  <2>2. QED
    BY <1>0, <1>1, <2>1, OtherType DEF TypeOK, RowsStep, QuietStep
<1>2. CASE ~UNCHANGED storeVars
  <2> DEFINE id == Min(WithStatus("NEW"))
  <2>1. WithStatus("NEW") # {} /\ updateTorrentStatus(id, "QUEUED")
    BY <1>2 DEF BeginQueueJob, PopNewTorrent, popNewTorrent
  <2>2. WithStatus("NEW") \subseteq Int /\ IsFiniteSet(WithStatus("NEW"))
    <3>1. WithStatus("NEW") \subseteq DOMAIN rows
      BY DEF WithStatus
    <3>2. MaxRow \in Nat /\ DOMAIN rows \subseteq 1..MaxRow
      BY RowsType DEF Id
    <3>3. WithStatus("NEW") \subseteq 1..MaxRow /\ MaxRow \in Int
      BY <3>1, <3>2
    <3>4. IsFiniteSet(1..MaxRow)
      BY <3>3, FS_Interval
    <3>5. IsFiniteSet(WithStatus("NEW"))
      BY <3>3, <3>4, FS_Subset
    <3>6. QED
      BY <3>3, <3>5
  <2>3. id \in WithStatus("NEW")
    BY <2>1, <2>2, MinIsMember
  <2> HIDE DEF id
  <2>4. IsRow(id) /\ rows[id].status = "NEW" /\ id \in Id /\ id \in 1..(nextId - 1)
    BY <2>3, RowsType DEF WithStatus, IsRow
  <2>5. StoreTypeOK'
    BY <2>1, <2>4, RowTypes, PutType DEF updateTorrentStatus, Save
  <2>6. queueJob = "pop" /\ queueJob' = "idle" /\ hidden' = hidden
    BY <1>2 DEF BeginQueueJob, PopNewTorrent
  <2>8. RowsStep
    BY <1>0, <2>1, <2>4, <2>6 DEF RowsStep, QueueStep, TableStep
  <2>7. QED
    BY <1>0, <2>5, <2>6, <2>8, OtherType DEF TypeOK
<1>3. QED
  BY <1>1, <1>2

\* What a run holds, and what can be said of a row in its hands.
LEMMA HeldOf ==
    ASSUME TypeOK, IdsAreKnown, NEW r \in Run
    PROVE  /\ runs[r] \in RunState /\ WellFormed(runs[r])
           /\ Null \notin Id /\ Null \notin runs[r].left
           /\ \A id \in Held(r) : id \in Id /\ id \in 1..(nextId - 1)
           /\ runs[r].pc = "mark" => runs[r].left \subseteq Held(r)
           /\ runs[r].pc = "add" => Held(r) = runs[r].left
           /\ runs[r].pc \in {"jackett", "magnet"} =>
                 /\ runs[r].row \in Held(r) /\ runs[r].row # Null
                 /\ Held(r) = runs[r].left \cup {runs[r].row}
                 /\ runs[r].row \notin runs[r].left
<1>1. runs[r] \in RunState /\ WellFormed(runs[r])
  BY DEF TypeOK, IdsAreKnown
<1>2. Null \notin Id
  BY StoreAssumption DEF Id
<1>3. Null \notin runs[r].left
  BY <1>1, <1>2 DEF RunState
<1>4. Held(r) \subseteq 1..(nextId - 1) /\ nextId \in 1..(MaxRow + 1) /\ MaxRow \in Nat
  BY RowsType DEF IdsAreKnown
<1>5. \A id \in Held(r) : id \in Id /\ id \in 1..(nextId - 1)
  BY <1>4 DEF Id
<1>6. QED
  BY <1>1, <1>2, <1>3, <1>5 DEF Held, WellFormed

\* A run that stops holds nothing; the rows are as they were.
LEMMA StopRows ==
    ASSUME TypeOK, IdsAreKnown, NEW r \in Run, UNCHANGED storeVars, SetRun(r, RunIdle)
    PROVE  RowsStep /\ TypeOK' /\ \A q \in Run : WellFormed(runs'[q])
<1>1. StoreTypeOK'
  BY DEF TypeOK, StoreTypeOK, storeVars
<1>2. Empty(r)
  BY OtherRuns DEF Empty, Held, Unmarked, RunIdle
<1>3. QED
  BY <1>1, <1>2, IdleType, RunType, OtherRuns DEF RowsStep, QuietStep

LEMMA WorkRows ==
    ASSUME TypeOK, IdsAreKnown, NEW r \in Run, NEW state, SetRun(r, state), WellFormed(state),
           NEW id \in Held(r), updateTorrentStatus(id, "PROCESSING"),
           Held(r)' = Held(r), Unmarked(r)' \in {Unmarked(r), Unmarked(r) \ {id}}
    PROVE  RowsStep /\ TypeOK' /\ \A q \in Run : WellFormed(runs'[q])
<1>1. id \in Id /\ id \in 1..(nextId - 1)
  BY HeldOf
<1>2. StoreTypeOK'
  BY <1>1, RowTypes, PutType DEF updateTorrentStatus, Save
<1>3. WorkStep(r, id)
  BY OtherRuns DEF WorkStep
<1>4. QED
  BY <1>1, <1>2, <1>3, RunType DEF RowsStep

LEMMA FinishRows ==
    ASSUME TypeOK, IdsAreKnown, NEW r \in Run, NextOfRun(r),
           runs[r].pc \in {"jackett", "magnet"}, Written(r),
           \/ \E h \in InfoHash : Save(runs[r].row, NewRow("READY", TRUE, h))
           \/ update(runs[r].row,
                     [rows[runs[r].row] EXCEPT !.status = "ERROR", !.isVisible = FALSE])
    PROVE  RowsStep /\ TypeOK' /\ \A q \in Run : WellFormed(runs'[q])
<1> DEFINE state == [runs[r] EXCEPT !.pc = "add", !.row = Null]
           id == runs[r].row
<1>1. id \in Held(r) /\ id \in Id /\ id \in 1..(nextId - 1)
  BY HeldOf
<1>2. StoreTypeOK'
  <2>1. CASE \E h \in InfoHash : Save(id, NewRow("READY", TRUE, h))
    BY <1>1, <2>1, RowTypes, PutType DEF Save
  <2>2. CASE update(id, [rows[id] EXCEPT !.status = "ERROR", !.isVisible = FALSE])
    <3>1. id \in DOMAIN rows /\ rows[id] \in Torrent
      BY <2>2, RowsType DEF update, IsRow
    <3>2. [rows[id] EXCEPT !.status = "ERROR", !.isVisible = FALSE] \in Torrent
      BY <3>1 DEF Torrent, TorrentInfoStatus
    <3>3. QED
      BY <1>1, <2>2, <3>2, PutType DEF update, Save
  <2>3. QED
    BY <2>1, <2>2
<1>3. WellFormed(state) /\ state.left = runs[r].left /\ state.pc = "add"
  BY HeldOf DEF WellFormed, RunState, Written
<1>4. SetRun(r, state) /\ runs'[r] = state /\ hidden' = hidden
  BY OtherRuns DEF NextOfRun
<1>5. Held(r)' = Held(r) \ {id} /\ Unmarked(r) = {} /\ Unmarked(r)' = {}
  <2>1. Held(r)' = runs[r].left /\ Unmarked(r) = {} /\ Unmarked(r)' = {}
    BY <1>3, <1>4 DEF Held, Unmarked
  <2>2. QED
    BY <2>1, HeldOf
<1> HIDE DEF state
<1>6. FinishStep(r, id)
  BY <1>1, <1>4, <1>5, OtherRuns DEF FinishStep
<1>7. QED
  BY <1>1, <1>2, <1>3, <1>4, <1>6, RunType DEF RowsStep

\* The loops of consumedQueuedTorrents.
LEMMA ConsumeRows ==
    ASSUME TypeOK, IdsAreKnown, NEW r \in Run, BeginConsume(r) \/ Consume(r)
    PROVE  RowsStep /\ TypeOK' /\ \A q \in Run : WellFormed(runs'[q])
<1> DEFINE first == Min(runs[r].left)
<1>1. UNCHANGED storeVars => StoreTypeOK'
  BY DEF TypeOK, StoreTypeOK, storeVars
<1>2. runs[r].left # {} => first \in runs[r].left
  BY FirstLeft
<1> HIDE DEF first
<1>3. CASE BeginConsume(r)
  <2> DEFINE state == [RunIdle EXCEPT !.pc = "mark", !.list = queuedTorrents,
                                      !.left = queuedTorrents]
  <2>1. UNCHANGED storeVars /\ SetRun(r, state) /\ \A q \in Run : runs[q].pc # "mark"
    BY <1>3 DEF BeginConsume
  <2>2. queuedTorrents \subseteq Id /\ Null \notin queuedTorrents
    BY RowsType, HeldOf
  <2>3. WellFormed(state) /\ state.pc = "mark" /\ state.list = queuedTorrents
                         /\ state.left = queuedTorrents
    BY <2>2 DEF WellFormed, RunIdle, RunState
  <2> HIDE DEF state
  <2>4. runs'[r] = state /\ hidden' = hidden /\ \A q \in Run \ {r} : Same(q)
    BY <2>1, OtherRuns
  <2>5. Held(r)' = queuedTorrents /\ Unmarked(r)' = queuedTorrents
    BY <2>3, <2>4 DEF Held, Unmarked
  <2>6. Held(r) = {}
    BY <1>3, HeldOf DEF BeginConsume, WellFormed, Held
  <2>7. TakeStep(r)
    BY <2>1, <2>4, <2>5, <2>6 DEF TakeStep, Unmarked
  <2>8. QED
    BY <1>1, <2>1, <2>3, <2>7, RunType DEF RowsStep
<1>4. CASE GiveUp(r) \/ AllIndexed(r)
  BY <1>4, StopRows DEF GiveUp, AllIndexed
<1>5. CASE MarkNext(r)
  <2> DEFINE state == [runs[r] EXCEPT !.left = @ \ {first}]
  <2>1. /\ runs[r].pc = "mark" /\ first \in runs[r].left
        /\ updateTorrentStatus(first, "PROCESSING") /\ SetRun(r, state)
    BY <1>2, <1>5 DEF MarkNext, first
  <2>2. WellFormed(state) /\ state.pc = "mark" /\ state.list = runs[r].list
                         /\ state.left = runs[r].left \ {first}
    BY <2>1, HeldOf DEF WellFormed, RunState
  <2> HIDE DEF state
  <2>3. runs'[r] = state /\ first \in Held(r)
    BY <2>1, OtherRuns, HeldOf
  <2>4. Held(r)' = Held(r) /\ Unmarked(r)' = Unmarked(r) \ {first}
    BY <2>1, <2>2, <2>3 DEF Held, Unmarked
  <2>5. QED
    BY <2>1, <2>2, <2>3, <2>4, WorkRows
<1>6. CASE AllMarked(r)
  <2> DEFINE state == [runs[r] EXCEPT !.pc = "add", !.left = runs[r].list, !.list = {}]
  <2>1. UNCHANGED storeVars /\ SetRun(r, state) /\ runs[r].pc = "mark" /\ runs[r].left = {}
    BY <1>6 DEF AllMarked
  <2>2. WellFormed(state) /\ state.pc = "add" /\ state.left = runs[r].list
    BY <2>1, HeldOf DEF WellFormed, RunState
  <2> HIDE DEF state
  <2>3. runs'[r] = state /\ hidden' = hidden /\ \A q \in Run \ {r} : Same(q)
    BY <2>1, OtherRuns
  <2>4. Same(r)
    BY <2>1, <2>2, <2>3 DEF Same, Held, Unmarked
  <2>5. QED
    BY <1>1, <2>1, <2>2, <2>3, <2>4, RunType DEF RowsStep, QuietStep
<1>7. CASE IndexNext(r)
  <2>1. PICK lookup \in {"jackett", "magnet"} :
           SetRun(r, [runs[r] EXCEPT !.pc = lookup, !.row = first, !.write = first,
                                     !.left = @ \ {first}])
    BY <1>7 DEF IndexNext, first
  <2> DEFINE state == [runs[r] EXCEPT !.pc = lookup, !.row = first, !.write = first,
                                      !.left = @ \ {first}]
  <2>2. runs[r].pc = "add" /\ first \in runs[r].left /\ UNCHANGED storeVars
    BY <1>2, <1>7 DEF IndexNext, first
  <2>3. first \in Held(r) /\ Held(r) = runs[r].left /\ first \in Id /\ first # Null
    BY <2>2, HeldOf
  <2>4. WellFormed(state) /\ state.pc = lookup /\ state.row = first
                         /\ state.left = runs[r].left \ {first}
    BY <2>3, HeldOf DEF WellFormed, RunState
  <2>5. SetRun(r, state)
    BY <2>1
  <2> HIDE DEF state
  <2>6. runs'[r] = state /\ hidden' = hidden /\ \A q \in Run \ {r} : Same(q)
    BY <2>5, OtherRuns
  <2>7. Held(r)' = (state.left \cup {state.row}) \ {Null} /\ Unmarked(r)' = {} /\ Unmarked(r) = {}
    BY <2>2, <2>4, <2>6 DEF Held, Unmarked
  <2>8. Same(r)
    BY <2>2, <2>3, <2>4, <2>7, HeldOf DEF Same
  <2>9. QED
    BY <1>1, <2>2, <2>4, <2>5, <2>6, <2>8, RunType DEF RowsStep, QuietStep
<1>8. QED
  BY <1>3, <1>4, <1>5, <1>6, <1>7 DEF Consume

\* What the lookups write and find.
LEMMA IndexTorrentRows ==
    ASSUME TypeOK, IdsAreKnown, NEW r \in Run, IndexTorrent(r)
    PROVE  RowsStep /\ TypeOK' /\ \A q \in Run : WellFormed(runs'[q])
<1>5. CASE WriteProcessing(r)
  <2> DEFINE state == [runs[r] EXCEPT !.write = Null]
             id == runs[r].row
  <2>1. /\ runs[r].write = id /\ id # Null
        /\ updateTorrentStatus(id, "PROCESSING") /\ SetRun(r, state)
    BY <1>5, HeldOf DEF WriteProcessing, WellFormed
  <2>2. id \in Held(r) /\ runs[r].pc \in {"jackett", "magnet"}
    BY <2>1, HeldOf DEF WellFormed
  <2>3. WellFormed(state) /\ state.pc = runs[r].pc /\ state.row = id /\ state.left = runs[r].left
    BY <2>2, HeldOf DEF WellFormed, RunState
  <2> HIDE DEF state
  <2>4. runs'[r] = state
    BY <2>1, OtherRuns
  <2>5. Held(r)' = Held(r) /\ Unmarked(r)' = Unmarked(r)
    BY <2>2, <2>3, <2>4 DEF Held, Unmarked
  <2>6. QED
    BY <2>1, <2>2, <2>3, <2>5, WorkRows
<1>1. CASE FoundMagnet(r)
  <2> DEFINE state == [runs[r] EXCEPT !.pc = "magnet", !.write = runs[r].row]
  <2>1. runs[r].pc = "jackett" /\ UNCHANGED storeVars /\ SetRun(r, state)
    BY <1>1 DEF FoundMagnet, JackettSays
  <2>2. WellFormed(state) /\ state.pc = "magnet" /\ state.row = runs[r].row
                         /\ state.left = runs[r].left
    BY <2>1, HeldOf DEF WellFormed, RunState
  <2> HIDE DEF state
  <2>3. runs'[r] = state /\ hidden' = hidden /\ \A q \in Run \ {r} : Same(q)
    BY <2>1, OtherRuns
  <2>4. Same(r)
    BY <2>1, <2>2, <2>3 DEF Same, Held, Unmarked
  <2>5. StoreTypeOK'
    BY <2>1 DEF TypeOK, StoreTypeOK, storeVars
  <2>6. QED
    BY <2>1, <2>2, <2>3, <2>4, <2>5, RunType DEF RowsStep, QuietStep
<1>2. CASE FoundInfo(r) \/ FoundNothing(r)
  BY <1>2, FinishRows DEF FoundInfo, FoundNothing, JackettSays
<1>3. CASE LookupThrows(r)
  BY <1>3, StopRows DEF LookupThrows
<1>4. QED
  BY <1>1, <1>2, <1>3, <1>5 DEF IndexTorrent

\* The REST controller and the stop button.
LEMMA TableRows ==
    ASSUME TypeOK, IdsAreKnown, NEW id \in Id, Remove(id) \/ HideRow(id) \/ ShowRow(id)
    PROVE  RowsStep /\ TypeOK' /\ \A q \in Run : WellFormed(runs'[q])
<1>1. /\ runs' = runs /\ crashes' = crashes /\ queueJob' = queueJob /\ hidden' \subseteq Id
      /\ free' = free /\ listening' = listening
      /\ \A q \in Run : Same(q)
  BY RunsStay DEF Remove, HideRow, ShowRow, TypeOK, jobVars, processVars
<1>2. CASE Remove(id)
  <2>1. StoreTypeOK'
    <3>1. DOMAIN rows \ {id} \in SUBSET (1..(nextId - 1)) /\ nextId' = nextId
      BY <1>2, RowsType DEF Remove, remove
    <3>2. rows' \in [DOMAIN rows \ {id} -> Torrent]
      BY <1>2, RowsType DEF Remove, remove
    <3>3. QED
      BY <3>1, <3>2, RowsType DEF StoreTypeOK
  <2>2. RemoveStep(id)
    BY <1>1, <1>2 DEF Remove, RemoveStep, TableStep, jobVars
  <2>3. QED
    BY <1>1, <2>1, <2>2, OtherType DEF RowsStep, TypeOK
<1>3. ASSUME NEW shown \in BOOLEAN, update(id, [rows[id] EXCEPT !.isVisible = shown])
      PROVE  StoreTypeOK' /\ id \in DOMAIN rows /\ rows'[id].isVisible = shown
  <2> DEFINE row == [rows[id] EXCEPT !.isVisible = shown]
  <2>1. id \in DOMAIN rows /\ rows[id] \in Torrent /\ id \in 1..(nextId - 1)
    BY <1>3, RowsType DEF update, IsRow
  <2>2. row \in Torrent /\ row.isVisible = shown
    BY <2>1 DEF Torrent
  <2>3. rows' = Put(id, row) /\ UNCHANGED nextId
    BY <1>3 DEF update, Save
  <2> HIDE DEF row
  <2>4. QED
    BY <2>1, <2>2, <2>3, PutType, PutRows
<1>4. CASE HideRow(id)
  <2>1. /\ update(id, [rows[id] EXCEPT !.isVisible = FALSE])
        /\ rows[id].infoHash # Null /\ hidden' = hidden \cup {id}
    BY <1>4 DEF HideRow
  <2>2. QED
    BY <1>1, <1>3, <2>1, OtherType DEF RowsStep, ButtonStep, TypeOK
<1>5. CASE ShowRow(id)
  <2>1. id \in hidden /\ hidden' = hidden \ {id}
    BY <1>5 DEF ShowRow
  <2>2. CASE update(id, [rows[id] EXCEPT !.isVisible = TRUE])
    BY <1>1, <1>3, <2>1, <2>2, OtherType DEF RowsStep, ButtonStep, TypeOK
  <2>3. CASE UNCHANGED storeVars
    <3>1. StoreTypeOK'
      BY <2>3 DEF TypeOK, StoreTypeOK, storeVars
    <3>2. QED
      BY <1>1, <2>1, <2>3, <3>1, OtherType DEF RowsStep, QuietStep, TypeOK
  <2>4. QED
    BY <1>5, <2>2, <2>3 DEF ShowRow
<1>6. QED
  BY <1>2, <1>4, <1>5

LEMMA CrashRows ==
    ASSUME TypeOK, IdsAreKnown, Crash
    PROVE  RowsStep /\ TypeOK' /\ \A q \in Run : WellFormed(runs'[q])
<1>1. /\ runs' = [r \in Run |-> RunIdle] /\ hidden' = {} /\ queueJob' = "idle"
      /\ free' = free /\ listening' = FALSE /\ UNCHANGED storeVars
  BY DEF Crash
<1>2. \A q \in Run : runs'[q] = RunIdle /\ Empty(q)
  BY <1>1 DEF Empty, Held, Unmarked, RunIdle
<1>3. StoreTypeOK'
  BY <1>1 DEF TypeOK, StoreTypeOK, storeVars
<1>4. crashes' \in 0..MaxCrashes
  BY IndexerAssumption DEF TypeOK, Crash
<1>5. runs' \in [Run -> RunState] /\ \A q \in Run : WellFormed(runs'[q])
  BY <1>1, <1>2, IdleType DEF WellFormed
<1>6. TypeOK'
  BY <1>1, <1>3, <1>4, <1>5 DEF TypeOK, WellFormed
<1>7. QED
  BY <1>1, <1>2, <1>5, <1>6 DEF RowsStep, QuietStep

\* Every step is of one of the kinds and keeps the types.
LEMMA NextRows ==
    ASSUME TypeOK, IdsAreKnown, [Next]_vars
    PROVE  RowsStep /\ TypeOK' /\ \A q \in Run : WellFormed(runs'[q])
<1>1. CASE UNCHANGED vars
  <2>1. /\ UNCHANGED storeVars /\ hidden' = hidden /\ runs' = runs
        /\ queueJob' = queueJob /\ crashes' = crashes
        /\ free' = free /\ listening' = listening
    BY <1>1 DEF vars, jobVars, processVars
  <2>2. StoreTypeOK'
    BY <2>1 DEF TypeOK, StoreTypeOK, storeVars
  <2>3. QED
    BY <2>1, <2>2, OtherType, RunsStay DEF TypeOK, RowsStep, QuietStep
<1>2. CASE Next
  BY <1>2, SourcesRows, ListenRows, QueueRows, ConsumeRows, IndexTorrentRows, TableRows, CrashRows
     DEF Next
<1>3. QED
  BY <1>1, <1>2

-----------------------------------------------------------------------------
(* The invariants *)

LEMMA KnownStays ==
    ASSUME TypeOK, IdsAreKnown, [Next]_vars
    PROVE  TypeOK' /\ IdsAreKnown'
<1>1. RowsStep /\ TypeOK' /\ \A q \in Run : WellFormed(runs'[q])
  BY NextRows
<1>2. DOMAIN rows \subseteq 1..(nextId - 1) /\ queuedTorrents \subseteq 1..(nextId - 1)
  BY RowsType
<1>3. 1..(nextId - 1) \subseteq 1..(nextId' - 1)
  <2>1. nextId' = nextId \/ nextId' = nextId + 1
    BY <1>1 DEF RowsStep, QuietStep, CreateStep, QueueStep, RemoveStep, ButtonStep, TakeStep,
                WorkStep, FinishStep, storeVars, create, remove, update, updateTorrentStatus, Save
  <2>2. QED
    BY <2>1, RowsType
<1>4. \A r \in Run : Held(r)' \subseteq 1..(nextId - 1)
  BY <1>1, <1>2 DEF RowsStep, QuietStep, CreateStep, QueueStep, RemoveStep, ButtonStep, TakeStep,
                    WorkStep, FinishStep, TableStep, Same, Empty, IdsAreKnown
<1>5. hidden' \subseteq 1..(nextId - 1)
  <2>1. ASSUME NEW id, ButtonStep(id) PROVE hidden' \subseteq 1..(nextId - 1)
    BY <2>1, <1>2 DEF ButtonStep, update, IsRow, IdsAreKnown
  <2>2. QED
    BY <1>1, <2>1 DEF RowsStep, QuietStep, CreateStep, QueueStep, RemoveStep, TakeStep,
                      WorkStep, FinishStep, TableStep, IdsAreKnown
<1>6. QED
  BY <1>1, <1>3, <1>4, <1>5 DEF IdsAreKnown

\* The invariant but for the ids, and what ReadyStays asks of a step.
StateInv == RowsAreComplete /\ HeldAreAtWork /\ HiddenAreDone /\ NoDoubleIndexing

ReadyStep ==
    \A id \in DOMAIN rows \cap DOMAIN rows' :
        rows[id].status = "READY" =>
            rows'[id].status = "READY" /\ rows'[id].infoHash = rows[id].infoHash

LEMMA QuietKeeps ==
    ASSUME StateInv, QuietStep
    PROVE  StateInv' /\ ReadyStep
<1>1. rows' = rows /\ hidden' \subseteq hidden
  BY DEF QuietStep, storeVars
<1>2. \A r \in Run : Held(r)' \subseteq Held(r)
  BY DEF QuietStep, Same, Empty
<1>3. RowsAreComplete'
  BY <1>1 DEF StateInv, RowsAreComplete
<1>4. HeldAreAtWork'
  BY <1>1 DEF StateInv, HeldAreAtWork, QuietStep, Same, Empty
<1>5. HiddenAreDone'
  BY <1>1, <1>2 DEF StateInv, HiddenAreDone
<1>6. NoDoubleIndexing'
  BY <1>2 DEF StateInv, NoDoubleIndexing
<1>7. QED
  BY <1>1, <1>3, <1>4, <1>5, <1>6 DEF StateInv, ReadyStep

\* Nobody holds or has hidden the row that is created.
LEMMA CreateKeeps ==
    ASSUME TypeOK, IdsAreKnown, StateInv, CreateStep
    PROVE  StateInv' /\ ReadyStep
<1>1. PICK row : /\ create(row)
                 /\ \/ row = NewRow("NEW", FALSE, Null)
                    \/ \E h \in InfoHash : row = NewRow("READY", TRUE, h)
  BY DEF CreateStep
<1>2. /\ row.status = "READY" <=> row.infoHash # Null
      /\ row.isVisible => row.status = "READY"
  <2>1. CASE row = NewRow("NEW", FALSE, Null)
    BY <2>1 DEF NewRow
  <2>2. CASE \E h \in InfoHash : row = NewRow("READY", TRUE, h)
    <3>1. PICK h \in InfoHash : row = NewRow("READY", TRUE, h)
      BY <2>2
    <3>2. row.status = "READY" /\ row.infoHash = h
      BY <3>1 DEF NewRow
    <3>3. h # Null
      BY StoreAssumption
    <3>4. QED
      BY <3>2, <3>3
  <2>3. QED
    BY <1>1, <2>1, <2>2
<1>3. /\ DOMAIN rows' = DOMAIN rows \cup {nextId} /\ rows'[nextId] = row
      /\ \A i \in DOMAIN rows \ {nextId} : rows'[i] = rows[i]
  <2>1. rows' = Put(nextId, row)
    BY <1>1 DEF create
  <2>2. QED
    BY <2>1, PutRows
<1>4. nextId \notin DOMAIN rows /\ nextId \notin hidden /\ \A r \in Run : nextId \notin Held(r)
  BY RowsType DEF IdsAreKnown
<1>5. \A r \in Run : Held(r)' = Held(r) /\ Unmarked(r)' = Unmarked(r)
  BY DEF CreateStep, TableStep, Same
<1>6. hidden' = hidden
  BY DEF CreateStep, TableStep
<1>7. RowsAreComplete'
  BY <1>2, <1>3 DEF StateInv, RowsAreComplete
<1>8. HeldAreAtWork'
  BY <1>3, <1>4, <1>5 DEF StateInv, HeldAreAtWork
<1>9. HiddenAreDone'
  BY <1>3, <1>4, <1>5, <1>6 DEF StateInv, HiddenAreDone
<1>10. NoDoubleIndexing'
  BY <1>5 DEF StateInv, NoDoubleIndexing
<1>11. QED
  BY <1>3, <1>4, <1>7, <1>8, <1>9, <1>10 DEF StateInv, ReadyStep

\* Nobody holds a NEW row, nor has hidden it.
LEMMA QueueKeeps ==
    ASSUME StateInv, NEW id, QueueStep(id)
    PROVE  StateInv' /\ ReadyStep
<1>1. /\ DOMAIN rows' = DOMAIN rows \cup {id} /\ rows'[id] = NewRow("QUEUED", FALSE, Null)
      /\ \A i \in DOMAIN rows \ {id} : rows'[i] = rows[i]
  BY PutRows DEF QueueStep, updateTorrentStatus, Save
<1>2. id \in DOMAIN rows /\ rows[id].status = "NEW"
  BY DEF QueueStep, IsRow
<1>3. id \notin hidden /\ \A r \in Run : id \notin Held(r)
  BY <1>2 DEF StateInv, HeldAreAtWork, HiddenAreDone
<1>4. hidden' = hidden /\ \A r \in Run : Held(r)' = Held(r) /\ Unmarked(r)' = Unmarked(r)
  BY DEF QueueStep, TableStep, Same
<1>5. RowsAreComplete'
  BY <1>1 DEF StateInv, RowsAreComplete, NewRow
<1>6. HeldAreAtWork'
  BY <1>1, <1>3, <1>4 DEF StateInv, HeldAreAtWork
<1>7. HiddenAreDone'
  BY <1>1, <1>3, <1>4 DEF StateInv, HiddenAreDone
<1>8. NoDoubleIndexing'
  BY <1>4 DEF StateInv, NoDoubleIndexing
<1>9. QED
  BY <1>1, <1>2, <1>5, <1>6, <1>7, <1>8 DEF StateInv, ReadyStep

LEMMA RemoveKeeps ==
    ASSUME StateInv, NEW id, RemoveStep(id)
    PROVE  StateInv' /\ ReadyStep
<1>1. DOMAIN rows' = DOMAIN rows \ {id} /\ \A i \in DOMAIN rows' : rows'[i] = rows[i]
  BY DEF RemoveStep, remove
<1>2. hidden' = hidden /\ \A r \in Run : Held(r)' = Held(r) /\ Unmarked(r)' = Unmarked(r)
  BY DEF RemoveStep, TableStep, Same
<1>3. RowsAreComplete'
  BY <1>1 DEF StateInv, RowsAreComplete
<1>4. HeldAreAtWork'
  BY <1>1, <1>2 DEF StateInv, HeldAreAtWork
<1>5. HiddenAreDone'
  BY <1>1, <1>2 DEF StateInv, HiddenAreDone
<1>6. NoDoubleIndexing'
  BY <1>2 DEF StateInv, NoDoubleIndexing
<1>7. QED
  BY <1>1, <1>3, <1>4, <1>5, <1>6 DEF StateInv, ReadyStep

\* What another run holds is marked, as no run is half-way through marking.
LEMMA TakeKeeps ==
    ASSUME StateInv, NEW r \in Run, TakeStep(r)
    PROVE  StateInv' /\ ReadyStep
<1>1. rows' = rows /\ hidden' = hidden
  BY DEF TakeStep, storeVars
<1>2. /\ Held(r)' = queuedTorrents /\ Unmarked(r)' = queuedTorrents
      /\ \A q \in Run \ {r} : Held(q)' = Held(q) /\ Unmarked(q)' = Unmarked(q)
  BY DEF TakeStep, Same
<1>3. \A id \in queuedTorrents : id \in DOMAIN rows /\ rows[id].status = "QUEUED"
  BY DEF queuedTorrents, WithStatus
<1>4. \A q \in Run : Held(q) \cap queuedTorrents = {}
  BY <1>3 DEF StateInv, HeldAreAtWork, TakeStep
<1>5. HeldAreAtWork'
  BY <1>1, <1>2, <1>3 DEF StateInv, HeldAreAtWork
<1>6. HiddenAreDone'
  <2>1. hidden \cap queuedTorrents = {}
    BY <1>3 DEF StateInv, HiddenAreDone
  <2>2. QED
    BY <1>1, <1>2, <2>1 DEF StateInv, HiddenAreDone
<1>7. NoDoubleIndexing'
  BY <1>2, <1>4 DEF StateInv, NoDoubleIndexing
<1>8. QED
  BY <1>1, <1>5, <1>6, <1>7 DEF StateInv, ReadyStep, RowsAreComplete

\* A row in a run's hands is not READY: writing an old copy of it does no harm.
LEMMA WorkKeeps ==
    ASSUME StateInv, NEW r \in Run, NEW id, WorkStep(r, id)
    PROVE  StateInv' /\ ReadyStep
<1>1. /\ DOMAIN rows' = DOMAIN rows \cup {id} /\ rows'[id] = NewRow("PROCESSING", FALSE, Null)
      /\ \A i \in DOMAIN rows \ {id} : rows'[i] = rows[i]
  BY PutRows DEF WorkStep, updateTorrentStatus, Save
<1>2. /\ id \in Held(r) /\ hidden' = hidden /\ Held(r)' = Held(r)
      /\ Unmarked(r)' \in {Unmarked(r), Unmarked(r) \ {id}}
      /\ \A q \in Run \ {r} : Held(q)' = Held(q) /\ Unmarked(q)' = Unmarked(q)
  BY DEF WorkStep, Same
<1>3. id \notin hidden /\ (id \in DOMAIN rows => rows[id].status # "READY")
  BY <1>2 DEF StateInv, HiddenAreDone, HeldAreAtWork
<1>4. RowsAreComplete'
  BY <1>1 DEF StateInv, RowsAreComplete, NewRow
<1>5. HeldAreAtWork'
  <2>1. ASSUME NEW q \in Run, NEW i \in Held(q)' \cap DOMAIN rows'
        PROVE  \/ rows'[i].status = "PROCESSING"
               \/ rows'[i].status = "QUEUED" /\ i \in Unmarked(q)'
    <3>1. CASE i = id
      BY <1>1, <3>1 DEF NewRow
    <3>2. CASE i # id
      <4>1. i \in Held(q) \cap DOMAIN rows /\ rows'[i] = rows[i]
        BY <1>1, <1>2, <3>2
      <4>2. i \in Unmarked(q) => i \in Unmarked(q)'
        BY <1>2, <3>2
      <4>3. QED
        BY <4>1, <4>2 DEF StateInv, HeldAreAtWork
    <3>3. QED
      BY <3>1, <3>2
  <2>2. QED
    BY <2>1 DEF HeldAreAtWork
<1>6. HiddenAreDone'
  BY <1>1, <1>2, <1>3 DEF StateInv, HiddenAreDone
<1>7. NoDoubleIndexing'
  BY <1>2 DEF StateInv, NoDoubleIndexing
<1>8. QED
  BY <1>1, <1>3, <1>4, <1>5, <1>6, <1>7 DEF StateInv, ReadyStep

LEMMA FinishKeeps ==
    ASSUME TypeOK, StateInv, NEW r \in Run, NEW id, FinishStep(r, id)
    PROVE  StateInv' /\ ReadyStep
<1>1. PICK row : /\ rows' = Put(id, row)
                 /\ row.status = "READY" <=> row.infoHash # Null
                 /\ row.isVisible => row.status = "READY"
  <2>1. CASE \E h \in InfoHash : Save(id, NewRow("READY", TRUE, h))
    <3>1. PICK h \in InfoHash : Save(id, NewRow("READY", TRUE, h))
      BY <2>1
    <3>2. h # Null
      BY StoreAssumption
    <3>3. QED
      BY <3>1, <3>2 DEF Save, NewRow
  <2>2. CASE update(id, [rows[id] EXCEPT !.status = "ERROR", !.isVisible = FALSE])
    <3> DEFINE row == [rows[id] EXCEPT !.status = "ERROR", !.isVisible = FALSE]
    <3>1. id \in DOMAIN rows /\ rows[id] \in Torrent /\ id \in Held(r) /\ rows' = Put(id, row)
      BY <2>2, RowsType DEF update, IsRow, Save, FinishStep
    <3>2. rows[id].infoHash = Null
      BY <3>1 DEF StateInv, HeldAreAtWork, RowsAreComplete
    <3>3. row.status = "ERROR" /\ row.isVisible = FALSE /\ row.infoHash = Null
      BY <3>1, <3>2 DEF Torrent
    <3> HIDE DEF row
    <3>4. QED
      BY <3>1, <3>3
  <2>3. QED
    BY <2>1, <2>2 DEF FinishStep
<1>2. /\ DOMAIN rows' = DOMAIN rows \cup {id} /\ rows'[id] = row
      /\ \A i \in DOMAIN rows \ {id} : rows'[i] = rows[i]
  BY <1>1, PutRows
<1>3. /\ id \in Held(r) /\ hidden' = hidden /\ Held(r)' = Held(r) \ {id}
      /\ Unmarked(r) = {} /\ Unmarked(r)' = {}
      /\ \A q \in Run \ {r} : Held(q)' = Held(q) /\ Unmarked(q)' = Unmarked(q)
  BY DEF FinishStep, Same
<1>4. /\ id \notin hidden /\ (id \in DOMAIN rows => rows[id].status # "READY")
      /\ \A q \in Run : id \notin Held(q)'
  BY <1>3 DEF StateInv, HiddenAreDone, HeldAreAtWork, NoDoubleIndexing
<1>5. RowsAreComplete'
  BY <1>1, <1>2 DEF StateInv, RowsAreComplete
<1>6. HeldAreAtWork'
  BY <1>2, <1>3, <1>4 DEF StateInv, HeldAreAtWork
<1>7. HiddenAreDone'
  BY <1>2, <1>3, <1>4 DEF StateInv, HiddenAreDone
<1>8. NoDoubleIndexing'
  BY <1>3 DEF StateInv, NoDoubleIndexing
<1>9. QED
  BY <1>2, <1>4, <1>5, <1>6, <1>7, <1>8 DEF StateInv, ReadyStep

LEMMA ButtonKeeps ==
    ASSUME TypeOK, StateInv, NEW id, ButtonStep(id)
    PROVE  StateInv' /\ ReadyStep
<1>1. PICK shown \in BOOLEAN : update(id, [rows[id] EXCEPT !.isVisible = shown])
  BY DEF ButtonStep
<1> DEFINE row == [rows[id] EXCEPT !.isVisible = shown]
<1>2. id \in DOMAIN rows /\ rows[id] \in Torrent /\ rows' = Put(id, row)
  BY <1>1, RowsType DEF update, IsRow, Save
<1>3. row.status = rows[id].status /\ row.infoHash = rows[id].infoHash
  BY <1>2 DEF Torrent
<1> HIDE DEF row
<1>4. /\ DOMAIN rows' = DOMAIN rows /\ rows'[id] = row
      /\ \A i \in DOMAIN rows \ {id} : rows'[i] = rows[i]
  BY <1>2, PutRows
<1>5. rows[id].status = "READY" /\ (hidden' = hidden \cup {id} \/ hidden' = hidden \ {id})
  BY <1>2 DEF ButtonStep, StateInv, RowsAreComplete, HiddenAreDone
<1>6. \A q \in Run : Held(q)' = Held(q) /\ Unmarked(q)' = Unmarked(q)
  BY DEF ButtonStep, Same
<1>7. \A q \in Run : id \notin Held(q)
  BY <1>2, <1>5 DEF StateInv, HeldAreAtWork
<1>8. RowsAreComplete'
  BY <1>3, <1>4, <1>5 DEF StateInv, RowsAreComplete
<1>9. HeldAreAtWork'
  BY <1>3, <1>4, <1>6 DEF StateInv, HeldAreAtWork
<1>10. HiddenAreDone'
  BY <1>3, <1>4, <1>5, <1>6, <1>7 DEF StateInv, HiddenAreDone
<1>11. NoDoubleIndexing'
  BY <1>6 DEF StateInv, NoDoubleIndexing
<1>12. QED
  BY <1>3, <1>4, <1>8, <1>9, <1>10, <1>11 DEF StateInv, ReadyStep

LEMMA StateInvStays ==
    ASSUME TypeOK, IdsAreKnown, StateInv, [Next]_vars
    PROVE  StateInv' /\ ReadyStep
<1>1. RowsStep
  BY NextRows
<1>2. QED
  BY <1>1, QuietKeeps, CreateKeeps, QueueKeeps, RemoveKeeps, ButtonKeeps, TakeKeeps, WorkKeeps,
     FinishKeeps DEF RowsStep

\* The table is empty and no run holds anything.
LEMMA InitInv == Init => TypeOK /\ IdsAreKnown /\ StateInv
<1> SUFFICES ASSUME Init PROVE TypeOK /\ IdsAreKnown /\ StateInv
  OBVIOUS
<1>1. /\ DOMAIN rows = {} /\ nextId = 1 /\ hidden = {} /\ queueJob = "idle" /\ crashes = 0
      /\ free = {} /\ listening = FALSE
      /\ runs = [r \in Run |-> RunIdle]
  BY DEF Init, StoreInit
<1>2. \A r \in Run : runs[r] = RunIdle /\ Held(r) = {}
  BY <1>1 DEF Held, RunIdle
<1>3. StoreTypeOK
  <2>1. rows \in [{} -> Torrent] /\ {} \in SUBSET (1..(nextId - 1))
    BY DEF Init, StoreInit
  <2>2. nextId \in 1..(MaxRow + 1)
    BY <1>1, StoreAssumption
  <2>3. QED
    BY <2>1, <2>2 DEF StoreTypeOK
<1>4. TypeOK
  <2>1. RunIdle \in RunState /\ WellFormed(RunIdle)
    BY IdleType DEF WellFormed
  <2>2. runs \in [Run -> RunState]
    BY <1>1, <2>1
  <2>3. /\ queueJob \in {"idle", "pop"} /\ hidden \subseteq Id /\ free \subseteq Id
        /\ listening \in BOOLEAN
    BY <1>1
  <2>4. MaxCrashes \in Nat
    BY IndexerAssumption
  <2>5. crashes \in 0..MaxCrashes
    BY <1>1, <2>4
  <2>6. QED
    BY <1>2, <1>3, <2>1, <2>2, <2>3, <2>5 DEF TypeOK, WellFormed
<1>5. IdsAreKnown
  BY <1>1, <1>2, IdleType DEF IdsAreKnown
<1>6. StateInv
  BY <1>1, <1>2 DEF StateInv, RowsAreComplete, HeldAreAtWork, HiddenAreDone, NoDoubleIndexing
<1>7. QED
  BY <1>4, <1>5, <1>6

-----------------------------------------------------------------------------
(* The queue *)

\* Only queueNewTorrents queues a row, and only after it has seen room.
LEMMA QueueGrows ==
    ASSUME TypeOK, IdsAreKnown, StateInv, [Next]_vars
    PROVE  \/ queuedTorrents' \subseteq queuedTorrents
           \/ /\ queueJob = "pop" /\ queueJob' = "idle"
              /\ \E id \in Id : queuedTorrents' \subseteq queuedTorrents \cup {id}
<1>1. ASSUME NEW id, NEW row, rows' = Put(id, row), row.status # "QUEUED"
      PROVE  queuedTorrents' \subseteq queuedTorrents
  <2>1. /\ DOMAIN rows' = DOMAIN rows \cup {id} /\ rows'[id] = row
        /\ \A i \in DOMAIN rows \ {id} : rows'[i] = rows[i]
    BY <1>1, PutRows
  <2>2. QED
    BY <1>1, <2>1 DEF queuedTorrents, WithStatus
<1>2. CASE rows' = rows
  BY <1>2 DEF queuedTorrents, WithStatus
<1>3. CASE CreateStep
  <2>1. NewRow("NEW", FALSE, Null).status # "QUEUED"
    BY DEF NewRow
  <2>2. \A h : NewRow("READY", TRUE, h).status # "QUEUED"
    BY DEF NewRow
  <2>3. PICK row : create(row) /\ row.status # "QUEUED"
    BY <1>3, <2>1, <2>2 DEF CreateStep
  <2>4. rows' = Put(nextId, row)
    BY <2>3 DEF create
  <2>5. QED
    BY <1>1, <2>3, <2>4
<1>4. ASSUME NEW id \in Id, QueueStep(id)
      PROVE  queuedTorrents' \subseteq queuedTorrents \cup {id}
  <2>1. /\ DOMAIN rows' = DOMAIN rows \cup {id}
        /\ \A i \in DOMAIN rows \ {id} : rows'[i] = rows[i]
    BY <1>4, PutRows DEF QueueStep, updateTorrentStatus, Save
  <2>2. QED
    BY <2>1 DEF queuedTorrents, WithStatus
<1>5. ASSUME NEW id \in Id, RemoveStep(id) PROVE queuedTorrents' \subseteq queuedTorrents
  BY <1>5 DEF RemoveStep, remove, queuedTorrents, WithStatus
<1>6. ASSUME NEW id \in Id, ButtonStep(id) PROVE queuedTorrents' \subseteq queuedTorrents
  <2>1. PICK shown \in BOOLEAN : update(id, [rows[id] EXCEPT !.isVisible = shown])
    BY <1>6 DEF ButtonStep
  <2>2. id \in DOMAIN rows /\ rows[id] \in Torrent
    BY <2>1, RowsType DEF update, IsRow
  <2>3. rows[id].status = "READY"
    BY <1>6, <2>2 DEF ButtonStep, StateInv, RowsAreComplete, HiddenAreDone
  <2>4. [rows[id] EXCEPT !.isVisible = shown].status = "READY"
    BY <2>2, <2>3 DEF Torrent
  <2>5. QED
    BY <1>1, <2>1, <2>4 DEF update, Save
<1>7. ASSUME NEW r \in Run, NEW id \in Id, WorkStep(r, id)
      PROVE  queuedTorrents' \subseteq queuedTorrents
  <2>1. NewRow("PROCESSING", FALSE, Null).status # "QUEUED"
    BY DEF NewRow
  <2>2. QED
    BY <1>1, <1>7, <2>1 DEF WorkStep, updateTorrentStatus, Save
<1>8. ASSUME NEW r \in Run, NEW id \in Id, FinishStep(r, id)
      PROVE  queuedTorrents' \subseteq queuedTorrents
  <2>1. CASE \E h \in InfoHash : Save(id, NewRow("READY", TRUE, h))
    <3>1. \A h : NewRow("READY", TRUE, h).status # "QUEUED"
      BY DEF NewRow
    <3>2. QED
      BY <1>1, <2>1, <3>1 DEF Save
  <2>2. CASE update(id, [rows[id] EXCEPT !.status = "ERROR", !.isVisible = FALSE])
    <3>1. id \in DOMAIN rows /\ rows[id] \in Torrent
      BY <2>2, RowsType DEF update, IsRow
    <3>2. [rows[id] EXCEPT !.status = "ERROR", !.isVisible = FALSE].status # "QUEUED"
      BY <3>1 DEF Torrent
    <3>3. QED
      BY <1>1, <2>2, <3>2 DEF update, Save
  <2>3. QED
    BY <1>8, <2>1, <2>2 DEF FinishStep
<1>9. QED
  BY <1>2, <1>3, <1>4, <1>5, <1>6, <1>7, <1>8, NextRows DEF RowsStep, QuietStep, TakeStep,
     QueueStep, storeVars

LEMMA RoomIsSeen ==
    ASSUME [Next]_vars, queueJob' = "pop"
    PROVE  queueJob = "pop" \/ RoomInQueue
  BY DEF Next, vars, jobVars, AddFromFeed, AddFree, Listen, BeginQueueJob, PopNewTorrent,
         BeginConsume, Consume, MarkNext, AllMarked, IndexNext, AllIndexed, GiveUp,
         IndexTorrent, WriteProcessing, FoundMagnet,
         FoundInfo, FoundNothing, LookupThrows, NextOfRun, SetRun, Remove, HideRow, ShowRow, Crash

LEMMA QueueStays ==
    ASSUME TypeOK, IdsAreKnown, StateInv, QueueInv, [Next]_vars
    PROVE  QueueInv'
<1>1. IsFiniteSet(queuedTorrents) /\ Concurrency \in Nat
  <2>1. queuedTorrents \subseteq 1..MaxRow /\ MaxRow \in Int
    <3>1. queuedTorrents \subseteq DOMAIN rows /\ DOMAIN rows \subseteq Id /\ MaxRow \in Nat
      BY RowsType
    <3>2. QED
      BY <3>1 DEF Id
  <2>2. IsFiniteSet(1..MaxRow)
    BY <2>1, FS_Interval
  <2>3. QED
    BY <2>1, <2>2, FS_Subset, IndexerAssumption
<1>2. Cardinality(queuedTorrents) \in Nat
  BY <1>1, FS_CardinalityType
<1>3. CASE queuedTorrents' \subseteq queuedTorrents
  <2>1. Cardinality(queuedTorrents') \in Nat /\ Cardinality(queuedTorrents') =< Cardinality(queuedTorrents)
    BY <1>1, <1>3, FS_Subset, FS_CardinalityType
  <2>2. queueJob' = "pop" => Cardinality(queuedTorrents) < Concurrency
    BY RoomIsSeen DEF QueueInv, RoomInQueue
  <2>3. QED
    BY <1>1, <1>2, <2>1, <2>2 DEF QueueInv, QueuedBound, RoomInQueue
<1>4. CASE /\ queueJob = "pop" /\ queueJob' = "idle"
           /\ \E id \in Id : queuedTorrents' \subseteq queuedTorrents \cup {id}
  <2>1. PICK id \in Id : queuedTorrents' \subseteq queuedTorrents \cup {id}
    BY <1>4
  <2>2. /\ IsFiniteSet(queuedTorrents \cup {id})
        /\ Cardinality(queuedTorrents \cup {id}) \in Nat
        /\ Cardinality(queuedTorrents \cup {id}) =< Cardinality(queuedTorrents) + 1
    BY <1>1, <1>2, FS_AddElement, FS_CardinalityType
  <2>3. Cardinality(queuedTorrents') \in Nat
        /\ Cardinality(queuedTorrents') =< Cardinality(queuedTorrents \cup {id})
    BY <2>1, <2>2, FS_Subset, FS_CardinalityType
  <2>4. Cardinality(queuedTorrents) < Concurrency
    BY <1>4 DEF QueueInv, RoomInQueue
  <2>5. QED
    BY <1>1, <1>2, <1>4, <2>2, <2>3, <2>4 DEF QueueInv, QueuedBound
<1>5. QED
  BY <1>3, <1>4, QueueGrows

-----------------------------------------------------------------------------
(* The life cycle *)

\* What the life cycle calls inHand.
Hands == UNION {Held(r) : r \in Run}

LEMMA StagesSame ==
    ASSUME \A id \in Id : StageOf(id)' = StageOf(id)
    PROVE  ([id \in Id |-> StageOf(id)])' = [id \in Id |-> StageOf(id)]
  BY DEF Id

\* One torrent goes from one stage to another.
LEMMA Moves ==
    ASSUME NEW id \in Id, NEW from, NEW to, StageOf(id) \in from, StageOf(id)' = to,
           \A i \in Id \ {id} : StageOf(i)' = StageOf(i)
    PROVE  LifeCycle!Move(id, from, to)
<1> DEFINE before == [i \in Id |-> StageOf(i)]
           after == [i \in Id |-> StageOf(i)']
<1>1. after = [before EXCEPT ![id] = to] /\ before[id] \in from
  OBVIOUS
<1>2. (before)' = after
  BY DEF Id
<1>3. QED
  BY <1>1, <1>2 DEF LifeCycle!Move

\* The other rows are as they were.
LEMMA OtherStages ==
    ASSUME NEW id, DOMAIN rows' \ {id} = DOMAIN rows \ {id},
           \A i \in DOMAIN rows \ {id} : rows'[i] = rows[i]
    PROVE  \A i \in Id \ {id} : StageOf(i)' = StageOf(i)
<1>1. ASSUME NEW i \in Id \ {id} PROVE StageOf(i)' = StageOf(i)
  <2>1. i \in DOMAIN rows' <=> i \in DOMAIN rows
    OBVIOUS
  <2>2. CASE i \in DOMAIN rows
    BY <2>1, <2>2 DEF StageOf, IsRow
  <2>3. CASE i \notin DOMAIN rows
    BY <2>1, <2>3 DEF StageOf, IsRow
  <2>4. QED
    BY <2>2, <2>3
<1>2. QED
  BY <1>1

LEMMA HandsSame ==
    ASSUME \A r \in Run : Held(r)' = Held(r)
    PROVE  Hands' = Hands
  BY DEF Hands

\* The stages of a torrent.
LEMMA StageOfRow ==
    ASSUME NEW id
    PROVE  /\ id \notin DOMAIN rows => StageOf(id) = "none"
           /\ id \in DOMAIN rows =>
                 IF rows[id].status # "READY" THEN StageOf(id) = rows[id].status
                 ELSE IF rows[id].isVisible THEN StageOf(id) = "shown"
                 ELSE StageOf(id) = "hidden"
  BY DEF StageOf, IsRow

LEMMA StageOfRowAfter ==
    ASSUME NEW id
    PROVE  /\ id \notin DOMAIN rows' => StageOf(id)' = "none"
           /\ id \in DOMAIN rows' =>
                 IF rows'[id].status # "READY" THEN StageOf(id)' = rows'[id].status
                 ELSE IF rows'[id].isVisible THEN StageOf(id)' = "shown"
                 ELSE StageOf(id)' = "hidden"
  BY DEF StageOf, IsRow

LEMMA QuietCycle ==
    ASSUME TypeOK, IdsAreKnown, QuietStep
    PROVE  LifeCycle!Next
<1>1. ([id \in Id |-> StageOf(id)])' = [id \in Id |-> StageOf(id)]
  BY StagesSame DEF QuietStep, storeVars, StageOf, IsRow
<1>2. Hands' \subseteq Hands /\ Hands \in SUBSET Id
  BY HeldOf DEF QuietStep, Same, Empty, Hands
<1>3. Hands' = Hands \ (Hands \ Hands') /\ Hands \ Hands' \in SUBSET Id
  BY <1>2
<1>4. LifeCycle!Drop(Hands \ Hands')
  BY <1>1, <1>3 DEF LifeCycle!Drop, Hands
<1>5. QED
  BY <1>3, <1>4 DEF LifeCycle!Next

LEMMA CreateCycle ==
    ASSUME TypeOK, IdsAreKnown, CreateStep
    PROVE  LifeCycle!Next
<1>1. PICK row : /\ create(row)
                 /\ \/ row = NewRow("NEW", FALSE, Null)
                    \/ \E h \in InfoHash : row = NewRow("READY", TRUE, h)
  BY DEF CreateStep
<1>2. PICK id \in Id : rows' = Put(id, row) /\ id \notin DOMAIN rows
  BY <1>1, RowsType DEF create
<1>3. /\ DOMAIN rows' = DOMAIN rows \cup {id} /\ rows'[id] = row
      /\ \A i \in DOMAIN rows \ {id} : rows'[i] = rows[i]
  BY <1>2, PutRows
<1>4. \A i \in Id \ {id} : StageOf(i)' = StageOf(i)
  BY <1>3, OtherStages
<1>5. StageOf(id) \in {"none"}
  BY <1>2, StageOfRow
<1>6. Hands' = Hands
  BY HandsSame DEF CreateStep, TableStep, Same
<1>7. CASE row = NewRow("NEW", FALSE, Null)
  <2>1. StageOf(id)' = "NEW"
    BY <1>3, <1>7, StageOfRowAfter DEF NewRow
  <2>2. LifeCycle!Move(id, {"none"}, "NEW")
    BY <1>2, <1>4, <1>5, <2>1, Moves
  <2>3. QED
    BY <1>2, <1>6, <2>2 DEF LifeCycle!Next, LifeCycle!Enter, Hands
<1>8. CASE \E h \in InfoHash : row = NewRow("READY", TRUE, h)
  <2>1. StageOf(id)' = "shown"
    BY <1>3, <1>8, StageOfRowAfter DEF NewRow
  <2>2. LifeCycle!Move(id, {"none"}, "shown")
    BY <1>2, <1>4, <1>5, <2>1, Moves
  <2>3. QED
    BY <1>2, <1>6, <2>2 DEF LifeCycle!Next, LifeCycle!Enter, Hands
<1>9. QED
  BY <1>1, <1>7, <1>8

LEMMA QueueCycle ==
    ASSUME NEW id \in Id, QueueStep(id)
    PROVE  LifeCycle!Next
<1>1. /\ DOMAIN rows' = DOMAIN rows \cup {id} /\ rows'[id] = NewRow("QUEUED", FALSE, Null)
      /\ \A i \in DOMAIN rows \ {id} : rows'[i] = rows[i]
  BY PutRows DEF QueueStep, updateTorrentStatus, Save
<1>2. id \in DOMAIN rows /\ rows[id].status = "NEW"
  BY DEF QueueStep, IsRow
<1>3. StageOf(id) \in {"NEW"} /\ StageOf(id)' = "QUEUED"
  BY <1>1, <1>2, StageOfRow, StageOfRowAfter DEF NewRow
<1>4. \A i \in Id \ {id} : StageOf(i)' = StageOf(i)
  BY <1>1, OtherStages
<1>5. LifeCycle!Move(id, {"NEW"}, "QUEUED")
  BY <1>3, <1>4, Moves
<1>6. Hands' = Hands
  BY HandsSame DEF QueueStep, TableStep, Same
<1>7. QED
  BY <1>5, <1>6 DEF LifeCycle!Next, LifeCycle!Queue, Hands

LEMMA RemoveCycle ==
    ASSUME TypeOK, NEW id \in Id, RemoveStep(id)
    PROVE  LifeCycle!Next
<1>1. DOMAIN rows' = DOMAIN rows \ {id} /\ \A i \in DOMAIN rows' : rows'[i] = rows[i]
  BY DEF RemoveStep, remove
<1>2. id \in DOMAIN rows /\ rows[id].status \in TorrentInfoStatus
  BY RowsType DEF RemoveStep, remove, IsRow, Torrent
<1>3. StageOf(id) \in LifeCycle!Stage \ {"none"}
  BY <1>2, StageOfRow DEF LifeCycle!Stage, TorrentInfoStatus
<1>4. StageOf(id)' = "none"
  BY <1>1, StageOfRowAfter
<1>5. \A i \in Id \ {id} : StageOf(i)' = StageOf(i)
  BY <1>1, OtherStages
<1>6. LifeCycle!Move(id, LifeCycle!Stage \ {"none"}, "none")
  BY <1>3, <1>4, <1>5, Moves
<1>7. Hands' = Hands
  BY HandsSame DEF RemoveStep, TableStep, Same
<1>8. QED
  BY <1>6, <1>7 DEF LifeCycle!Next, LifeCycle!Delete, Hands

LEMMA ButtonCycle ==
    ASSUME TypeOK, StateInv, NEW id \in Id, ButtonStep(id)
    PROVE  LifeCycle!Next \/ ([i \in Id |-> StageOf(i)])' = [i \in Id |-> StageOf(i)]
<1>1. PICK shown \in BOOLEAN : update(id, [rows[id] EXCEPT !.isVisible = shown])
  BY DEF ButtonStep
<1>2. PICK row : row = [rows[id] EXCEPT !.isVisible = shown]
  OBVIOUS
<1>3. id \in DOMAIN rows /\ rows[id] \in Torrent /\ rows' = Put(id, row)
  BY <1>1, <1>2, RowsType DEF update, IsRow, Save
<1>4. row.status = rows[id].status /\ row.isVisible = shown
  BY <1>2, <1>3 DEF Torrent
<1>5. rows[id].status = "READY"
  BY <1>3 DEF ButtonStep, StateInv, RowsAreComplete, HiddenAreDone
<1>6. /\ DOMAIN rows' = DOMAIN rows \cup {id} /\ rows'[id] = row
      /\ \A i \in DOMAIN rows \ {id} : rows'[i] = rows[i]
  BY <1>3, PutRows
<1>7. \A i \in Id \ {id} : StageOf(i)' = StageOf(i)
  BY <1>6, OtherStages
<1>8. StageOf(id) \in {"shown", "hidden"} /\ StageOf(id)' \in {"shown", "hidden"}
  BY <1>3, <1>4, <1>5, <1>6, StageOfRow, StageOfRowAfter
<1>9. Hands' = Hands
  BY HandsSame DEF ButtonStep, Same
<1>10. CASE StageOf(id)' = StageOf(id)
  <2>1. \A i \in Id : StageOf(i)' = StageOf(i)
    BY <1>7, <1>10
  <2>2. QED
    BY <2>1, StagesSame
<1>11. CASE StageOf(id) = "shown" /\ StageOf(id)' = "hidden"
  <2>1. LifeCycle!Move(id, {"shown"}, "hidden")
    BY <1>7, <1>11, Moves
  <2>2. QED
    BY <1>9, <2>1 DEF LifeCycle!Next, LifeCycle!Hide, Hands
<1>12. CASE StageOf(id) = "hidden" /\ StageOf(id)' = "shown"
  <2>1. LifeCycle!Move(id, {"hidden"}, "shown")
    BY <1>7, <1>12, Moves
  <2>2. QED
    BY <1>9, <2>1 DEF LifeCycle!Next, LifeCycle!Show, Hands
<1>13. QED
  BY <1>8, <1>10, <1>11, <1>12

LEMMA TakeCycle ==
    ASSUME TypeOK, StateInv, NEW r \in Run, TakeStep(r)
    PROVE  LifeCycle!Next
<1>1. \A id \in queuedTorrents : id \in DOMAIN rows /\ id \in Id /\ rows[id].status = "QUEUED"
  BY RowsType DEF queuedTorrents, WithStatus
<1>2. \A id \in queuedTorrents : StageOf(id) = "QUEUED"
  BY <1>1, StageOfRow
<1>3. \A q \in Run : Held(q) \cap queuedTorrents = {}
  BY <1>1 DEF StateInv, HeldAreAtWork, TakeStep
<1>4. Hands \cap queuedTorrents = {}
  BY <1>3 DEF Hands
<1>5. Hands' = Hands \cup queuedTorrents
  BY DEF TakeStep, Same, Hands
<1>6. ([id \in Id |-> StageOf(id)])' = [id \in Id |-> StageOf(id)]
  BY StagesSame DEF TakeStep, storeVars, StageOf, IsRow
<1>7. LifeCycle!Take(queuedTorrents)
  BY <1>1, <1>2, <1>4, <1>5, <1>6 DEF LifeCycle!Take, Hands
<1>8. queuedTorrents \in SUBSET Id
  BY <1>1
<1>9. QED
  BY <1>7, <1>8 DEF LifeCycle!Next

LEMMA WorkCycle ==
    ASSUME TypeOK, StateInv, NEW r \in Run, NEW id \in Id, WorkStep(r, id)
    PROVE  LifeCycle!Next
<1>1. /\ DOMAIN rows' = DOMAIN rows \cup {id} /\ rows'[id] = NewRow("PROCESSING", FALSE, Null)
      /\ \A i \in DOMAIN rows \ {id} : rows'[i] = rows[i]
  BY PutRows DEF WorkStep, updateTorrentStatus, Save
<1>2. id \in Held(r) /\ id \in Hands
  BY DEF WorkStep, Hands
<1>3. id \in DOMAIN rows => rows[id].status \in {"QUEUED", "PROCESSING"}
  BY <1>2 DEF StateInv, HeldAreAtWork
<1>4. StageOf(id) \in {"none", "QUEUED", "PROCESSING"}
  BY <1>3, StageOfRow
<1>5. StageOf(id)' = "PROCESSING"
  BY <1>1, StageOfRowAfter DEF NewRow
<1>6. \A i \in Id \ {id} : StageOf(i)' = StageOf(i)
  BY <1>1, OtherStages
<1>7. LifeCycle!Move(id, {"none", "QUEUED", "PROCESSING"}, "PROCESSING")
  BY <1>4, <1>5, <1>6, Moves
<1>8. Hands' = Hands
  BY HandsSame DEF WorkStep, Same
<1>9. QED
  BY <1>2, <1>7, <1>8 DEF LifeCycle!Next, LifeCycle!Work, Hands

LEMMA FinishCycle ==
    ASSUME TypeOK, StateInv, NEW r \in Run, NEW id \in Id, FinishStep(r, id)
    PROVE  LifeCycle!Next
<1>1. id \in Held(r) /\ id \in Hands
  BY DEF FinishStep, Hands
<1>2. id \in DOMAIN rows => rows[id].status = "PROCESSING"
  BY <1>1 DEF StateInv, HeldAreAtWork, FinishStep
<1>3. Hands' = Hands \ {id}
  <2>1. \A q \in Run \ {r} : id \notin Held(q) /\ Held(q)' = Held(q)
    BY <1>1 DEF StateInv, NoDoubleIndexing, FinishStep, Same
  <2>2. Held(r)' = Held(r) \ {id}
    BY DEF FinishStep
  <2>3. QED
    BY <2>1, <2>2 DEF Hands
<1>4. ASSUME NEW row, rows' = Put(id, row)
      PROVE  rows'[id] = row /\ id \in DOMAIN rows' /\ \A i \in Id \ {id} : StageOf(i)' = StageOf(i)
  <2>1. /\ DOMAIN rows' = DOMAIN rows \cup {id} /\ rows'[id] = row
        /\ \A i \in DOMAIN rows \ {id} : rows'[i] = rows[i]
    BY <1>4, PutRows
  <2>2. QED
    BY <2>1, OtherStages
<1>5. CASE \E h \in InfoHash : Save(id, NewRow("READY", TRUE, h))
  <2>1. PICK row : rows' = Put(id, row) /\ row.status = "READY" /\ row.isVisible
    BY <1>5 DEF Save, NewRow
  <2>2. StageOf(id)' = "shown"
    BY <1>4, <2>1, StageOfRowAfter
  <2>3. StageOf(id) \in {"none", "PROCESSING"}
    BY <1>2, StageOfRow
  <2>4. LifeCycle!Move(id, {"none", "PROCESSING"}, "shown")
    BY <1>4, <2>1, <2>2, <2>3, Moves
  <2>5. QED
    BY <1>1, <1>3, <2>4 DEF LifeCycle!Next, LifeCycle!Finish, Hands
<1>6. CASE update(id, [rows[id] EXCEPT !.status = "ERROR", !.isVisible = FALSE])
  <2>1. PICK row : row = [rows[id] EXCEPT !.status = "ERROR", !.isVisible = FALSE]
    OBVIOUS
  <2>2. id \in DOMAIN rows /\ rows[id] \in Torrent /\ rows' = Put(id, row)
    BY <1>6, <2>1, RowsType DEF update, IsRow, Save
  <2>3. row.status = "ERROR"
    BY <2>1, <2>2 DEF Torrent
  <2>4. StageOf(id) \in {"PROCESSING"} /\ StageOf(id)' = "ERROR"
    BY <1>2, <1>4, <2>2, <2>3, StageOfRow, StageOfRowAfter
  <2>5. LifeCycle!Move(id, {"PROCESSING"}, "ERROR")
    BY <1>4, <2>2, <2>4, Moves
  <2>6. QED
    BY <1>1, <1>3, <2>5 DEF LifeCycle!Next, LifeCycle!Finish, Hands
<1>7. QED
  BY <1>5, <1>6 DEF FinishStep

-----------------------------------------------------------------------------
(* Theorems about every behaviour *)

\* What the indexer keeps has the type it is declared with, and the invariant
\* holds: for any number of rows, runs and crashes.
THEOREM Invariant == Spec => [](TypeOK /\ IdsAreKnown /\ StateInv)
<1>1. TypeOK /\ IdsAreKnown /\ StateInv /\ [Next]_vars => (TypeOK /\ IdsAreKnown /\ StateInv)'
  BY KnownStays, StateInvStays
<1>2. QED
  BY <1>1, InitInv, PTL DEF Spec

\* Rows, jobs and runs keep their types; a run has a row exactly while it
\* looks one up (TorrentIndexerService, TorrentsService).
THEOREM TypeCorrect == Spec => []TypeOK
  BY Invariant, PTL

\* What the file system shows is READY and has its infohash, for any
\* interleaving of the jobs, the stop button, deletions and crashes.
THEOREM VisibleAreReady == Spec => []VisibleIsReady
<1>1. StateInv => VisibleIsReady
  BY DEF StateInv, RowsAreComplete, VisibleIsReady
<1>2. QED
  BY <1>1, Invariant, PTL

\* Overlapping runs of consumedQueuedTorrents never hold the same row.
THEOREM NoneIndexedTwice == Spec => []NoDoubleIndexing
<1>1. StateInv => NoDoubleIndexing
  BY DEF StateInv
<1>2. QED
  BY <1>1, Invariant, PTL

\* No step, of whichever job or caller, takes READY or the infohash away from
\* a row that has it.
THEOREM ReadyForGood == Spec => ReadyStays
<1>1. TypeOK /\ IdsAreKnown /\ StateInv /\ [Next]_vars => [ReadyStep]_vars
  BY StateInvStays
<1>2. QED
  BY <1>1, Invariant, PTL DEF Spec, ReadyStays, ReadyStep

\* No more rows wait than may be looked up at once, whatever Concurrency is.
THEOREM QueueIsBounded == Spec => []QueuedBound
<1>1. Init => QueueInv
  <2>1. ASSUME Init PROVE queuedTorrents = {} /\ queueJob = "idle"
    BY <2>1 DEF Init, StoreInit, queuedTorrents, WithStatus
  <2>2. Cardinality({}) = 0
    BY FS_EmptySet
  <2>3. QED
    BY <2>1, <2>2, IndexerAssumption DEF QueueInv, QueuedBound
<1>2. TypeOK /\ IdsAreKnown /\ StateInv /\ QueueInv /\ [Next]_vars => QueueInv'
  BY QueueStays
<1>3. QueueInv => QueuedBound
  BY DEF QueueInv
<1>4. QED
  BY <1>1, <1>2, <1>3, Invariant, PTL DEF Spec

\* The jobs, the stop button, the sources and the REST controller move every
\* torrent along TorrentLifeCycle: each step is a step of it or none.
THEOREM LifeCycleFollowed == Spec => FollowsLifeCycle
<1>1. Init => LifeCycle!Init
  <2> SUFFICES ASSUME Init PROVE LifeCycle!Init
    OBVIOUS
  <2>1. \A id \in Id : StageOf(id) = "none"
    BY StageOfRow DEF Init, StoreInit
  <2>2. \A r \in Run : Held(r) = {}
    BY DEF Init, RunIdle, Held
  <2>3. QED
    BY <2>1, <2>2 DEF LifeCycle!Init
<1>2. TypeOK /\ IdsAreKnown /\ StateInv /\ [Next]_vars => [LifeCycle!Next]_(LifeCycle!vars)
  <2> SUFFICES ASSUME TypeOK, IdsAreKnown, StateInv, [Next]_vars
               PROVE  [LifeCycle!Next]_(LifeCycle!vars)
    OBVIOUS
  <2>1. ASSUME NEW id \in Id, ButtonStep(id) PROVE [LifeCycle!Next]_(LifeCycle!vars)
    <3>1. Hands' = Hands
      BY <2>1, HandsSame DEF ButtonStep, Same
    <3>2. QED
      BY <2>1, <3>1, ButtonCycle DEF LifeCycle!vars, Hands
  <2>2. QED
    BY <2>1, NextRows, QuietCycle, CreateCycle, QueueCycle, RemoveCycle, TakeCycle, WorkCycle,
       FinishCycle DEF RowsStep
<1>3. QED
  BY <1>1, <1>2, Invariant, PTL DEF Spec, FollowsLifeCycle, LifeCycle!Spec
=============================================================================
