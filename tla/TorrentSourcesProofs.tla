------------------------ MODULE TorrentSourcesProofs ------------------------
(***************************************************************************)
(* Machine-checked proofs about TorrentSources and the lookup client it    *)
(* uses: for any feeds, items, free torrents and callers.                  *)
(***************************************************************************)
EXTENDS TorrentSources, TLAPS

\* A run of the feeds between its begin and its end.
AtWork(j) == job[j].pc \in {"next", "fetch", "items", "create"}

\* One run at a time, and the flag is set while it is at work.
OneRun ==
    /\ \A j \in Job : AtWork(j) => isTaskRunning
    /\ \A i, j \in Job : AtWork(i) /\ AtWork(j) => i = j

SourcesInv == OneRun /\ CreateIsAccepted

LookupInv == LookupTypeOK /\ LookupsAreCleanedUp

\* What is about to be created is an item, or a free torrent.
CreatedIsKnown ==
    /\ \A j \in Job : job[j].pc = "create" => job[j].item \in Item
    /\ free.pc = "asked" => lookup[FreeSource].hash \in Free

Inv == LookupInv /\ TypeOK /\ CreatedIsKnown /\ SourcesInv

USE SourcesAssumption, LookupAssumption

-----------------------------------------------------------------------------
(* The lookup client *)

LEMMA AskKeeps ==
    ASSUME LookupInv, NEW c \in Caller, NEW h \in InfoHash, Ask(c, h)
    PROVE  LookupInv' /\ lookup'[c].hash = h /\ \A d \in Caller \ {c} : lookup'[d] = lookup[d]
<1>1. LookupTypeOK' /\ lookup'[c].hash = h /\ lookup'[c].pc = "wait"
      /\ \A d \in Caller \ {c} : lookup'[d] = lookup[d]
  BY DEF LookupInv, LookupTypeOK, Lookup, Ask
<1>2. \A t \in inClient : t[2] \in Caller \ {c}
  BY DEF LookupInv, LookupTypeOK, LookupsAreCleanedUp, Ask
<1>3. \A t \in inClient' : t \in inClient \/ t = <<h, c>>
  BY DEF Ask
<1>4. LookupsAreCleanedUp'
  BY <1>1, <1>2, <1>3 DEF LookupInv, LookupsAreCleanedUp
<1>5. QED
  BY <1>1, <1>4 DEF LookupInv

LEMMA LookupStepKeeps ==
    ASSUME LookupInv, NEW c \in Caller, LookupStep(c)
    PROVE  /\ LookupInv' /\ lookup'[c].hash = lookup[c].hash
           /\ \A d \in Caller \ {c} : lookup'[d] = lookup[d]
<1>1. LookupTypeOK' /\ lookup'[c].hash = lookup[c].hash
      /\ \A d \in Caller \ {c} : lookup'[d] = lookup[d]
  <2>1. \A found : Result(found) \in {"info", "threw"}
    BY DEF Result
  <2>2. CASE Metadata(c) \/ LookupTimeout(c) \/ DestroyTimeout(c)
    BY <2>2 DEF LookupInv, LookupTypeOK, Lookup, Metadata, LookupTimeout, DestroyTimeout
  <2>3. CASE Locate(c) \/ Destroyed(c)
    <3>1. PICK pc \in {"info", "threw", "destroying"} :
             lookup' = [lookup EXCEPT ![c].pc = pc] /\ inClient' \subseteq inClient
      BY <2>1, <2>3 DEF Locate, Destroyed
    <3>2. QED
      BY <3>1 DEF LookupInv, LookupTypeOK, Lookup
  <2>4. QED
    BY <2>2, <2>3 DEF LookupStep, OwnStep
<1>2. CASE Metadata(c) \/ LookupTimeout(c)
  <2>1. inClient' = inClient /\ lookup'[c].pc = "locate"
    BY <1>2 DEF LookupInv, LookupTypeOK, Lookup, Metadata, LookupTimeout
  <2>2. LookupsAreCleanedUp'
    BY <1>1, <2>1 DEF LookupInv, LookupTypeOK, LookupsAreCleanedUp
  <2>3. QED
    BY <1>1, <2>2 DEF LookupInv
<1>3. CASE Locate(c)
  <2>1. \A t \in inClient' : t \in inClient /\ t[1] # lookup[c].hash
    BY <1>3 DEF Locate, Torrents
  <2>2. \A t \in inClient' : t[2] \in Caller \ {c}
    BY <2>1 DEF LookupInv, LookupTypeOK, LookupsAreCleanedUp
  <2>3. LookupsAreCleanedUp'
    BY <1>1, <2>1, <2>2 DEF LookupInv, LookupsAreCleanedUp
  <2>4. QED
    BY <1>1, <2>3 DEF LookupInv
<1>4. CASE Destroyed(c) \/ DestroyTimeout(c)
  <2>1. inClient' = inClient /\ lookup[c].pc = "destroying"
    BY <1>4 DEF Destroyed, DestroyTimeout
  <2>2. \A t \in inClient : t[2] \in Caller \ {c}
    BY <2>1 DEF LookupInv, LookupTypeOK, LookupsAreCleanedUp
  <2>3. LookupsAreCleanedUp'
    BY <1>1, <2>1, <2>2 DEF LookupInv, LookupsAreCleanedUp
  <2>4. QED
    BY <1>1, <2>3 DEF LookupInv
<1>5. QED
  BY <1>2, <1>3, <1>4 DEF LookupStep, OwnStep

LEMMA AnsweredKeeps ==
    ASSUME LookupInv, NEW c \in Caller, NEW result \in {"info", "threw"}, Answered(c, result)
    PROVE  LookupInv' /\ \A d \in Caller \ {c} : lookup'[d] = lookup[d]
<1>1. LookupTypeOK' /\ inClient' = inClient /\ \A d \in Caller \ {c} : lookup'[d] = lookup[d]
  BY DEF LookupInv, LookupTypeOK, Lookup, Answered, NoLookup
<1>2. \A t \in inClient : t[2] \in Caller \ {c}
  BY DEF LookupInv, LookupTypeOK, LookupsAreCleanedUp, Answered
<1>3. QED
  BY <1>1, <1>2 DEF LookupInv, LookupsAreCleanedUp

LEMMA LostKeeps ==
    ASSUME LookupsLost
    PROVE  LookupInv'
  BY DEF LookupsLost, LookupInv, LookupTypeOK, LookupsAreCleanedUp, Lookup, NoLookup

-----------------------------------------------------------------------------
(* The runs of JackettTorrentSourceService *)

\* What a step of a run leaves alone.
LEMMA JobFrame ==
    ASSUME Inv, UNCHANGED <<lookupVars, up, free>>
    PROVE  /\ LookupInv' /\ up' \in {"down", "starting", "listening"} /\ free' \in FreeState
           /\ free'.pc = "asked" => lookup'[FreeSource].hash \in Free
  BY DEF Inv, LookupInv, LookupTypeOK, LookupsAreCleanedUp, lookupVars, TypeOK, CreatedIsKnown

LEMMA JobKeeps ==
    ASSUME Inv, NEW j \in Job, NEW state \in JobState, SetJob(j, state),
           isTaskRunning' \in BOOLEAN, table' \subseteq Item \cup Free,
           AtWork(j) \/ ~isTaskRunning,
           state.pc \in {"next", "fetch", "items", "create"} => isTaskRunning',
           state.pc = "create" => state.item \in Item \ table',
           table' # table => AtWork(j)
    PROVE  Inv'
<1>1. /\ job' \in [Job -> JobState] /\ job'[j] = state
      /\ \A i \in Job \ {j} : job'[i] = job[i]
  BY DEF Inv, TypeOK, SetJob
<1>2. \A i \in Job \ {j} : ~AtWork(i)
  BY DEF Inv, SourcesInv, OneRun
<1>3. OneRun'
  BY <1>1, <1>2 DEF OneRun, AtWork
<1>4. \A i \in Job : job'[i].pc = "create" => i = j
  BY <1>1, <1>2 DEF AtWork
<1>5. CreateIsAccepted' /\ \A i \in Job : job'[i].pc = "create" => job'[i].item \in Item
  BY <1>1, <1>4 DEF CreateIsAccepted
<1>6. UNCHANGED <<lookupVars, up, free>>
  BY DEF SetJob
<1>7. TypeOK'
  BY <1>1, <1>6, JobFrame DEF TypeOK, LookupInv
<1>8. QED
  BY <1>3, <1>5, <1>6, <1>7, JobFrame DEF Inv, SourcesInv, CreatedIsKnown

LEMMA JobStates ==
    ASSUME TypeOK, NEW j \in Job
    PROVE  /\ job[j] \in JobState /\ AfterRun(j) \in JobState /\ AfterRun(j).pc \in {"idle", "off"}
           /\ table \subseteq Item \cup Free /\ isTaskRunning \in BOOLEAN
  BY DEF TypeOK, JobState, AfterRun, JobAt

LEMMA JobStepKeeps ==
    ASSUME Inv, NEW j \in Job, RunJob(j) \/ JobStep(j)
    PROVE  Inv'
<1>0. TypeOK /\ job[j] \in JobState /\ table \subseteq Item \cup Free /\ isTaskRunning \in BOOLEAN
  BY JobStates DEF Inv
<1>1. AtWork(j) => isTaskRunning
  BY DEF Inv, SourcesInv, OneRun
<1>2. CASE RunJob(j)
  <2> DEFINE state == [JobAt("next") EXCEPT !.feeds = Feed]
  <2>1. state \in JobState /\ state.pc = "next"
    BY DEF JobState, JobAt
  <2>2. SetJob(j, state) /\ ~isTaskRunning /\ isTaskRunning' = TRUE /\ table' = table
    BY <1>2 DEF RunJob
  <2> HIDE DEF state
  <2>3. QED
    BY <1>0, <2>1, <2>2, JobKeeps
<1>3. CASE NextFeed(j)
  <2>1. PICK f \in job[j].feeds :
           SetJob(j, [JobAt("fetch") EXCEPT !.feed = f, !.feeds = job[j].feeds \ {f}])
    BY <1>3 DEF NextFeed
  <2> DEFINE state == [JobAt("fetch") EXCEPT !.feed = f, !.feeds = job[j].feeds \ {f}]
  <2>2. state \in JobState /\ state.pc = "fetch"
    BY <1>0, <2>1 DEF JobState, JobAt
  <2>3. SetJob(j, state) /\ AtWork(j) /\ isTaskRunning' = isTaskRunning /\ table' = table
    BY <1>3, <2>1 DEF NextFeed, AtWork
  <2> HIDE DEF state
  <2>4. QED
    BY <1>0, <1>1, <2>2, <2>3, JobKeeps
<1>4. CASE EndJob(j)
  <2>1. AfterRun(j) \in JobState /\ AfterRun(j).pc \in {"idle", "off"}
    BY <1>0, JobStates
  <2>2. SetJob(j, AfterRun(j)) /\ AtWork(j) /\ isTaskRunning' = FALSE /\ table' = table
    BY <1>4 DEF EndJob, AtWork
  <2>3. QED
    BY <1>0, <2>1, <2>2, JobKeeps
<1>5. CASE FetchFeed(j)
  <2>1. PICK items \in SUBSET Item : SetJob(j, [job[j] EXCEPT !.pc = "items", !.items = items])
    BY <1>5 DEF FetchFeed
  <2> DEFINE state == [job[j] EXCEPT !.pc = "items", !.items = items]
  <2>2. state \in JobState /\ state.pc = "items"
    BY <1>0 DEF JobState
  <2>3. SetJob(j, state) /\ AtWork(j) /\ isTaskRunning' = isTaskRunning /\ table' = table
    BY <1>5, <2>1 DEF FetchFeed, AtWork
  <2> HIDE DEF state
  <2>4. QED
    BY <1>0, <1>1, <2>2, <2>3, JobKeeps
<1>6. CASE FeedFails(j) \/ FeedDone(j)
  <2> DEFINE state == [JobAt("next") EXCEPT !.feeds = job[j].feeds]
  <2>1. state \in JobState /\ state.pc = "next"
    BY <1>0 DEF JobState, JobAt
  <2>2. SetJob(j, state) /\ AtWork(j) /\ isTaskRunning' = isTaskRunning /\ table' = table
    BY <1>6 DEF FeedFails, FeedDone, AtWork
  <2> HIDE DEF state
  <2>3. QED
    BY <1>0, <1>1, <2>1, <2>2, JobKeeps
<1>7. CASE FindItem(j)
  <2>1. PICK i \in job[j].items :
           IF i \in table
           THEN SetJob(j, [job[j] EXCEPT !.items = @ \ {i}])
           ELSE SetJob(j, [job[j] EXCEPT !.items = @ \ {i}, !.pc = "create", !.item = i])
    BY <1>7 DEF FindItem
  <2>2. AtWork(j) /\ isTaskRunning' = isTaskRunning /\ table' = table /\ job[j].pc = "items"
    BY <1>7 DEF FindItem, AtWork
  <2>3. i \in Item
    BY <1>0 DEF JobState
  <2>4. CASE i \in table
    <3> DEFINE state == [job[j] EXCEPT !.items = @ \ {i}]
    <3>1. state \in JobState /\ state.pc = "items" /\ SetJob(j, state)
      BY <1>0, <2>1, <2>2, <2>4 DEF JobState
    <3> HIDE DEF state
    <3>2. QED
      BY <1>0, <1>1, <2>2, <3>1, JobKeeps
  <2>5. CASE i \notin table
    <3> DEFINE state == [job[j] EXCEPT !.items = @ \ {i}, !.pc = "create", !.item = i]
    <3>1. state \in JobState /\ state.pc = "create" /\ state.item = i /\ SetJob(j, state)
      BY <1>0, <2>1, <2>3, <2>5 DEF JobState
    <3> HIDE DEF state
    <3>2. QED
      BY <1>0, <1>1, <2>2, <2>3, <2>5, <3>1, JobKeeps
  <2>6. QED
    BY <2>4, <2>5
<1>8. CASE CreateItem(j)
  <2> DEFINE state == [job[j] EXCEPT !.pc = "items", !.item = NoHash]
  <2>1. state \in JobState /\ state.pc = "items"
    BY <1>0 DEF JobState
  <2>2. /\ SetJob(j, state) /\ AtWork(j) /\ isTaskRunning' = isTaskRunning
        /\ table' = table \cup {job[j].item} /\ job[j].item \in Item
    BY <1>8 DEF CreateItem, AtWork, Inv, CreatedIsKnown
  <2> HIDE DEF state
  <2>3. QED
    BY <1>0, <1>1, <2>1, <2>2, JobKeeps
<1>9. QED
  BY <1>2, <1>3, <1>4, <1>5, <1>6, <1>7, <1>8 DEF JobStep

LEMMA AbortKeeps ==
    ASSUME Inv, AbortJob
    PROVE  Inv'
<1>1. /\ job' = [job EXCEPT !["start"] = AfterRun("start")]
      /\ UNCHANGED <<lookupVars, up, free, isTaskRunning, table>>
  BY DEF AbortJob, SetJob
<1>2. AfterRun("start") \in JobState /\ AfterRun("start").pc = "off"
  BY DEF AfterRun, JobAt, JobState
<1>3. /\ job' \in [Job -> JobState] /\ job'["start"].pc = "off"
      /\ \A i \in Job \ {"start"} : job'[i] = job[i]
  BY <1>1, <1>2 DEF Inv, TypeOK, Job
<1>4. TypeOK'
  BY <1>1, <1>3, JobFrame DEF Inv, TypeOK, LookupInv
<1>5. SourcesInv'
  BY <1>1, <1>3 DEF Inv, SourcesInv, OneRun, AtWork, CreateIsAccepted
<1>6. CreatedIsKnown'
  BY <1>1, <1>3, JobFrame DEF Inv, CreatedIsKnown
<1>7. QED
  BY <1>1, <1>4, <1>5, <1>6, JobFrame DEF Inv

-----------------------------------------------------------------------------
(* The process, the free torrents and the indexer *)

LEMMA EndKeeps ==
    ASSUME Inv, ProcessEnds
    PROVE  Inv'
<1>1. LookupInv'
  BY LostKeeps DEF ProcessEnds
<1>2. /\ up' = "down" /\ isTaskRunning' = FALSE /\ table' = table /\ free' = FreeOff
      /\ job' = [j \in Job |-> JobAt("off")]
  BY DEF ProcessEnds
<1>3. JobAt("off") \in JobState /\ JobAt("off").pc = "off" /\ FreeOff \in FreeState /\ FreeOff.pc = "off"
  BY DEF JobAt, JobState, FreeOff, FreeState
<1>4. job' \in [Job -> JobState] /\ \A j \in Job : job'[j].pc = "off"
  BY <1>2, <1>3
<1>5. TypeOK'
  BY <1>1, <1>2, <1>3, <1>4 DEF Inv, TypeOK, LookupInv
<1>6. SourcesInv' /\ CreatedIsKnown'
  BY <1>2, <1>3, <1>4 DEF SourcesInv, OneRun, AtWork, CreateIsAccepted, CreatedIsKnown
<1>7. QED
  BY <1>1, <1>5, <1>6 DEF Inv

\* A step that leaves the runs of the feeds alone and adds no item.
LEMMA QuietKeeps ==
    ASSUME Inv, LookupInv', UNCHANGED <<isTaskRunning, job>>, free' \in FreeState,
           up' \in {"down", "starting", "listening"},
           table' \subseteq table \cup Free,
           free'.pc = "asked" => lookup'[FreeSource].hash \in Free
    PROVE  Inv'
<1>1. TypeOK'
  BY DEF Inv, TypeOK, LookupInv
<1>2. SourcesInv' /\ CreatedIsKnown'
  BY DEF Inv, SourcesInv, OneRun, AtWork, CreateIsAccepted, CreatedIsKnown
<1>3. QED
  BY <1>1, <1>2 DEF Inv

LEMMA StartKeeps ==
    ASSUME Inv, Start
    PROVE  Inv'
<1>1. /\ job' = [j \in Job |-> JobAt("idle")] /\ free' = [pc |-> "find", left |-> Free]
      /\ up' = "starting" /\ UNCHANGED <<lookupVars, table, isTaskRunning>>
  BY DEF Start
<1>2. JobAt("idle") \in JobState /\ JobAt("idle").pc = "idle"
  BY DEF JobAt, JobState
<1>3. job' \in [Job -> JobState] /\ \A j \in Job : job'[j].pc = "idle"
  BY <1>1, <1>2
<1>4. LookupInv'
  BY <1>1 DEF Inv, LookupInv, LookupTypeOK, LookupsAreCleanedUp, lookupVars
<1>5. TypeOK'
  BY <1>1, <1>3, <1>4 DEF Inv, TypeOK, LookupInv, FreeState
<1>6. SourcesInv' /\ CreatedIsKnown'
  BY <1>1, <1>3 DEF SourcesInv, OneRun, AtWork, CreateIsAccepted, CreatedIsKnown
<1>7. QED
  BY <1>4, <1>5, <1>6 DEF Inv

LEMMA FreeStepKeeps ==
    ASSUME Inv, FreeStep
    PROVE  Inv'
<1>1. /\ free.pc \in {"off", "find", "asked"} /\ free.left \subseteq Free /\ free \in FreeState
      /\ up \in {"down", "starting", "listening"} /\ LookupInv
      /\ FreeSource \in Caller
  BY DEF Inv, TypeOK, FreeState
<1>2. ASSUME UNCHANGED lookupVars PROVE LookupInv'
  BY <1>1, <1>2 DEF LookupInv, LookupTypeOK, LookupsAreCleanedUp, lookupVars
<1>3. CASE FreeKnown \/ FreeDone
  <2>1. free' \in FreeState /\ free'.pc # "asked"
    BY <1>1, <1>3 DEF FreeKnown, FreeDone, FreeState, FreeOff
  <2>2. UNCHANGED <<lookupVars, table, up, isTaskRunning, job>>
    BY <1>3 DEF FreeKnown, FreeDone, OthersSame
  <2>3. QED
    BY <1>1, <1>2, <2>1, <2>2, QuietKeeps
<1>4. CASE FreeAsks
  <2>1. PICK h \in free.left \ table :
           Ask(FreeSource, h) /\ free' = [pc |-> "asked", left |-> free.left \ {h}]
    BY <1>4 DEF FreeAsks
  <2>2. h \in Free /\ h \in InfoHash /\ free' \in FreeState
    BY <1>1, <2>1 DEF FreeState
  <2>3. LookupInv' /\ lookup'[FreeSource].hash = h
    BY <1>1, <2>1, <2>2, AskKeeps
  <2>4. UNCHANGED <<table, up, isTaskRunning, job>>
    BY <1>4 DEF FreeAsks, OthersSame
  <2>5. QED
    BY <1>1, <2>2, <2>3, <2>4, QuietKeeps
<1>5. CASE FreeCollides
  BY <1>5, EndKeeps DEF FreeCollides
<1>6. CASE FreeCreate
  <2>1. LookupInv' /\ free' \in FreeState /\ free'.pc = "find"
    BY <1>1, <1>6, AnsweredKeeps DEF FreeCreate, FreeState
  <2>2. table' \subseteq table \cup Free /\ UNCHANGED <<up, isTaskRunning, job>>
    BY <1>6 DEF FreeCreate, OthersSame, Inv, CreatedIsKnown
  <2>3. QED
    BY <1>1, <2>1, <2>2, QuietKeeps
<1>7. CASE FreeThrows
  <2>1. LookupInv' /\ free' \in FreeState /\ free'.pc = "off"
    BY <1>1, <1>7, AnsweredKeeps DEF FreeThrows, FreeState, FreeOff
  <2>2. UNCHANGED <<table, up, isTaskRunning, job>>
    BY <1>7 DEF FreeThrows, OthersSame
  <2>3. QED
    BY <1>1, <2>1, <2>2, QuietKeeps
<1>8. QED
  BY <1>3, <1>4, <1>5, <1>6, <1>7 DEF FreeStep

LEMMA OthersKeep ==
    ASSUME Inv,
           \/ \E c \in Caller : LookUp(c)
           \/ \E c \in Indexer : IndexerGoesOn(c)
           \/ \E c \in Indexer, h \in InfoHash : IndexerAsks(c, h)
           \/ Listen \/ \E guid \in table : Delete(guid)
    PROVE  Inv'
<1>1. /\ free \in FreeState /\ up \in {"down", "starting", "listening"} /\ LookupInv
      /\ free.pc = "asked" => lookup[FreeSource].hash \in Free
      /\ FreeSource \in Caller
  BY DEF Inv, TypeOK, CreatedIsKnown
<1>2. ASSUME NEW c \in Caller, LookUp(c) PROVE Inv'
  <2>1. LookupInv' /\ lookup'[FreeSource].hash = lookup[FreeSource].hash
    BY <1>1, <1>2, LookupStepKeeps DEF LookUp
  <2>2. UNCHANGED <<table, free, up, isTaskRunning, job>>
    BY <1>2 DEF LookUp, OthersSame
  <2>3. QED
    BY <1>1, <2>1, <2>2, QuietKeeps
<1>3. ASSUME NEW c \in Indexer, IndexerGoesOn(c) PROVE Inv'
  <2>1. LookupInv' /\ lookup'[FreeSource] = lookup[FreeSource]
    BY <1>1, <1>3, AnsweredKeeps DEF IndexerGoesOn, Indexer
  <2>2. UNCHANGED <<table, free, up, isTaskRunning, job>>
    BY <1>3 DEF IndexerGoesOn, OthersSame
  <2>3. QED
    BY <1>1, <2>1, <2>2, QuietKeeps
<1>4. ASSUME NEW c \in Indexer, NEW h \in InfoHash, IndexerAsks(c, h) PROVE Inv'
  <2>1. LookupInv' /\ lookup'[FreeSource] = lookup[FreeSource]
    BY <1>1, <1>4, AskKeeps DEF IndexerAsks, Indexer
  <2>2. UNCHANGED <<table, free, up, isTaskRunning, job>>
    BY <1>4 DEF IndexerAsks, OthersSame
  <2>3. QED
    BY <1>1, <2>1, <2>2, QuietKeeps
<1>5. CASE Listen \/ \E guid \in table : Delete(guid)
  <2>1. /\ UNCHANGED <<lookupVars, free, isTaskRunning, job>>
        /\ up' \in {"down", "starting", "listening"} /\ table' \subseteq table
    BY <1>1, <1>5 DEF Listen, Delete, OthersSame
  <2>2. LookupInv' /\ lookup' = lookup
    BY <1>1, <2>1 DEF LookupInv, LookupTypeOK, LookupsAreCleanedUp, lookupVars
  <2>3. QED
    BY <1>1, <2>1, <2>2, QuietKeeps
<1>6. QED
  BY <1>2, <1>3, <1>4, <1>5

-----------------------------------------------------------------------------
(* Theorems about every behaviour *)

\* All the theorems below are about this invariant.
THEOREM Invariant == Spec => []Inv
<1>1. Init => Inv
  <2> SUFFICES ASSUME Init PROVE Inv
    OBVIOUS
  <2>1. JobAt("off") \in JobState /\ JobAt("off").pc = "off" /\ FreeOff \in FreeState /\ FreeOff.pc = "off"
    BY DEF JobAt, JobState, FreeOff, FreeState
  <2>2. LookupInv
    BY DEF Init, LookupInit, LookupInv, LookupTypeOK, LookupsAreCleanedUp, Lookup, NoLookup
  <2>3. job \in [Job -> JobState] /\ \A j \in Job : job[j].pc = "off"
    BY <2>1 DEF Init
  <2>4. TypeOK
    BY <2>1, <2>2, <2>3 DEF Init, TypeOK, LookupInv
  <2>5. SourcesInv /\ CreatedIsKnown
    BY <2>1, <2>3 DEF Init, SourcesInv, OneRun, AtWork, CreateIsAccepted, CreatedIsKnown
  <2>6. QED
    BY <2>2, <2>4, <2>5 DEF Inv
<1>2. Inv /\ [Next]_vars => Inv'
  <2> SUFFICES ASSUME Inv, [Next]_vars PROVE Inv'
    OBVIOUS
  <2>1. CASE UNCHANGED vars
    BY <2>1, QuietKeeps DEF vars, lookupVars, Inv, LookupInv, LookupTypeOK, LookupsAreCleanedUp,
                            TypeOK, CreatedIsKnown
  <2>2. CASE Crash \/ \E c \in Indexer, h \in InfoHash : IndexerCollides(c, h)
    BY <2>2, EndKeeps DEF Crash, IndexerCollides
  <2>3. QED
    BY <2>1, <2>2, StartKeeps, FreeStepKeeps, OthersKeep, JobStepKeeps, AbortKeeps DEF Next
<1>3. QED
  BY <1>1, <1>2, PTL DEF Spec

\* The client, the runs, the loop and the table keep their types.
THEOREM TypeCorrect == Spec => []TypeOK
<1>1. Inv => TypeOK
  BY DEF Inv
<1>2. QED
  BY <1>1, Invariant, PTL

\* No insert of JackettTorrentSourceService meets the UNIQUE feedGuid: its two
\* runs never overlap, and the free torrents are other rows.
THEOREM CreatesAreAccepted == Spec => []CreateIsAccepted
<1>1. Inv => CreateIsAccepted
  BY DEF Inv, SourcesInv
<1>2. QED
  BY <1>1, Invariant, PTL

\* Every torrent of the lookup client belongs to a lookup that will take it
\* out (getTorrentInfoFromMagnetURI, destroyTorrent).
THEOREM NothingLeftBehind == Spec => []LookupsAreCleanedUp
<1>1. Inv => LookupsAreCleanedUp
  BY DEF Inv, LookupInv
<1>2. QED
  BY <1>1, Invariant, PTL
=============================================================================
