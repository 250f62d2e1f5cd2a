CONSTANTS
    MaxRow = 3
    Concurrency = 1
    MaxCrashes = 1
    Run = {r1, r2}
    InfoHash = {h1}
    FreeHash = {h1}
    Null = Null
SPECIFICATION FairSpec
INVARIANT TypeOK
INVARIANT VisibleIsReady
INVARIANT NoDoubleIndexing
INVARIANT QueuedBound
PROPERTY ReadyStays
PROPERTY FollowsLifeCycle
PROPERTY NewRowsAreTaken
