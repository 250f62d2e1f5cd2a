CONSTANTS
    MaxRow = 1
    Concurrency = 1
    MaxCrashes = 0
    Run = {r1}
    InfoHash = {h1}
    FreeHash = {}
    Null = Null
SPECIFICATION FairSpec
PROPERTY ProcessingEnds
