CONSTANTS
    MaxRow = 2
    Concurrency = 1
    MaxCrashes = 0
    Run = {r1}
    InfoHash = {h1}
    FreeHash = {}
    Null = Null
SPECIFICATION Spec
INVARIANT HiddenIsUnreadable
