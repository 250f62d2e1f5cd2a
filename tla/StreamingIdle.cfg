CONSTANTS
    Hash = {h1, h2}
    Session = {s1}
    Stopper = {}
    Sweep = {w1}
    MaxReady = 2
    PauseAfter = 1
    StopAfter = 2
    Undefined = Undefined
    NaN = NaN
SPECIFICATION FairSpec
INVARIANT MarkedIsIdle
PROPERTY IdleTorrentsAreStopped
