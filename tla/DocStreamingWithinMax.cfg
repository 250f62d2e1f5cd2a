CONSTANTS
    Hash = {h1, h2}
    Session = {s1, s2}
    Stopper = {}
    Sweep = {}
    MaxReady = 1
    PauseAfter = 1
    StopAfter = 1
    Undefined = Undefined
    NaN = NaN
SPECIFICATION Spec
INVARIANT StreamingWithinMax
