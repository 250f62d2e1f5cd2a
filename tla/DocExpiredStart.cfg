CONSTANTS
    Hash = {h1}
    Session = {s1}
    Stopper = {u1}
    Sweep = {}
    MaxReady = 1
    PauseAfter = 1
    StopAfter = 1
    Undefined = Undefined
    NaN = NaN
SPECIFICATION Spec
INVARIANT ExpiredStartCanBeStopped
