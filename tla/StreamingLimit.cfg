CONSTANTS
    Hash = {h1, h2, h3}
    Session = {s1, s2}
    Stopper = {}
    Sweep = {w1}
    MaxReady = 1
    PauseAfter = 1
    StopAfter = 1
    Undefined = Undefined
    NaN = NaN
SPECIFICATION Spec
INVARIANT NoDuplicates
INVARIANT ReadyBound
SYMMETRY Symmetry
PROPERTY ImplementsPool
