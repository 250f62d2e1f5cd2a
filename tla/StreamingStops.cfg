CONSTANTS
    Hash = {h1}
    Session = {s1, s2}
    Stopper = {u1}
    Sweep = {w1}
    MaxReady = 1
    PauseAfter = 1
    StopAfter = 1
    Undefined = Undefined
    NaN = NaN
SPECIFICATION FairSpec
INVARIANT TypeOK
INVARIANT PendingHasStarter
INVARIANT ReadyIsTimed
INVARIANT ActiveReadsDrift
PROPERTY ReadsAreAnswered
