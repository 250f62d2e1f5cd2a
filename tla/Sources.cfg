CONSTANTS
    InfoHash = {h1, h2}
    Caller = {f, i}
    NoHash = NoHash
    Feed = {feed1, feed2}
    Item = {g1}
    Free = {h1, h2}
    FreeSource = f
SPECIFICATION FairSpec
INVARIANT TypeOK
INVARIANT CreateIsAccepted
INVARIANT LookupsAreCleanedUp
PROPERTY BootstrapEnds
PROPERTY FeedsAreAskedAgain
