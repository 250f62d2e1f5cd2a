CONSTANTS
    InfoHash = {"h1"}
    Name = {"a", "length"}
    MaxDepth = 3
    MaxFiles = 3
    Length = {0, 3}
    PieceLength = 2
    ReadLength = {1, 4}
SPECIFICATION Spec
INVARIANT TypeOK
INVARIANT ListingsAreExact
INVARIANT AttributesAreExact
INVARIANT ReadsAreExact
INVARIANT ListedIsKnown
