\* Up to two growths.
SPECIFICATION FairSpec
CONSTANTS
    BuffSize = 8
    StructSize = 3
    Lengths = {0, 1, 7, 9, 17}
    MaxPut = 34
INVARIANTS
    BufferInv
    Balanced
PROPERTIES
    KeepsBytes
    EnsureEnds
