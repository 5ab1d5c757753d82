\* Up to three servers of two weights and all orders of their points.
SPECIFICATION FairSpec
CONSTANTS
    MaxServers = 3
    Weights = {1, 3}
    Hashes = 2
    Points = 1
    MaxPoint = 2
    Precision = 100
    sizeof <- Sizes
    AddsLate = FALSE
INVARIANTS
    IInv
    FindsNextPoint
    HasPoints
    FitsAllocation
    NothingLeaked
PROPERTIES
    SearchEnds
