SPECIFICATION Spec
CONSTANTS
    c1 = c1
    c2 = c2
    b1 = b1
    b2 = b2
    Connections <- TwoConnections
    Batches <- TwoBatches
    Fds = {3, 4}
    MaxPairs = 2
    MaxCommands = 2
    MaxTimeout = 1
    NoBatch = NoBatch
    Liberties = {}
SYMMETRY Symmetry
INVARIANTS
    EventCountExact
    NoLostWakeup
    EveryCommandAnswered
    NoStrayReply
    RepliesAreOwn
    SocketsOwned
PROPERTIES
    KeepsPromise
