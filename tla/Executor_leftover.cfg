SPECIFICATION FairSpec
CONSTANTS
    c1 = c1
    c2 = c2
    b1 = b1
    b2 = b2
    Connections <- OneConnection
    Batches <- TwoBatches
    Fds = {3, 4}
    MaxPairs = 2
    MaxCommands = 2
    MaxTimeout = 1
    NoBatch = NoBatch
    Liberties = {}
PROPERTIES
    TimeoutMeansUnfinished
