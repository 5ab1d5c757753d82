\* The build without free lists, one batch.
SPECIFICATION Spec
CONSTANTS
    Connections = {c1}
    Batches = {b1}
    Replies = {r1, r2, r3}
    None = None
    SINGLETHREADED = FALSE
    BatchBytes = 50
    ErrorBytes = 7
    ReplyBytes = 3
    ConnectionBytes = 11
    MaxCommands = 1
    MaxCount = 2
CHECK_DEADLOCK FALSE
INVARIANTS
    OneOwner
