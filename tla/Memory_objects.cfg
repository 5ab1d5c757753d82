\* Two connections and two batches that share the free lists, and a reply for
\* everything they can hold at once.
SPECIFICATION Spec
CONSTANTS
    Connections = {c1, c2}
    Batches = {b1, b2}
    Replies = {r1, r2, r3, r4}
    None = None
    SINGLETHREADED = TRUE
    BatchBytes = 50
    ErrorBytes = 7
    ReplyBytes = 3
    ConnectionBytes = 11
    MaxCommands = 2
    MaxCount = 2
SYMMETRY Symmetry
CHECK_DEADLOCK FALSE
INVARIANTS
    IInv
    OneOwner
    Accounted
    OwnData
    FreeListsClean
    ReleasesAll
