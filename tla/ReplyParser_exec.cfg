\* The reply to a transaction, whose elements are not all bulk replies.
SPECIFICATION Spec
CONSTANTS
    Streams <- ExecStreams
    Restarts <- OneRestart
    IntMax = 39
INVARIANTS
    EveryResultParses
