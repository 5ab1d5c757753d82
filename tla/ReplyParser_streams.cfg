\* Conversations of up to two replies with up to one byte wrong, and counts
\* that an int does not hold.
SPECIFICATION Spec
CONSTANTS
    Streams <- AllStreams
    Restarts <- OneRestart
    IntMax = 39
INVARIANTS
    Inv
    AssertionsHold
    MultibulksComplete
    GrammarInv
PROPERTIES
    ReadsGrammar
