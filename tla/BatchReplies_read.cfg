\* Up to three replies, multibulk ones with up to two elements.
SPECIFICATION Spec
CONSTANTS
    MaxCommands = 3
    MaxChildren = 2
    WritesMidway = FALSE
INVARIANTS
    IterationInv
PROPERTIES
    IsCursor
