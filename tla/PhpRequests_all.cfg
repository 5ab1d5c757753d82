\* Two servers and an invalid one, three objects in a request at a time,
\* and memory that was used before.
SPECIFICATION Spec
CONSTANTS
    Addresses = {a1, a2, a3, a4, a5}
    Objects = {o1, o2, o3}
    Servers = {s1, s2, bad}
    InvalidServers = {bad}
    Fds = {f1, f2}
    NULL = NULL
    StaleMemory = TRUE
SYMMETRY Symmetry
INVARIANTS
    IInv
    HandlesAlive
    RegistryExact
    RequestLeavesNothing
    OneConnectionPerServer
    NoDescriptorLeaks
PROPERTIES
    OnlyRejectionDisowns
