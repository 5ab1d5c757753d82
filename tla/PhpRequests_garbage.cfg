\* As PhpRequests_all.cfg, smaller, with memory that was used before.
SPECIFICATION Spec
CONSTANTS
    Addresses = {a1, a2, a3}
    Objects = {o1, o2}
    Servers = {s1, bad}
    InvalidServers = {bad}
    Fds = {f1}
    NULL = NULL
    StaleMemory = TRUE
INVARIANTS
    OwnDescriptors
