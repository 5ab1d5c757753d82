---------------------------- MODULE PhpRequests ----------------------------
(***************************************************************************)
(* The objects of the PHP extension (src/php/ext/libredis/libredis.c) over *)
(* the requests of one PHP process: PHP objects with a "handle" to an      *)
(* object of the C library, the hash tables that keep track of those, and  *)
(* the connections, which outlive requests.  Connections are modelled with *)
(* the descriptor they hold, from Connection_new to Connection_free.       *)
(*                                                                         *)
(* PHP itself is external: at the end of a request it calls the destructor *)
(* of every object that is left, in any order; after a fatal error         *)
(* (zend_error with E_ERROR) it does not come back to the caller and calls *)
(* none of them; then RSHUTDOWN is called.                                 *)
(***************************************************************************)
EXTENDS Integers, FiniteSets, Functions

CONSTANTS
    Addresses,        \* what malloc may return for an object of the library
    Objects,          \* PHP objects
    Servers,          \* the addresses given to get_connection ...
    InvalidServers,   \* ... and those of them that are too long
    Fds,              \* file descriptors, 0 is not one of them
    NULL,
    StaleMemory       \* malloc may return memory that is not zero

ASSUME NullAssumption == NULL \notin Addresses
ASSUME FdAssumption == 0 \notin Fds
ASSUME ServerAssumption == InvalidServers \subseteq Servers /\ StaleMemory \in BOOLEAN

Tracked == {"batch", "ketama", "executor"}
Classes == Tracked \cup {"connection"}

VARIABLES
    phase,           \* "down", "idle", "request", "ending" or "failed"
    memory,          \* what is allocated at each address
    object,          \* the live PHP objects
    registry,        \* g_batch, g_ketama and g_executor
    g_connections,   \* the persistent connections
    pairs,           \* of an executor: its connections and batches
    sockfd,          \* of a connection
    open,            \* the open descriptors
    lost             \* history: batches of set and get that a fatal error left

socketVars == <<sockfd, open>>
vars == <<phase, memory, object, registry, g_connections, pairs, socketVars, lost>>

NoObject == [class |-> "none", handle |-> NULL]

\* Every variable has the type of what it stands for.
TypeOK ==
    /\ phase \in {"down", "idle", "request", "ending", "failed"}
    /\ memory \in [Addresses -> Classes \cup {"free"}]
    /\ object \in [Objects -> [class : Classes, handle : Addresses] \cup {NoObject}]
    /\ registry \in [Tracked -> SUBSET Addresses]
    /\ g_connections \in [Servers -> Addresses \cup {NULL}]
    /\ pairs \in [Addresses -> SUBSET (Addresses \X Addresses)]
    /\ sockfd \in [Addresses -> Fds \cup {0}]
    /\ open \subseteq Fds
    /\ lost \subseteq Addresses

Init ==
    /\ phase = "down"
    /\ memory = [a \in Addresses |-> "free"]
    /\ object = [o \in Objects |-> NoObject]
    /\ registry = [class \in Tracked |-> {}]
    /\ g_connections = [s \in Servers |-> NULL]
    /\ pairs = [a \in Addresses |-> {}]
    /\ sockfd = [a \in Addresses |-> 0]
    /\ open = {}
    /\ lost = {}

Live(class) == {o \in Objects : object[o].class = class}
Handle(o) == object[o].handle

-----------------------------------------------------------------------------
(***************************************************************************)
(* The process and its requests.                                           *)
(***************************************************************************)

MINIT ==
    /\ phase = "down" /\ phase' = "idle"
    /\ registry' = [class \in Tracked |-> {}]
    /\ g_connections' = [s \in Servers |-> NULL]
    /\ UNCHANGED <<memory, object, pairs, socketVars, lost>>

RINIT ==
    /\ phase = "idle" /\ phase' = "request"
    /\ UNCHANGED <<memory, object, registry, g_connections, pairs, socketVars, lost>>

\* Their memory is given back, with the pairs of the executors among them.
Freed(as) ==
    /\ memory' = [a \in Addresses |-> IF a \in as THEN "free" ELSE memory[a]]
    /\ pairs' = [a \in Addresses |-> IF a \in as THEN {} ELSE pairs[a]]

\* The script comes to its end, or to a fatal error of its own.
ScriptEnds ==
    /\ phase = "request"
    /\ phase' \in {"ending", "failed"}
    /\ UNCHANGED <<memory, object, registry, g_connections, pairs, socketVars, lost>>

\* Mutant: the table of executors is left out.
RSHUTDOWN_two ==
    /\ \/ phase = "ending" /\ \A o \in Objects : object[o] = NoObject
       \/ phase = "failed"
    /\ phase' = "idle"
    /\ Freed(registry["batch"] \cup registry["ketama"])
    /\ registry' = [class \in Tracked |-> {}]
    /\ object' = [o \in Objects |-> NoObject]
    /\ UNCHANGED <<g_connections, socketVars, lost>>

\* zend_hash_apply with shutdown_hash_free on the three tables.
RSHUTDOWN ==
    /\ \/ phase = "ending" /\ \A o \in Objects : object[o] = NoObject
       \/ phase = "failed"
    /\ phase' = "idle"
    /\ Freed(UNION {registry[class] : class \in Tracked})
    /\ registry' = [class \in Tracked |-> {}]
    /\ object' = [o \in Objects |-> NoObject]
    /\ UNCHANGED <<g_connections, socketVars, lost>>

\* Mutant: the connections are freed without Connection_close.
MSHUTDOWN_unclosed ==
    LET cached == {g_connections[s] : s \in Servers} \ {NULL}
    IN /\ phase = "idle" /\ phase' = "down"
       /\ Freed(cached)
       /\ sockfd' = [a \in Addresses |-> IF a \in cached THEN 0 ELSE sockfd[a]]
       /\ g_connections' = [s \in Servers |-> NULL]
       /\ UNCHANGED <<object, registry, lost, open>>

\* Frees the connections in g_connections, and ends the library.
MSHUTDOWN ==
    LET cached == {g_connections[s] : s \in Servers} \ {NULL}
    IN /\ phase = "idle" /\ phase' = "down"
       /\ Freed(cached)
       /\ open' = open \ {sockfd[a] : a \in cached}
       /\ sockfd' = [a \in Addresses |-> IF a \in cached THEN 0 ELSE sockfd[a]]
       /\ g_connections' = [s \in Servers |-> NULL]
       /\ UNCHANGED <<object, registry, lost>>

-----------------------------------------------------------------------------
(***************************************************************************)
(* Methods of the Redis object.                                            *)
(***************************************************************************)

\* object_init_ex, and "handle" is set.
NewObject(o, class, a) ==
    /\ object[o] = NoObject
    /\ object' = [object EXCEPT ![o] = [class |-> class, handle |-> a]]

\* The object of the library, its PHP object, and its entry in the table.
Create(o, class, a) ==
    /\ phase = "request" /\ memory[a] = "free"
    /\ NewObject(o, class, a)
    /\ memory' = [memory EXCEPT ![a] = class]
    /\ registry' = [registry EXCEPT ![class] = @ \cup {a}]
    /\ UNCHANGED <<phase, g_connections, pairs, socketVars, lost>>

create_ketama(o, a) == Create(o, "ketama", a)
create_executor(o, a) == Create(o, "executor", a)
create_batch(o, a) == Create(o, "batch", a)

\* The contents of a field that Connection_new has not set yet.
Uninitialized == IF StaleMemory THEN Fds \cup {0} ELSE {0}

\* Connection_new gives an invalid address to Connection_free, and its
\* Connection_close closes what the field sockfd happens to hold.
RejectAddress ==
    /\ \E fd \in Uninitialized : open' = open \ {fd}
    /\ phase' = "failed"
    /\ UNCHANGED <<memory, object, registry, g_connections, pairs, sockfd, lost>>

\* Mutant: the connection is not put into g_connections.
Connection_new_uncached(o, s, a) ==
    /\ memory[a] = "free"
    /\ memory' = [memory EXCEPT ![a] = "connection"]
    /\ sockfd' = [sockfd EXCEPT ![a] = 0]
    /\ NewObject(o, "connection", a)
    /\ UNCHANGED <<phase, registry, g_connections, pairs, open, lost>>

Connection_new(o, s, a) ==
    /\ memory[a] = "free"
    /\ memory' = [memory EXCEPT ![a] = "connection"]
    /\ sockfd' = [sockfd EXCEPT ![a] = 0]
    /\ g_connections' = [g_connections EXCEPT ![s] = a]
    /\ NewObject(o, "connection", a)
    /\ UNCHANGED <<phase, registry, pairs, open, lost>>

\* Mutant: does not look whether Connection_new returned NULL.
get_connection_unchecked(o, s) ==
    /\ phase = "request"
    /\ \/ /\ g_connections[s] # NULL \/ s \in InvalidServers
          /\ NewObject(o, "connection", g_connections[s])
          /\ UNCHANGED <<phase, memory, registry, g_connections, pairs,
                         socketVars, lost>>
       \/ /\ g_connections[s] = NULL /\ s \notin InvalidServers
          /\ \E a \in Addresses : Connection_new(o, s, a)

get_connection(o, s) ==
    /\ phase = "request"
    /\ \/ /\ g_connections[s] # NULL
          /\ NewObject(o, "connection", g_connections[s])
          /\ UNCHANGED <<phase, memory, registry, g_connections, pairs,
                         socketVars, lost>>
       \/ /\ g_connections[s] = NULL /\ s \in InvalidServers
          /\ RejectAddress
       \/ /\ g_connections[s] = NULL /\ s \notin InvalidServers
          /\ \E a \in Addresses : Connection_new(o, s, a)

-----------------------------------------------------------------------------
(***************************************************************************)
(* Executing.                                                              *)
(***************************************************************************)

\* Mutant: a connection that fails does not close its descriptor.
ServeUnclosed(connections) ==
    \E fd \in [connections -> {0} \cup Fds] :
       LET opened == {fd[a] : a \in connections} \ {0}
       IN /\ opened \cap open = {}
          /\ \A a, b \in connections : a # b /\ fd[a] = fd[b] => fd[a] = 0
          /\ open' = open \cup opened
          /\ sockfd' = [a \in Addresses |->
                          IF a \in connections THEN fd[a] ELSE sockfd[a]]

\* Each of them with a descriptor of its own, the one it had or another, or
\* closed.
Renew(connections) ==
    LET closed == {sockfd[a] : a \in connections} \ {0}
    IN \E fd \in [connections -> {0} \cup Fds] :
          LET opened == {fd[a] : a \in connections} \ {0}
          IN /\ opened \cap (open \ closed) = {}
             /\ \A a, b \in connections : a # b /\ fd[a] = fd[b] => fd[a] = 0
             /\ open' = (open \ closed) \cup opened
             /\ sockfd' = [a \in Addresses |->
                             IF a \in connections THEN fd[a] ELSE sockfd[a]]

\* Executor_execute: the other connections keep what their sockfd says, be it
\* open or not.
Serve(connections) == \E renewed \in SUBSET connections : Renew(renewed)

Executor_add(e, c, b) ==
    /\ phase = "request"
    /\ e \in Live("executor") /\ c \in Live("connection") /\ b \in Live("batch")
    /\ pairs' = [pairs EXCEPT ![Handle(e)] = @ \cup {<<Handle(c), Handle(b)>>}]
    /\ UNCHANGED <<phase, memory, object, registry, g_connections, socketVars, lost>>

\* A result of -1 becomes a fatal error.  A script keeps the batches of an
\* executor until it has executed them.
Executor_execute(e) ==
    /\ phase = "request" /\ e \in Live("executor") /\ pairs[Handle(e)] # {}
    /\ \A p \in pairs[Handle(e)] : memory[p[2]] = "batch"
    /\ Serve({p[1] : p \in pairs[Handle(e)]})
    /\ phase' \in {"request", "failed"}
    /\ UNCHANGED <<memory, object, registry, g_connections, pairs, lost>>

\* The executor it makes is freed before a result of -1 becomes a fatal error.
Connection_execute_simple(c) ==
    /\ phase = "request" /\ c \in Live("connection")
    /\ Serve({Handle(c)})
    /\ phase' \in {"request", "failed"}

Connection_execute(c, b) ==
    /\ b \in Live("batch")
    /\ Connection_execute_simple(c)
    /\ UNCHANGED <<memory, object, registry, g_connections, pairs, lost>>

Batch_execute(b, c) == Connection_execute(c, b)

\* A batch that only the method knows is freed at its end, unless the result or
\* the reply is a fatal error.
WithOwnBatch(c, a) ==
    /\ memory[a] = "free"
    /\ Connection_execute_simple(c)
    /\ IF phase' = "failed"
       THEN /\ memory' = [memory EXCEPT ![a] = "batch"]
            /\ lost' = lost \cup {a}
       ELSE UNCHANGED <<memory, lost>>
    /\ UNCHANGED <<object, registry, g_connections, pairs>>

Connection_set(c, a) == WithOwnBatch(c, a)
Connection_get(c, a) == WithOwnBatch(c, a)

-----------------------------------------------------------------------------
(***************************************************************************)
(* Destructors: called by PHP when the last variable goes, or at the end.  *)
(***************************************************************************)

\* Mutant: the entry in the table stays.
DestructUntracked(o, class) ==
    /\ o \in Live(class)
    /\ Freed({Handle(o)})
    /\ UNCHANGED registry

\* The entry in the class's table, and the object of the library.
DestructTracked(o, class) ==
    /\ o \in Live(class)
    /\ registry' = [registry EXCEPT ![class] = @ \ {Handle(o)}]
    /\ Freed({Handle(o)})

Ketama_destruct(o) == DestructTracked(o, "ketama")
Executor_destruct(o) == DestructTracked(o, "executor")
Batch_destruct(o) == DestructTracked(o, "batch")

\* Mutant: frees the connection.
Connection_destruct_free(o) ==
    /\ o \in Live("connection")
    /\ Freed({Handle(o)})
    /\ UNCHANGED registry

\* The connection itself is persistent.
Connection_destruct(o) ==
    /\ o \in Live("connection")
    /\ UNCHANGED <<memory, registry, pairs>>

\* The handle of the PHP object is gone with it.
__destruct(o) ==
    /\ phase \in {"request", "ending"}
    /\ \/ Ketama_destruct(o) \/ Executor_destruct(o)
       \/ Batch_destruct(o) \/ Connection_destruct(o)
    /\ object' = [object EXCEPT ![o] = NoObject]
    /\ UNCHANGED <<phase, g_connections, socketVars, lost>>

Next ==
    \/ MINIT \/ RINIT \/ ScriptEnds \/ RSHUTDOWN \/ MSHUTDOWN
    \/ \E o \in Objects, a \in Addresses :
          create_ketama(o, a) \/ create_executor(o, a) \/ create_batch(o, a)
    \/ \E o \in Objects, s \in Servers : get_connection(o, s)
    \/ \E e, c, b \in Objects : Executor_add(e, c, b)
    \/ \E c, b \in Objects : Connection_execute(c, b) \/ Batch_execute(b, c)
    \/ \E c \in Objects, a \in Addresses : Connection_set(c, a) \/ Connection_get(c, a)
    \/ \E o \in Objects : Executor_execute(o) \/ __destruct(o)

Spec == Init /\ [][Next]_vars

-----------------------------------------------------------------------------
(***************************************************************************)
(* Properties.                                                             *)
(***************************************************************************)

Allocated(class) == {a \in Addresses : memory[a] = class}
Cached == {g_connections[s] : s \in Servers} \ {NULL}

\* No PHP object outlives what its handle points to, and no executor the
\* connections it was given, whichever objects the script drops first.
HandlesAlive ==
    /\ \A o \in Objects :
          object[o] # NoObject => memory[Handle(o)] = object[o].class
    /\ \A e \in registry["executor"], p \in Addresses \X Addresses :
          p \in pairs[e] => memory[p[1]] = "connection"

\* What RSHUTDOWN would free is exactly what no destructor has freed yet: the
\* handles of the live objects of the class, each of one object only.
RegistryExact ==
    \A class \in Tracked :
       /\ registry[class] = {Handle(o) : o \in Live(class)}
       /\ \A o, q \in Live(class) : Handle(o) = Handle(q) => o = q
       /\ registry[class] = Allocated(class) \ lost

\* After a request nothing of it is left (libredis.c:726-728), however it ended,
\* but for the batches of Connection.set and get that a fatal error left.
RequestLeavesNothing ==
    phase = "idle" =>
       {a \in Addresses : memory[a] # "free"} = Cached \cup lost

\* There is one connection for every server that was asked for, and none that
\* MSHUTDOWN would not free.
OneConnectionPerServer ==
    /\ Cached = Allocated("connection")
    /\ \A s, t \in Servers :
          g_connections[s] = g_connections[t] => s = t \/ g_connections[s] = NULL
    /\ \A s \in InvalidServers : g_connections[s] = NULL

\* Connections close their own descriptor and no other: one that is in use is
\* open, and one that is open is in use (redis.h:117).
OwnDescriptors ==
    /\ {sockfd[a] : a \in Addresses} \ {0} = open
    /\ \A a, b \in Addresses : sockfd[a] = sockfd[b] => a = b \/ sockfd[a] = 0
    /\ \A a \in Addresses : sockfd[a] # 0 => memory[a] = "connection"

\* A descriptor is closed under the connection that holds it, is held twice, or
\* is held by none only after Connection_new has refused an address in memory
\* that malloc did not clear: no execution, no destructor, no end of a request
\* or of the module takes the descriptors from their connections.
OnlyRejectionDisowns ==
    [][OwnDescriptors =>
          \/ OwnDescriptors'
          \/ \E o \in Objects, s \in InvalidServers : get_connection(o, s)]_vars

\* Whatever Connection_new closed before, a descriptor that is open is held by
\* a connection that MSHUTDOWN will free: the process leaks none.
NoDescriptorLeaks ==
    \A fd \in open : \E a \in Cached : sockfd[a] = fd

-----------------------------------------------------------------------------
(***************************************************************************)
(* The inductive invariant of those that do not speak of descriptors.      *)
(***************************************************************************)

\* Between requests there is no PHP object, without the module no connection.
Quiet ==
    /\ phase \in {"idle", "down"} =>
          /\ \A o \in Objects : object[o] = NoObject
          /\ \A class \in Tracked : registry[class] = {}
    /\ phase = "down" => \A s \in Servers : g_connections[s] = NULL

\* An address that malloc may return for an executor has no pairs left.
PairsOfExecutors ==
    \A a \in Addresses : memory[a] # "executor" => pairs[a] = {}

LostAreBatches == lost \subseteq Allocated("batch")

IInv ==
    /\ TypeOK
    /\ Quiet
    /\ HandlesAlive
    /\ PairsOfExecutors
    /\ LostAreBatches
    /\ RegistryExact
    /\ OneConnectionPerServer
=============================================================================
