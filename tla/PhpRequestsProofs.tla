-------------------------- MODULE PhpRequestsProofs --------------------------
(***************************************************************************)
(* The objects of the PHP extension: for any number of servers, objects    *)
(* and requests, and whatever order destructors are called in, no handle   *)
(* dangles, a request leaves nothing behind but what a fatal error in      *)
(* Connection.set or get did, and connections keep their own descriptors.  *)
(***************************************************************************)
EXTENDS PhpRequests, TLAPS

\* The two parts of HandlesAlive.
ObjectsAlive ==
    \A o \in Objects : object[o] # NoObject => memory[Handle(o)] = object[o].class

PairsAlive ==
    \A e \in registry["executor"], p \in Addresses \X Addresses :
       p \in pairs[e] => memory[p[1]] = "connection"

LEMMA LiveObject ==
  ASSUME TypeOK, NEW class, class # "none", NEW o \in Live(class)
  PROVE  /\ o \in Objects /\ object[o] # NoObject
         /\ Handle(o) \in Addresses /\ object[o].class = class
BY DEF TypeOK, Live, Handle, NoObject

\* The objects a destructor is called for, and what their table says of them.
LEMMA TrackedObject ==
  ASSUME IInv, NEW class \in Tracked, NEW o \in Live(class)
  PROVE  /\ Handle(o) \in registry[class] /\ memory[Handle(o)] = class
         /\ Handle(o) \notin lost
         /\ \A q \in Live(class) : Handle(q) = Handle(o) => q = o
<1>1. class # "none"
  BY DEF Tracked
<1>2. o \in Objects /\ object[o] # NoObject /\ object[o].class = class
  BY <1>1, LiveObject DEF IInv
<1>3. memory[Handle(o)] = class
  BY <1>2 DEF IInv, HandlesAlive
<1>4. Handle(o) \in registry[class] /\ Handle(o) \notin lost
  BY DEF IInv, RegistryExact
<1> QED
  BY <1>3, <1>4 DEF IInv, RegistryExact

\* What a table holds is allocated, for its class, and not lost.
LEMMA Registered ==
  ASSUME IInv, NEW class \in Tracked, NEW a \in registry[class]
  PROVE  a \in Addresses /\ memory[a] = class /\ a \notin lost
BY DEF IInv, RegistryExact, Allocated

\* A live PHP object of the class connection is a handle to a cached one.
LEMMA ConnectionObject ==
  ASSUME IInv, NEW o \in Live("connection")
  PROVE  /\ o \in Objects /\ Handle(o) \in Addresses
         /\ memory[Handle(o)] = "connection" /\ Handle(o) \in Cached
<1>1. o \in Objects /\ object[o] # NoObject /\ object[o].class = "connection"
      /\ Handle(o) \in Addresses
  BY LiveObject DEF IInv
<1>2. memory[Handle(o)] = "connection"
  BY <1>1 DEF IInv, HandlesAlive
<1> QED
  BY <1>1, <1>2 DEF IInv, OneConnectionPerServer, Allocated

LEMMA InvInit == Init => IInv
<1> SUFFICES ASSUME Init PROVE IInv
  OBVIOUS
<1> USE DEF Init
<1>1. TypeOK
  BY DEF TypeOK, Classes, Tracked, NoObject
<1>2. Quiet /\ HandlesAlive /\ PairsOfExecutors /\ LostAreBatches
  BY DEF Quiet, HandlesAlive, PairsOfExecutors, LostAreBatches, Allocated, Tracked
<1>3. \A class \in Tracked : Live(class) = {} /\ Allocated(class) = {}
  BY DEF Tracked, Live, Allocated, NoObject
<1>4. RegistryExact
  BY <1>3 DEF RegistryExact
<1>5. Cached = {} /\ Allocated("connection") = {}
  BY DEF Cached, Allocated
<1>6. OneConnectionPerServer
  BY <1>5, ServerAssumption DEF OneConnectionPerServer
<1> QED
  BY <1>1, <1>2, <1>4, <1>6 DEF IInv

-----------------------------------------------------------------------------
(***************************************************************************)
(* Steps that change no object: phases of a request, and executing.        *)
(***************************************************************************)

Kept == UNCHANGED <<memory, object, registry, g_connections, pairs, lost>>

LEMMA KeptKeeps ==
  ASSUME IInv, Kept, phase' \in {"request", "ending", "failed"},
         sockfd' \in [Addresses -> Fds \cup {0}], open' \subseteq Fds
  PROVE  IInv'
<1>1. TypeOK'
  BY DEF IInv, TypeOK, Kept
<1>2. Quiet'
  BY DEF Quiet
<1>3. HandlesAlive' /\ PairsOfExecutors'
  BY DEF IInv, Kept, HandlesAlive, PairsOfExecutors, Handle
<1>4. LostAreBatches'
  BY DEF IInv, Kept, LostAreBatches, Allocated
<1>5. RegistryExact'
  BY DEF IInv, Kept, RegistryExact, Live, Handle, Allocated
<1>6. OneConnectionPerServer'
  BY DEF IInv, Kept, OneConnectionPerServer, Cached, Allocated
<1> QED
  BY <1>1, <1>2, <1>3, <1>4, <1>5, <1>6 DEF IInv

LEMMA ServeType ==
  ASSUME TypeOK, NEW connections \in SUBSET Addresses, Serve(connections)
  PROVE  sockfd' \in [Addresses -> Fds \cup {0}] /\ open' \subseteq Fds
<1>1. PICK renewed \in SUBSET connections : Renew(renewed)
  BY DEF Serve
<1> DEFINE closed == {sockfd[a] : a \in renewed} \ {0}
<1>2. PICK fd \in [renewed -> {0} \cup Fds] :
         /\ open' = (open \ closed) \cup ({fd[a] : a \in renewed} \ {0})
         /\ sockfd' = [a \in Addresses |->
                         IF a \in renewed THEN fd[a] ELSE sockfd[a]]
  BY <1>1 DEF Renew
<1>3. {fd[a] : a \in renewed} \ {0} \subseteq Fds
  OBVIOUS
<1> QED
  BY <1>2, <1>3 DEF TypeOK

\* The connections of an executor that has PHP objects of its own.
LEMMA ExecutorConnections ==
  ASSUME IInv, NEW e \in Live("executor")
  PROVE  {p[1] : p \in pairs[Handle(e)]} \subseteq Allocated("connection")
<1>1. Handle(e) \in registry["executor"] /\ Handle(e) \in Addresses
  BY TrackedObject, LiveObject DEF Tracked, IInv
<1>2. pairs[Handle(e)] \subseteq Addresses \X Addresses
  BY <1>1 DEF IInv, TypeOK
<1>3. \A p \in pairs[Handle(e)] : p[1] \in Addresses /\ memory[p[1]] = "connection"
  BY <1>1, <1>2 DEF IInv, HandlesAlive
<1> QED
  BY <1>3 DEF Allocated

LEMMA ExecuteKeeps ==
  ASSUME IInv, \/ \E e \in Objects : Executor_execute(e)
               \/ \E c, b \in Objects : Connection_execute(c, b) \/ Batch_execute(b, c)
  PROVE  IInv'
<1>1. ASSUME NEW e \in Objects, Executor_execute(e) PROVE IInv'
  <2>1. {p[1] : p \in pairs[Handle(e)]} \in SUBSET Addresses
    BY <1>1, ExecutorConnections DEF Executor_execute, Allocated
  <2>2. sockfd' \in [Addresses -> Fds \cup {0}] /\ open' \subseteq Fds
    BY <1>1, <2>1, ServeType DEF Executor_execute, IInv
  <2> QED
    BY <1>1, <2>2, KeptKeeps DEF Executor_execute, Kept
<1>2. ASSUME NEW c \in Objects, NEW b \in Objects, Connection_execute(c, b)
      PROVE  IInv'
  <2>1. {Handle(c)} \in SUBSET Addresses
    BY <1>2, ConnectionObject DEF Connection_execute, Connection_execute_simple
  <2>2. sockfd' \in [Addresses -> Fds \cup {0}] /\ open' \subseteq Fds
    BY <1>2, <2>1, ServeType
    DEF Connection_execute, Connection_execute_simple, IInv
  <2> QED
    BY <1>2, <2>2, KeptKeeps
    DEF Connection_execute, Connection_execute_simple, Kept
<1> QED
  BY <1>1, <1>2 DEF Batch_execute

LEMMA PhaseKeeps ==
  ASSUME IInv, RINIT \/ ScriptEnds
  PROVE  IInv'
BY KeptKeeps DEF RINIT, ScriptEnds, Kept, IInv, TypeOK, socketVars

LEMMA MinitKeeps ==
  ASSUME IInv, MINIT
  PROVE  IInv'
<1>1. /\ registry' = [class \in Tracked |-> registry[class]]
      /\ g_connections' = [s \in Servers |-> g_connections[s]]
  BY DEF MINIT, IInv, Quiet
<1>2. registry' = registry /\ g_connections' = g_connections
  BY <1>1 DEF IInv, TypeOK
<1>3. UNCHANGED <<memory, object, pairs, sockfd, open, lost>> /\ phase' = "idle"
  BY DEF MINIT, socketVars
<1>4. TypeOK'
  BY <1>2, <1>3 DEF IInv, TypeOK
<1>5. Quiet'
  BY <1>2, <1>3 DEF IInv, Quiet, MINIT
<1>6. HandlesAlive' /\ PairsOfExecutors' /\ LostAreBatches'
  BY <1>2, <1>3
  DEF IInv, HandlesAlive, PairsOfExecutors, LostAreBatches, Handle, Allocated
<1>7. RegistryExact' /\ OneConnectionPerServer'
  BY <1>2, <1>3
  DEF IInv, RegistryExact, OneConnectionPerServer, Live, Handle, Allocated, Cached
<1> QED
  BY <1>4, <1>5, <1>6, <1>7 DEF IInv

-----------------------------------------------------------------------------
(***************************************************************************)
(* Steps that allocate.                                                    *)
(***************************************************************************)

\* The new object and what is allocated for it.
Allocates(o, class, a) ==
    /\ phase = "request" /\ memory[a] = "free"
    /\ NewObject(o, class, a)
    /\ memory' = [memory EXCEPT ![a] = class]
    /\ UNCHANGED <<phase, pairs, lost>>

LEMMA NewObjectType ==
  ASSUME TypeOK, NEW o \in Objects, NEW class \in Classes, NEW a \in Addresses,
         NewObject(o, class, a)
  PROVE  /\ object' \in [Objects -> [class : Classes, handle : Addresses] \cup {NoObject}]
         /\ object[o] = NoObject
         /\ object'[o] = [class |-> class, handle |-> a]
         /\ \A q \in Objects : q # o => object'[q] = object[q]
         /\ Handle(o)' = a
<1>1. object[o] = NoObject /\ object' = [object EXCEPT ![o] = [class |-> class, handle |-> a]]
  BY DEF NewObject
<1>2. /\ object'[o] = [class |-> class, handle |-> a]
      /\ \A q \in Objects : q # o => object'[q] = object[q]
  BY <1>1 DEF TypeOK
<1>3. object'[o].class = class /\ object'[o].handle = a /\ object[o].class = "none"
  BY <1>1, <1>2 DEF NoObject
<1>7. object' \in [Objects -> [class : Classes, handle : Addresses] \cup {NoObject}]
  BY <1>1 DEF TypeOK
<1>8. Handle(o)' = a
  BY <1>3 DEF Handle
<1> QED
  BY <1>1, <1>2, <1>7, <1>8

LEMMA LiveThen ==
  ASSUME TypeOK, NEW o \in Objects, NEW class \in Classes, NEW a \in Addresses,
         NewObject(o, class, a), NEW k \in Classes
  PROVE  /\ k = class => Live(k)' = Live(k) \cup {o}
         /\ k # class => Live(k)' = Live(k)
<1>1. /\ object[o] = NoObject /\ object'[o] = [class |-> class, handle |-> a]
      /\ \A q \in Objects : q # o => object'[q] = object[q]
  BY NewObjectType
<1>2. object[o].class = "none" /\ object'[o].class = class
  BY <1>1 DEF NoObject
<1> QED
  BY <1>1, <1>2 DEF Live, Classes, Tracked

\* What holds whatever is allocated: the address was free, so that no handle,
\* pair, table or cache held it.
LEMMA AllocatesKeeps ==
  ASSUME IInv, NEW o \in Objects, NEW class \in Classes, NEW a \in Addresses,
         Allocates(o, class, a)
  PROVE  /\ memory' \in [Addresses -> Classes \cup {"free"}]
         /\ pairs[a] = {} /\ a \notin lost
         /\ \A q \in Objects : object[q] # NoObject => Handle(q) # a
         /\ ObjectsAlive'
         /\ PairsOfExecutors' /\ LostAreBatches'
<1>0. TypeOK /\ class # "free" /\ class # "none"
  BY DEF IInv, Classes, Tracked
<1>1. memory[a] = "free" /\ memory' = [memory EXCEPT ![a] = class]
      /\ UNCHANGED <<phase, pairs, lost>>
  BY DEF Allocates
<1>2. /\ memory'[a] = class
      /\ \A b \in Addresses : b # a => memory'[b] = memory[b]
      /\ memory' \in [Addresses -> Classes \cup {"free"}]
  BY <1>0, <1>1 DEF TypeOK
<1>3. pairs[a] = {} /\ a \notin lost
  BY <1>1 DEF IInv, PairsOfExecutors, LostAreBatches, Allocated
<1>4. \A q \in Objects : object[q] # NoObject => Handle(q) \in Addresses /\ object[q].class \in Classes
  BY <1>0 DEF TypeOK, Handle
<1>5. \A q \in Objects : object[q] # NoObject => Handle(q) # a
  BY <1>1, <1>4 DEF IInv, HandlesAlive, Classes, Tracked
<1>6. ObjectsAlive'
  <2> SUFFICES ASSUME NEW q \in Objects, object'[q] # NoObject
               PROVE  (memory[Handle(q)] = object[q].class)'
    BY DEF ObjectsAlive
  <2>1. CASE q = o
    <3>1. Handle(o)' = a /\ object'[o] = [class |-> class, handle |-> a]
      BY <1>0, NewObjectType DEF Allocates
    <3> QED
      BY <1>2, <2>1, <3>1
  <2>2. CASE q # o
    <3>1. object'[q] = object[q]
      BY <1>0, <2>2, NewObjectType DEF Allocates
    <3>2. Handle(q)' = Handle(q) /\ Handle(q) \in Addresses /\ Handle(q) # a
      BY <1>4, <1>5, <3>1 DEF Handle
    <3>3. memory[Handle(q)] = object[q].class
      BY <3>1 DEF IInv, HandlesAlive
    <3> QED
      BY <1>2, <3>1, <3>2, <3>3
  <2> QED
    BY <2>1, <2>2
<1>7. PairsOfExecutors'
  BY <1>1, <1>2, <1>3 DEF IInv, PairsOfExecutors
<1>8. LostAreBatches'
  BY <1>1, <1>2, <1>3 DEF IInv, LostAreBatches, Allocated
<1> QED
  BY <1>2, <1>3, <1>5, <1>6, <1>7, <1>8

LEMMA AllocatedThen ==
  ASSUME TypeOK, NEW o, NEW class \in Classes, NEW a \in Addresses,
         Allocates(o, class, a), NEW k \in Classes
  PROVE  /\ a \notin Allocated(k)
         /\ k = class => Allocated(k)' = Allocated(k) \cup {a}
         /\ k # class => Allocated(k)' = Allocated(k)
BY DEF Allocates, TypeOK, Allocated, Classes, Tracked

LEMMA CreateKeeps ==
  ASSUME IInv, NEW o \in Objects, NEW class \in Tracked, NEW a \in Addresses,
         Create(o, class, a)
  PROVE  IInv'
<1>0. TypeOK /\ class \in Classes /\ "connection" \notin Tracked
  BY DEF IInv, Classes, Tracked
<1>1. Allocates(o, class, a)
  BY DEF Create, Allocates
<1>2. NewObject(o, class, a)
  BY DEF Create
<1>3. /\ registry' = [registry EXCEPT ![class] = @ \cup {a}]
      /\ UNCHANGED <<phase, g_connections, pairs, sockfd, open, lost>>
      /\ phase = "request"
  BY DEF Create, socketVars
<1>4. /\ registry'[class] = registry[class] \cup {a}
      /\ \A k \in Tracked : k # class => registry'[k] = registry[k]
      /\ registry' \in [Tracked -> SUBSET Addresses]
  BY <1>0, <1>3 DEF TypeOK
<1>5. TypeOK'
  BY <1>0, <1>1, <1>2, <1>3, <1>4, NewObjectType, AllocatesKeeps DEF TypeOK
<1>6. Quiet'
  BY <1>3 DEF Quiet
<1>7. HandlesAlive'
  <2>1. PairsAlive'
    <3> SUFFICES ASSUME NEW e \in registry'["executor"],
                        NEW p \in Addresses \X Addresses, p \in pairs'[e]
                 PROVE  memory'[p[1]] = "connection"
      BY DEF PairsAlive
    <3>1. e # a /\ pairs'[e] = pairs[e]
      BY <1>0, <1>1, <1>3, AllocatesKeeps
    <3>2. e \in registry["executor"]
      BY <1>4, <3>1 DEF Tracked
    <3>3. memory[p[1]] = "connection"
      BY <1>3, <3>2 DEF IInv, HandlesAlive
    <3> QED
      BY <1>0, <3>3 DEF Create, TypeOK
  <2> QED
    BY <1>0, <1>1, <2>1, AllocatesKeeps DEF HandlesAlive, ObjectsAlive, PairsAlive
<1>8. RegistryExact'
  <2> SUFFICES ASSUME NEW k \in Tracked
               PROVE  /\ registry'[k] = {Handle(q)' : q \in Live(k)'}
                      /\ \A q, r \in Live(k)' : Handle(q)' = Handle(r)' => q = r
                      /\ registry'[k] = Allocated(k)' \ lost'
    BY DEF RegistryExact
  <2>1. /\ registry[k] = {Handle(q) : q \in Live(k)}
        /\ \A q, r \in Live(k) : Handle(q) = Handle(r) => q = r
        /\ registry[k] = Allocated(k) \ lost
    BY DEF IInv, RegistryExact
  <2>2. k \in Classes /\ k # "none"
    BY DEF Classes, Tracked
  <2>3. \A q \in Live(k) : q \in Objects /\ q # o /\ object[q] # NoObject /\ Handle(q) # a
    <3>1. \A q \in Live(k) : q \in Objects /\ object[q] # NoObject
      BY <1>0, <2>2, LiveObject
    <3>2. object[o] = NoObject /\ \A q \in Objects : object[q] # NoObject => Handle(q) # a
      BY <1>0, <1>1, <1>2, NewObjectType, AllocatesKeeps
    <3> QED
      BY <3>1, <3>2
  <2>4. \A q \in Live(k) : Handle(q)' = Handle(q)
    BY <1>0, <1>2, <2>3, NewObjectType DEF Handle
  <2>5. Handle(o)' = a
    BY <1>0, <1>2, NewObjectType
  <2>6. CASE k = class
    <3>1. Live(k)' = Live(k) \cup {o}
      BY <1>0, <1>2, <2>6, LiveThen
    <3>2. Allocated(k)' = Allocated(k) \cup {a} /\ a \notin lost
      BY <1>0, <1>1, <2>6, AllocatedThen, AllocatesKeeps
    <3>3. registry'[k] = {Handle(q)' : q \in Live(k)'}
      BY <1>4, <2>1, <2>4, <2>5, <2>6, <3>1
    <3>4. \A q, r \in Live(k)' : Handle(q)' = Handle(r)' => q = r
      BY <2>1, <2>3, <2>4, <2>5, <3>1
    <3> QED
      BY <1>3, <1>4, <2>1, <2>6, <3>2, <3>3, <3>4
  <2>7. CASE k # class
    <3>1. Live(k)' = Live(k) /\ Allocated(k)' = Allocated(k) /\ registry'[k] = registry[k]
      <4>1. Live(k)' = Live(k)
        BY <1>0, <1>2, <2>2, <2>7, LiveThen
      <4>2. Allocated(k)' = Allocated(k)
        BY <1>0, <1>1, <2>2, <2>7, AllocatedThen
      <4> QED
        BY <1>4, <2>7, <4>1, <4>2
    <3>2. registry'[k] = {Handle(q)' : q \in Live(k)'}
      BY <2>1, <2>4, <3>1
    <3> QED
      BY <1>3, <2>1, <2>4, <3>1, <3>2
  <2> QED
    BY <2>6, <2>7
<1>9. OneConnectionPerServer'
  <2>1. Cached' = Cached
    BY <1>3 DEF Cached
  <2>2. Allocated("connection")' = Allocated("connection")
    BY <1>0, <1>1, AllocatedThen DEF Classes
  <2> QED
    BY <1>3, <2>1, <2>2 DEF IInv, OneConnectionPerServer
<1> QED
  BY <1>0, <1>1, <1>5, <1>6, <1>7, <1>8, <1>9, AllocatesKeeps DEF IInv

LEMMA ConnectionNewKeeps ==
  ASSUME IInv, phase = "request", NEW o \in Objects, NEW s \in Servers,
         NEW a \in Addresses, g_connections[s] = NULL, s \notin InvalidServers,
         Connection_new(o, s, a)
  PROVE  IInv'
<1>0. TypeOK /\ "connection" \in Classes
  BY DEF IInv, Classes
<1>1. Allocates(o, "connection", a)
  BY DEF Connection_new, Allocates
<1>2. NewObject(o, "connection", a)
  BY DEF Connection_new
<1>3. /\ g_connections' = [g_connections EXCEPT ![s] = a]
      /\ sockfd' = [sockfd EXCEPT ![a] = 0]
      /\ UNCHANGED <<phase, registry, pairs, open, lost>>
  BY DEF Connection_new
<1>4. /\ g_connections'[s] = a
      /\ \A t \in Servers : t # s => g_connections'[t] = g_connections[t]
  BY <1>0, <1>3 DEF TypeOK
<1>5. a # NULL /\ a \notin Cached
  <2>1. a \notin Allocated("connection")
    BY <1>0, <1>1, AllocatedThen
  <2> QED
    BY <2>1, NullAssumption DEF IInv, OneConnectionPerServer
<1>6. TypeOK'
  BY <1>0, <1>1, <1>2, <1>3, NewObjectType, AllocatesKeeps DEF TypeOK
<1>7. Quiet'
  BY <1>3 DEF Quiet
<1>8. HandlesAlive'
  <2>1. PairsAlive'
    BY <1>0, <1>3 DEF IInv, HandlesAlive, PairsAlive, Connection_new, TypeOK
  <2> QED
    BY <1>0, <1>1, <2>1, AllocatesKeeps DEF HandlesAlive, ObjectsAlive, PairsAlive
<1>9. RegistryExact'
  <2> SUFFICES ASSUME NEW k \in Tracked
               PROVE  /\ registry'[k] = {Handle(q)' : q \in Live(k)'}
                      /\ \A q, r \in Live(k)' : Handle(q)' = Handle(r)' => q = r
                      /\ registry'[k] = Allocated(k)' \ lost'
    BY DEF RegistryExact
  <2>1. /\ registry[k] = {Handle(q) : q \in Live(k)}
        /\ \A q, r \in Live(k) : Handle(q) = Handle(r) => q = r
        /\ registry[k] = Allocated(k) \ lost
    BY DEF IInv, RegistryExact
  <2>2. k \in Classes /\ k # "none" /\ k # "connection"
    BY DEF Classes, Tracked
  <2>3. Live(k)' = Live(k)
    BY <1>0, <1>2, <2>2, LiveThen
  <2>4. Allocated(k)' = Allocated(k)
    BY <1>0, <1>1, <2>2, AllocatedThen
  <2>5. \A q \in Live(k) : q \in Objects /\ object[q] # NoObject
    BY <1>0, <2>2, LiveObject
  <2>6. object[o] = NoObject /\ \A q \in Objects : q # o => object'[q] = object[q]
    BY <1>0, <1>2, NewObjectType
  <2>7. \A q \in Live(k) : Handle(q)' = Handle(q)
    BY <2>5, <2>6 DEF Handle
  <2>8. registry'[k] = {Handle(q)' : q \in Live(k)'}
    BY <1>3, <2>1, <2>3, <2>7
  <2> QED
    BY <1>3, <2>1, <2>3, <2>4, <2>7, <2>8
<1>10. OneConnectionPerServer'
  <2>1. Allocated("connection")' = Allocated("connection") \cup {a}
    BY <1>0, <1>1, AllocatedThen
  <2>2. Cached' = Cached \cup {a}
    BY <1>4, <1>5 DEF Cached
  <2>3. \A t \in Servers : t # s => g_connections[t] # a
    BY <1>5 DEF Cached
  <2> QED
    BY <1>4, <2>1, <2>2, <2>3, ServerAssumption DEF IInv, OneConnectionPerServer
<1> QED
  BY <1>0, <1>1, <1>6, <1>7, <1>8, <1>9, <1>10, AllocatesKeeps DEF IInv

\* A handle to a connection that is there already, from get_connection.
LEMMA ConnectionAgainKeeps ==
  ASSUME IInv, phase = "request", NEW o \in Objects, NEW s \in Servers,
         g_connections[s] # NULL, NewObject(o, "connection", g_connections[s]),
         UNCHANGED <<phase, memory, registry, g_connections, pairs, socketVars, lost>>
  PROVE  IInv'
<1> DEFINE a == g_connections[s]
<1>0. TypeOK /\ "connection" \in Classes /\ a \in Addresses
  BY DEF IInv, Classes, TypeOK
<1>1. memory[a] = "connection"
  BY <1>0 DEF IInv, OneConnectionPerServer, Cached, Allocated
<1>2. /\ object' \in [Objects -> [class : Classes, handle : Addresses] \cup {NoObject}]
      /\ object[o] = NoObject
      /\ object'[o] = [class |-> "connection", handle |-> a]
      /\ \A q \in Objects : q # o => object'[q] = object[q]
      /\ Handle(o)' = a
  BY <1>0, NewObjectType
<1> HIDE DEF a
<1>3. TypeOK'
  BY <1>0, <1>2 DEF TypeOK, socketVars
<1>4. ObjectsAlive'
  <2> SUFFICES ASSUME NEW q \in Objects, object'[q] # NoObject
               PROVE  (memory[Handle(q)] = object[q].class)'
    BY DEF ObjectsAlive
  <2>1. CASE q = o
    BY <1>1, <1>2, <2>1
  <2>2. CASE q # o
    BY <1>2, <2>2 DEF IInv, HandlesAlive, Handle
  <2> QED
    BY <2>1, <2>2
<1>5. HandlesAlive'
  BY <1>4 DEF IInv, HandlesAlive, ObjectsAlive
<1>6. RegistryExact'
  <2> SUFFICES ASSUME NEW k \in Tracked
               PROVE  /\ registry'[k] = {Handle(q)' : q \in Live(k)'}
                      /\ \A q, r \in Live(k)' : Handle(q)' = Handle(r)' => q = r
                      /\ registry'[k] = Allocated(k)' \ lost'
    BY DEF RegistryExact
  <2>1. /\ registry[k] = {Handle(q) : q \in Live(k)}
        /\ \A q, r \in Live(k) : Handle(q) = Handle(r) => q = r
        /\ registry[k] = Allocated(k) \ lost
    BY DEF IInv, RegistryExact
  <2>2. k \in Classes /\ k # "none" /\ k # "connection"
    BY DEF Classes, Tracked
  <2>3. Live(k)' = Live(k)
    BY <1>0, <2>2, LiveThen DEF a
  <2>4. \A q \in Live(k) : q \in Objects /\ object[q] # NoObject
    BY <1>0, <2>2, LiveObject
  <2>5. \A q \in Live(k) : Handle(q)' = Handle(q)
    BY <1>2, <2>4 DEF Handle
  <2>6. registry'[k] = {Handle(q)' : q \in Live(k)'}
    BY <2>1, <2>3, <2>5
  <2>7. registry'[k] = Allocated(k)' \ lost'
    BY <2>1 DEF Allocated
  <2> QED
    BY <2>1, <2>3, <2>5, <2>6, <2>7
<1>7. Quiet' /\ PairsOfExecutors' /\ LostAreBatches' /\ OneConnectionPerServer'
  BY DEF IInv, Quiet, PairsOfExecutors, LostAreBatches, OneConnectionPerServer,
     Allocated, Cached
<1> QED
  BY <1>3, <1>5, <1>6, <1>7 DEF IInv

LEMMA GetConnectionKeeps ==
  ASSUME IInv, NEW o \in Objects, NEW s \in Servers, get_connection(o, s)
  PROVE  IInv'
<1>1. CASE g_connections[s] # NULL
  BY <1>1, ConnectionAgainKeeps DEF get_connection
<1>2. CASE g_connections[s] = NULL /\ s \in InvalidServers
  BY <1>2, KeptKeeps DEF get_connection, RejectAddress, Kept, IInv, TypeOK
<1>3. CASE g_connections[s] = NULL /\ s \notin InvalidServers
  BY <1>3, ConnectionNewKeeps DEF get_connection
<1> QED
  BY <1>1, <1>2, <1>3

\* Connection.set and get: a fatal error leaves the batch, which is then lost.
LEMMA OwnBatchKeeps ==
  ASSUME IInv, NEW c \in Objects, NEW a \in Addresses, WithOwnBatch(c, a)
  PROVE  IInv'
<1>1. /\ memory[a] = "free" /\ c \in Live("connection") /\ Serve({Handle(c)})
      /\ phase' \in {"request", "failed"}
      /\ UNCHANGED <<object, registry, g_connections, pairs>>
  BY DEF WithOwnBatch, Connection_execute_simple
<1>2. TypeOK /\ {Handle(c)} \in SUBSET Addresses
  BY <1>1, ConnectionObject DEF IInv
<1>3. sockfd' \in [Addresses -> Fds \cup {0}] /\ open' \subseteq Fds
  BY <1>1, <1>2, ServeType
<1>4. CASE UNCHANGED <<memory, lost>>
  BY <1>1, <1>3, <1>4, KeptKeeps DEF Kept
<1>5. CASE memory' = [memory EXCEPT ![a] = "batch"] /\ lost' = lost \cup {a}
  <2>1. /\ memory'[a] = "batch"
        /\ \A b \in Addresses : b # a => memory'[b] = memory[b]
        /\ memory' \in [Addresses -> Classes \cup {"free"}]
    BY <1>2, <1>5 DEF TypeOK, Classes, Tracked
  <2>2. TypeOK' /\ Quiet'
    BY <1>1, <1>2, <1>3, <1>5, <2>1 DEF TypeOK, Quiet
  <2>3. ObjectsAlive'
    <3> SUFFICES ASSUME NEW q \in Objects, object[q] # NoObject
                 PROVE  memory'[Handle(q)] = object[q].class
      BY <1>1 DEF ObjectsAlive, Handle
    <3>1. Handle(q) \in Addresses /\ object[q].class # "free"
          /\ memory[Handle(q)] = object[q].class
      BY <1>2 DEF TypeOK, Handle, Classes, Tracked, IInv, HandlesAlive
    <3> QED
      BY <1>1, <2>1, <3>1
  <2>4. PairsAlive'
    BY <1>1, <2>1 DEF IInv, HandlesAlive, PairsAlive
  <2>5. PairsOfExecutors' /\ LostAreBatches'
    BY <1>1, <1>5, <2>1 DEF IInv, PairsOfExecutors, LostAreBatches, Allocated
  <2>6. Allocated("connection")' = Allocated("connection")
    BY <1>1, <2>1 DEF Allocated
  <2>7. \A k \in Tracked : Allocated(k)' \ lost' = Allocated(k) \ lost
    BY <1>1, <1>5, <2>1 DEF Allocated, Tracked
  <2>8. RegistryExact'
    BY <1>1, <2>7 DEF IInv, RegistryExact, Live, Handle
  <2>9. OneConnectionPerServer'
    BY <1>1, <2>6 DEF IInv, OneConnectionPerServer, Cached
  <2> QED
    BY <2>2, <2>3, <2>4, <2>5, <2>8, <2>9
    DEF IInv, HandlesAlive, ObjectsAlive, PairsAlive
<1> QED
  BY <1>4, <1>5 DEF WithOwnBatch

-----------------------------------------------------------------------------
(***************************************************************************)
(* Steps that give memory back.                                            *)
(***************************************************************************)

LEMMA FreedType ==
  ASSUME TypeOK, NEW as, Freed(as)
  PROVE  /\ memory' \in [Addresses -> Classes \cup {"free"}]
         /\ pairs' \in [Addresses -> SUBSET (Addresses \X Addresses)]
         /\ \A a \in Addresses :
               /\ memory'[a] = (IF a \in as THEN "free" ELSE memory[a])
               /\ pairs'[a] = (IF a \in as THEN {} ELSE pairs[a])
BY DEF Freed, TypeOK

\* Whatever is freed: no pairs are left at an address that is not an executor.
LEMMA FreedPairs ==
  ASSUME IInv, NEW as, Freed(as)
  PROVE  PairsOfExecutors'
<1>1. \A a \in Addresses :
         /\ memory'[a] = (IF a \in as THEN "free" ELSE memory[a])
         /\ pairs'[a] = (IF a \in as THEN {} ELSE pairs[a])
  BY FreedType DEF IInv
<1> QED
  BY <1>1 DEF IInv, PairsOfExecutors

LEMMA RshutdownKeeps ==
  ASSUME IInv, RSHUTDOWN
  PROVE  IInv'
<1> DEFINE as == UNION {registry[class] : class \in Tracked}
<1>1. /\ Freed(as)
      /\ registry' = [class \in Tracked |-> {}]
      /\ object' = [o \in Objects |-> NoObject]
      /\ UNCHANGED <<g_connections, sockfd, open, lost>> /\ phase' = "idle"
  BY DEF RSHUTDOWN, socketVars
<1>2. \A a \in as : memory[a] \in Tracked /\ a \notin lost
  BY Registered
<1>3. \A a \in Addresses : memory[a] \in Tracked /\ a \notin lost => a \in as
  BY DEF IInv, RegistryExact, Allocated
<1> HIDE DEF as
<1>4. /\ memory' \in [Addresses -> Classes \cup {"free"}]
      /\ pairs' \in [Addresses -> SUBSET (Addresses \X Addresses)]
      /\ \A a \in Addresses : memory'[a] = (IF a \in as THEN "free" ELSE memory[a])
  BY <1>1, FreedType DEF IInv
<1>5. TypeOK'
  BY <1>1, <1>4 DEF IInv, TypeOK
<1>6. Quiet' /\ HandlesAlive'
  BY <1>1 DEF Quiet, HandlesAlive, Tracked
<1>7. LostAreBatches'
  BY <1>1, <1>2, <1>4 DEF IInv, LostAreBatches, Allocated
<1>8. \A k \in Tracked : Live(k)' = {} /\ Allocated(k)' \ lost' = {}
  <2>1. \A k \in Tracked : Live(k)' = {}
    BY <1>1 DEF Live, NoObject, Tracked
  <2>2. \A k \in Tracked : Allocated(k)' \ lost' = {}
    BY <1>1, <1>3, <1>4 DEF Allocated, Tracked
  <2> QED
    BY <2>1, <2>2
<1>9. RegistryExact'
  BY <1>1, <1>8 DEF RegistryExact
<1>10. Allocated("connection")' = Allocated("connection")
  BY <1>2, <1>4 DEF Allocated, Tracked
<1>11. OneConnectionPerServer'
  BY <1>1, <1>10 DEF IInv, OneConnectionPerServer, Cached
<1> QED
  BY <1>1, <1>5, <1>6, <1>7, <1>9, <1>11, FreedPairs DEF IInv

LEMMA MshutdownKeeps ==
  ASSUME IInv, MSHUTDOWN
  PROVE  IInv'
<1>1. /\ Freed(Cached) /\ phase = "idle" /\ phase' = "down"
      /\ open' = open \ {sockfd[a] : a \in Cached}
      /\ sockfd' = [a \in Addresses |-> IF a \in Cached THEN 0 ELSE sockfd[a]]
      /\ g_connections' = [s \in Servers |-> NULL]
      /\ UNCHANGED <<object, registry, lost>>
  BY DEF MSHUTDOWN, Cached
<1>2. \A a \in Addresses : a \in Cached <=> memory[a] = "connection"
  BY DEF IInv, OneConnectionPerServer, Allocated
<1>3. /\ memory' \in [Addresses -> Classes \cup {"free"}]
      /\ pairs' \in [Addresses -> SUBSET (Addresses \X Addresses)]
      /\ \A a \in Addresses : memory'[a] = (IF a \in Cached THEN "free" ELSE memory[a])
  BY <1>1, FreedType DEF IInv
<1>4. TypeOK'
  BY <1>1, <1>3 DEF IInv, TypeOK
<1>5. Quiet'
  BY <1>1 DEF IInv, Quiet
<1>6. HandlesAlive'
  BY <1>1 DEF IInv, Quiet, HandlesAlive, Tracked
<1>7. LostAreBatches'
  BY <1>1, <1>2, <1>3 DEF IInv, LostAreBatches, Allocated
<1>8. \A k \in Tracked : Allocated(k)' = Allocated(k)
  BY <1>2, <1>3 DEF Allocated, Tracked
<1>9. RegistryExact'
  BY <1>1, <1>8 DEF IInv, RegistryExact, Live, Handle
<1>10. Allocated("connection")' = {} /\ Cached' = {}
  BY <1>1, <1>2, <1>3 DEF Allocated, Cached
<1>11. OneConnectionPerServer'
  BY <1>1, <1>10, ServerAssumption DEF OneConnectionPerServer
<1> QED
  BY <1>1, <1>4, <1>5, <1>6, <1>7, <1>9, <1>11, FreedPairs DEF IInv

\* The destructor of a batch, a ketama or an executor: no other object has the
\* handle, so that none is left with what was freed.
LEMMA DestructTrackedKeeps ==
  ASSUME IInv, NEW class \in Tracked, NEW o \in Objects, DestructTracked(o, class),
         phase \in {"request", "ending"},
         object' = [object EXCEPT ![o] = NoObject],
         UNCHANGED <<phase, g_connections, socketVars, lost>>
  PROVE  IInv'
<1> DEFINE h == Handle(o)
<1>0. TypeOK /\ class # "none" /\ class # "free" /\ class # "connection"
  BY DEF IInv, Tracked
<1>1. /\ o \in Live(class) /\ Freed({h})
      /\ registry' = [registry EXCEPT ![class] = @ \ {h}]
  BY DEF DestructTracked
<1>2. /\ h \in registry[class] /\ memory[h] = class /\ h \notin lost
      /\ \A q \in Live(class) : Handle(q) = h => q = o
      /\ h \in Addresses
  BY <1>0, <1>1, TrackedObject, LiveObject
<1>3. /\ object'[o] = NoObject
      /\ \A q \in Objects : q # o => object'[q] = object[q]
      /\ object' \in [Objects -> [class : Classes, handle : Addresses] \cup {NoObject}]
  BY <1>0 DEF TypeOK
<1> HIDE DEF h
<1>4. /\ memory' \in [Addresses -> Classes \cup {"free"}]
      /\ pairs' \in [Addresses -> SUBSET (Addresses \X Addresses)]
      /\ memory'[h] = "free" /\ pairs'[h] = {}
      /\ \A a \in Addresses : a # h => memory'[a] = memory[a] /\ pairs'[a] = pairs[a]
  BY <1>0, <1>1, <1>2, FreedType
<1>5. /\ registry'[class] = registry[class] \ {h}
      /\ \A k \in Tracked : k # class => registry'[k] = registry[k]
      /\ registry' \in [Tracked -> SUBSET Addresses]
  BY <1>0, <1>1 DEF TypeOK
<1>6. TypeOK' /\ Quiet'
  BY <1>0, <1>3, <1>4, <1>5 DEF TypeOK, Quiet, socketVars
<1>7. ObjectsAlive'
  <2> SUFFICES ASSUME NEW q \in Objects, q # o, object[q] # NoObject
               PROVE  memory'[Handle(q)] = object[q].class
    BY <1>3 DEF ObjectsAlive, Handle
  <2>1. Handle(q) \in Addresses /\ memory[Handle(q)] = object[q].class
    BY <1>0 DEF TypeOK, Handle, IInv, HandlesAlive
  <2>2. Handle(q) # h
    BY <1>2, <2>1 DEF Live
  <2> QED
    BY <1>4, <2>1, <2>2
<1>8. PairsAlive'
  <2> SUFFICES ASSUME NEW e \in registry'["executor"],
                      NEW p \in Addresses \X Addresses, p \in pairs'[e]
               PROVE  memory'[p[1]] = "connection"
    BY DEF PairsAlive
  <2>1. e \in registry["executor"] /\ e \in Addresses
    BY <1>0, <1>5 DEF Tracked, TypeOK
  <2>2. p \in pairs[e]
    BY <1>4, <2>1
  <2>3. memory[p[1]] = "connection" /\ p[1] \in Addresses
    BY <2>1, <2>2 DEF IInv, HandlesAlive
  <2> QED
    BY <1>0, <1>2, <1>4, <2>3
<1>9. PairsOfExecutors'
  BY <1>1, FreedPairs
<1>10. LostAreBatches'
  BY <1>2, <1>4 DEF IInv, LostAreBatches, Allocated, socketVars
<1>11. RegistryExact'
  <2> SUFFICES ASSUME NEW k \in Tracked
               PROVE  /\ registry'[k] = {Handle(q)' : q \in Live(k)'}
                      /\ \A q, r \in Live(k)' : Handle(q)' = Handle(r)' => q = r
                      /\ registry'[k] = Allocated(k)' \ lost'
    BY DEF RegistryExact
  <2>1. /\ registry[k] = {Handle(q) : q \in Live(k)}
        /\ \A q, r \in Live(k) : Handle(q) = Handle(r) => q = r
        /\ registry[k] = Allocated(k) \ lost
    BY DEF IInv, RegistryExact
  <2>2. k # "none" /\ k # "free" /\ NoObject.class = "none"
    BY DEF Tracked, NoObject
  <2>3. Live(k)' = Live(k) \ {o}
    BY <1>3, <2>2 DEF Live
  <2>4. \A q \in Live(k)' : Handle(q)' = Handle(q)
    BY <1>3, <2>3 DEF Handle, Live
  <2>5. o \in Objects /\ object[o].class = class
    BY <1>1 DEF Live
  <2>6. CASE k = class
    <3>1. Allocated(k)' = Allocated(k) \ {h}
      BY <1>4, <2>2 DEF Allocated
    <3>2. registry'[k] = {Handle(q)' : q \in Live(k)'}
      <4>1. \A q \in Live(k) : Handle(q) = h <=> q = o
        BY <1>2, <2>6 DEF h
      <4> QED
        BY <1>5, <2>1, <2>3, <2>4, <2>6, <4>1
    <3> QED
      BY <1>5, <2>1, <2>3, <2>4, <2>6, <3>1, <3>2 DEF socketVars
  <2>7. CASE k # class
    <3>1. Live(k)' = Live(k)
      BY <2>3, <2>5, <2>7 DEF Live
    <3>2. Allocated(k)' = Allocated(k)
      BY <1>2, <1>4, <2>2, <2>7 DEF Allocated
    <3>3. registry'[k] = {Handle(q)' : q \in Live(k)'}
      BY <1>5, <2>1, <2>4, <2>7, <3>1
    <3> QED
      BY <1>5, <2>1, <2>4, <2>7, <3>1, <3>2, <3>3 DEF socketVars
  <2> QED
    BY <2>6, <2>7
<1>12. Allocated("connection")' = Allocated("connection")
  BY <1>0, <1>2, <1>4 DEF Allocated
<1>13. OneConnectionPerServer'
  BY <1>12 DEF IInv, OneConnectionPerServer, Cached
<1> QED
  BY <1>6, <1>7, <1>8, <1>9, <1>10, <1>11, <1>13
  DEF IInv, HandlesAlive, ObjectsAlive, PairsAlive

LEMMA ConnectionDestructKeeps ==
  ASSUME IInv, NEW o \in Objects, Connection_destruct(o),
         phase \in {"request", "ending"},
         object' = [object EXCEPT ![o] = NoObject],
         UNCHANGED <<phase, g_connections, socketVars, lost>>
  PROVE  IInv'
<1>0. TypeOK
  BY DEF IInv
<1>1. object[o].class = "connection" /\ UNCHANGED <<memory, registry, pairs>>
  BY DEF Connection_destruct, Live
<1>2. /\ object'[o] = NoObject
      /\ \A q \in Objects : q # o => object'[q] = object[q]
      /\ object' \in [Objects -> [class : Classes, handle : Addresses] \cup {NoObject}]
  BY <1>0 DEF TypeOK
<1>3. TypeOK' /\ Quiet'
  BY <1>0, <1>1, <1>2 DEF TypeOK, Quiet, socketVars
<1>4. HandlesAlive'
  BY <1>1, <1>2 DEF IInv, HandlesAlive, Handle
<1>5. \A k \in Tracked : Live(k)' = Live(k)
  <2>1. NoObject.class = "none"
    BY DEF NoObject
  <2> QED
    BY <1>1, <1>2, <2>1 DEF Live, Tracked
<1>6. \A k \in Tracked : \A q \in Live(k) : q # o
  BY <1>1 DEF Live, Tracked
<1>7. RegistryExact'
  <2> SUFFICES ASSUME NEW k \in Tracked
               PROVE  /\ registry'[k] = {Handle(q)' : q \in Live(k)'}
                      /\ \A q, r \in Live(k)' : Handle(q)' = Handle(r)' => q = r
                      /\ registry'[k] = Allocated(k)' \ lost'
    BY DEF RegistryExact
  <2>1. /\ registry[k] = {Handle(q) : q \in Live(k)}
        /\ \A q, r \in Live(k) : Handle(q) = Handle(r) => q = r
        /\ registry[k] = Allocated(k) \ lost
    BY DEF IInv, RegistryExact
  <2>2. Live(k)' = Live(k)
    BY <1>5
  <2>3. \A q \in Live(k) : Handle(q)' = Handle(q)
    BY <1>2, <1>6 DEF Handle, Live
  <2>4. registry'[k] = {Handle(q)' : q \in Live(k)'}
    BY <1>1, <2>1, <2>2, <2>3
  <2>5. registry'[k] = Allocated(k)' \ lost'
    BY <1>1, <2>1 DEF Allocated
  <2> QED
    BY <2>1, <2>2, <2>3, <2>4, <2>5
<1>8. PairsOfExecutors' /\ LostAreBatches' /\ OneConnectionPerServer'
  BY <1>1 DEF IInv, PairsOfExecutors, LostAreBatches, OneConnectionPerServer,
     Allocated, Cached
<1> QED
  BY <1>3, <1>4, <1>7, <1>8 DEF IInv

LEMMA DestructKeeps ==
  ASSUME IInv, NEW o \in Objects, __destruct(o)
  PROVE  IInv'
<1>1. /\ phase \in {"request", "ending"}
      /\ object' = [object EXCEPT ![o] = NoObject]
      /\ UNCHANGED <<phase, g_connections, socketVars, lost>>
  BY DEF __destruct
<1>2. CASE \E class \in Tracked : DestructTracked(o, class)
  BY <1>1, <1>2, DestructTrackedKeeps
<1>3. CASE Connection_destruct(o)
  BY <1>1, <1>3, ConnectionDestructKeeps
<1> QED
  BY <1>2, <1>3
  DEF __destruct, Ketama_destruct, Executor_destruct, Batch_destruct, Tracked

-----------------------------------------------------------------------------
(***************************************************************************)
(* The invariant, and what follows from it.                                *)
(***************************************************************************)

LEMMA AddKeeps ==
  ASSUME IInv, NEW e \in Objects, NEW c \in Objects, NEW b \in Objects,
         Executor_add(e, c, b)
  PROVE  IInv'
<1> DEFINE pair == <<Handle(c), Handle(b)>>
<1>0. TypeOK
  BY DEF IInv
<1>1. /\ e \in Live("executor") /\ c \in Live("connection") /\ b \in Live("batch")
      /\ pairs' = [pairs EXCEPT ![Handle(e)] = @ \cup {pair}]
      /\ UNCHANGED <<phase, memory, object, registry, g_connections, socketVars, lost>>
  BY DEF Executor_add
<1>2. /\ Handle(e) \in Addresses /\ memory[Handle(e)] = "executor"
      /\ Handle(c) \in Addresses /\ memory[Handle(c)] = "connection"
      /\ Handle(b) \in Addresses
  BY <1>0, <1>1, LiveObject, TrackedObject, ConnectionObject DEF Tracked
<1>3. pair \in Addresses \X Addresses /\ pair[1] = Handle(c)
  BY <1>2
<1> HIDE DEF pair
<1>4. /\ pairs'[Handle(e)] = pairs[Handle(e)] \cup {pair}
      /\ \A a \in Addresses : a # Handle(e) => pairs'[a] = pairs[a]
      /\ pairs' \in [Addresses -> SUBSET (Addresses \X Addresses)]
  BY <1>0, <1>1, <1>2, <1>3 DEF TypeOK
<1>5. TypeOK' /\ Quiet'
  BY <1>0, <1>1, <1>4 DEF TypeOK, IInv, Quiet, socketVars
<1>6. HandlesAlive'
  <2>1. ObjectsAlive'
    BY <1>1 DEF IInv, HandlesAlive, ObjectsAlive, Handle
  <2>2. PairsAlive'
    <3> SUFFICES ASSUME NEW x \in registry["executor"],
                        NEW p \in Addresses \X Addresses, p \in pairs'[x]
                 PROVE  memory[p[1]] = "connection"
      BY <1>1 DEF PairsAlive
    <3>1. x \in Addresses
      BY <1>0 DEF TypeOK, Tracked
    <3>2. CASE p \in pairs[x]
      BY <3>2 DEF IInv, HandlesAlive
    <3>3. CASE p = pair
      BY <1>2, <1>3, <3>3
    <3> QED
      BY <1>4, <3>1, <3>2, <3>3
  <2> QED
    BY <2>1, <2>2 DEF HandlesAlive, ObjectsAlive, PairsAlive
<1>7. PairsOfExecutors'
  BY <1>1, <1>2, <1>4 DEF IInv, PairsOfExecutors
<1>8. RegistryExact' /\ LostAreBatches' /\ OneConnectionPerServer'
  BY <1>1 DEF IInv, RegistryExact, LostAreBatches, OneConnectionPerServer,
     Allocated, Cached, Live, Handle
<1> QED
  BY <1>5, <1>6, <1>7, <1>8 DEF IInv

LEMMA InvNext == IInv /\ [Next]_vars => IInv'
<1> SUFFICES ASSUME IInv, [Next]_vars PROVE IInv'
  OBVIOUS
<1>1. CASE MINIT \/ RINIT \/ ScriptEnds \/ RSHUTDOWN \/ MSHUTDOWN
  BY <1>1, MinitKeeps, PhaseKeeps, RshutdownKeeps, MshutdownKeeps
<1>2. CASE \E o \in Objects, a \in Addresses :
              create_ketama(o, a) \/ create_executor(o, a) \/ create_batch(o, a)
  BY <1>2, CreateKeeps DEF create_ketama, create_executor, create_batch, Tracked
<1>3. CASE \E o \in Objects, s \in Servers : get_connection(o, s)
  BY <1>3, GetConnectionKeeps
<1>4. CASE \E e, c, b \in Objects : Executor_add(e, c, b)
  BY <1>4, AddKeeps
<1>5. CASE \/ \E e \in Objects : Executor_execute(e)
           \/ \E c, b \in Objects : Connection_execute(c, b) \/ Batch_execute(b, c)
  BY <1>5, ExecuteKeeps
<1>6. CASE \E c \in Objects, a \in Addresses :
              Connection_set(c, a) \/ Connection_get(c, a)
  BY <1>6, OwnBatchKeeps DEF Connection_set, Connection_get
<1>7. CASE \E o \in Objects : __destruct(o)
  BY <1>7, DestructKeeps
<1>8. CASE UNCHANGED vars
  BY <1>8 DEF vars, IInv, TypeOK, Quiet, HandlesAlive, PairsOfExecutors,
     LostAreBatches, RegistryExact, OneConnectionPerServer, Live, Handle,
     Allocated, Cached, socketVars
<1> QED
  BY <1>1, <1>2, <1>3, <1>4, <1>5, <1>6, <1>7, <1>8 DEF Next

\* The tables, the cached connections, the PHP objects and the memory agree in
\* every phase of every request.
THEOREM Invariance == Spec => []IInv
BY InvInit, InvNext, PTL DEF Spec

\* No PHP object and no executor is left with what was freed.
THEOREM HandlesStayAlive == Spec => []HandlesAlive
<1>1. IInv => HandlesAlive
  BY DEF IInv
<1> QED
  BY <1>1, Invariance, PTL

\* RSHUTDOWN frees exactly what no destructor has freed, and nothing twice.
THEOREM RegistryIsExact == Spec => []RegistryExact
<1>1. IInv => RegistryExact
  BY DEF IInv
<1> QED
  BY <1>1, Invariance, PTL

\* Servers and connections correspond, and MSHUTDOWN frees every connection.
THEOREM OneConnectionEach == Spec => []OneConnectionPerServer
<1>1. IInv => OneConnectionPerServer
  BY DEF IInv
<1> QED
  BY <1>1, Invariance, PTL

\* However a request ends, what is left of it is the connections and the batches
\* of Connection.set and get that a fatal error cut off.
THEOREM RequestsLeaveNothing == Spec => []RequestLeavesNothing
<1>1. IInv => RequestLeavesNothing
  <2> SUFFICES ASSUME IInv, phase = "idle"
               PROVE  {a \in Addresses : memory[a] # "free"} = Cached \cup lost
    BY DEF RequestLeavesNothing
  <2>1. \A a \in Addresses : memory[a] \in Tracked \cup {"connection", "free"}
    BY DEF IInv, TypeOK, Classes
  <2>2. \A a \in Addresses : memory[a] \in Tracked => a \in lost
    BY DEF IInv, Quiet, RegistryExact, Allocated
  <2>3. lost \subseteq Addresses /\ \A a \in lost : memory[a] = "batch"
    BY DEF IInv, LostAreBatches, Allocated
  <2>4. Cached = {a \in Addresses : memory[a] = "connection"}
    BY DEF IInv, OneConnectionPerServer, Allocated
  <2> QED
    BY <2>1, <2>2, <2>3, <2>4
<1> QED
  BY <1>1, Invariance, PTL

-----------------------------------------------------------------------------
(***************************************************************************)
(* The descriptors, whatever malloc returns.                               *)
(***************************************************************************)

\* No step but MSHUTDOWN frees a connection.
ConnectionsStay ==
    \A a \in Addresses : memory[a] = "connection" => memory'[a] = "connection"

LEMMA SocketsKept ==
  ASSUME OwnDescriptors, ConnectionsStay, UNCHANGED <<sockfd, open>>
  PROVE  OwnDescriptors'
BY DEF OwnDescriptors, ConnectionsStay

LEMMA RenewOwn ==
  ASSUME TypeOK, OwnDescriptors, ConnectionsStay,
         NEW connections \in SUBSET Allocated("connection"), Renew(connections)
  PROVE  OwnDescriptors'
<1> DEFINE closed == {sockfd[a] : a \in connections} \ {0}
<1>1. PICK fd \in [connections -> {0} \cup Fds] :
         /\ ({fd[a] : a \in connections} \ {0}) \cap (open \ closed) = {}
         /\ \A a, b \in connections : a # b /\ fd[a] = fd[b] => fd[a] = 0
         /\ open' = (open \ closed) \cup ({fd[a] : a \in connections} \ {0})
         /\ sockfd' = [a \in Addresses |->
                         IF a \in connections THEN fd[a] ELSE sockfd[a]]
  BY DEF Renew
<1>2. /\ {sockfd[a] : a \in Addresses} \ {0} = open
      /\ \A a, b \in Addresses : sockfd[a] = sockfd[b] => a = b \/ sockfd[a] = 0
      /\ \A a \in Addresses : sockfd[a] # 0 => memory[a] = "connection"
      /\ connections \subseteq Addresses
  BY DEF OwnDescriptors, Allocated
<1>3. /\ \A a \in connections : sockfd'[a] = fd[a]
      /\ \A a \in Addresses \ connections : sockfd'[a] = sockfd[a]
  BY <1>1, <1>2
<1>4. \A a \in Addresses \ connections : sockfd[a] # 0 => sockfd[a] \in open \ closed
  BY <1>2
<1>5. \A x \in open \ closed : \E a \in Addresses \ connections : x = sockfd[a]
  BY <1>2
<1>6. {sockfd'[a] : a \in Addresses} \ {0} = open'
  <2>1. \A a \in Addresses : sockfd'[a] # 0 => sockfd'[a] \in open'
    BY <1>1, <1>3, <1>4
  <2>2. \A x \in open' : x # 0 /\ \E a \in Addresses : x = sockfd'[a]
    <3> SUFFICES ASSUME NEW x \in open'
                 PROVE  x # 0 /\ \E a \in Addresses : x = sockfd'[a]
      OBVIOUS
    <3>1. CASE x \in open \ closed
      <4>1. PICK a \in Addresses \ connections : x = sockfd[a]
        BY <1>5, <3>1
      <4> QED
        BY <1>2, <1>3, <3>1, <4>1
    <3>2. CASE x \in {fd[a] : a \in connections} \ {0}
      BY <1>2, <1>3, <3>2
    <3> QED
      BY <1>1, <3>1, <3>2
  <2> QED
    BY <2>1, <2>2
<1>7. \A a, b \in Addresses : sockfd'[a] = sockfd'[b] => a = b \/ sockfd'[a] = 0
  <2> SUFFICES ASSUME NEW a \in Addresses, NEW b \in Addresses,
                      sockfd'[a] = sockfd'[b], sockfd'[a] # 0
               PROVE  a = b
    OBVIOUS
  <2>1. CASE a \in connections /\ b \in connections
    BY <1>1, <1>3, <2>1
  <2>2. CASE a \notin connections /\ b \notin connections
    BY <1>2, <1>3, <2>2
  <2>3. CASE a \in connections /\ b \notin connections
    BY <1>1, <1>3, <1>4, <2>3
  <2>4. CASE a \notin connections /\ b \in connections
    BY <1>1, <1>3, <1>4, <2>4
  <2> QED
    BY <2>1, <2>2, <2>3, <2>4
<1>8. \A a \in Addresses : sockfd'[a] # 0 => memory'[a] = "connection"
  BY <1>2, <1>3 DEF Allocated, ConnectionsStay
<1> QED
  BY <1>6, <1>7, <1>8 DEF OwnDescriptors

LEMMA ServeOwn ==
  ASSUME TypeOK, OwnDescriptors, ConnectionsStay,
         NEW connections \in SUBSET Allocated("connection"), Serve(connections)
  PROVE  OwnDescriptors'
<1>1. PICK renewed \in SUBSET connections : Renew(renewed)
  BY DEF Serve
<1>2. renewed \in SUBSET Allocated("connection")
  OBVIOUS
<1> QED
  BY <1>1, <1>2, RenewOwn

LEMMA MshutdownOwn ==
  ASSUME IInv, OwnDescriptors, MSHUTDOWN
  PROVE  OwnDescriptors'
<1>1. /\ open' = open \ {sockfd[a] : a \in Cached}
      /\ sockfd' = [a \in Addresses |-> IF a \in Cached THEN 0 ELSE sockfd[a]]
  BY DEF MSHUTDOWN, Cached
<1>2. \A a \in Addresses : a \in Cached <=> memory[a] = "connection"
  BY DEF IInv, OneConnectionPerServer, Allocated
<1>3. \A a \in Addresses : sockfd'[a] = 0
  BY <1>1, <1>2 DEF OwnDescriptors
<1>4. open' = {}
  BY <1>1, <1>2 DEF OwnDescriptors
<1> QED
  BY <1>3, <1>4 DEF OwnDescriptors

\* Connection_new gets an address that it refuses.
Rejection == \E o \in Objects, s \in InvalidServers : get_connection(o, s)

LEMMA OwnNext ==
  ASSUME IInv, OwnDescriptors, [Next]_vars
  PROVE  OwnDescriptors' \/ Rejection
<1>0. TypeOK
  BY DEF IInv
<1>1. CASE MINIT \/ RINIT \/ ScriptEnds \/ UNCHANGED vars
           \/ \E e, c, b \in Objects : Executor_add(e, c, b)
  BY <1>1, SocketsKept
  DEF MINIT, RINIT, ScriptEnds, Executor_add, vars, socketVars, ConnectionsStay
<1>2. CASE RSHUTDOWN
  <2>1. Freed(UNION {registry[class] : class \in Tracked})
        /\ UNCHANGED <<sockfd, open>>
    BY <1>2 DEF RSHUTDOWN, socketVars
  <2>2. \A a \in UNION {registry[class] : class \in Tracked} : memory[a] # "connection"
    BY Registered DEF Tracked
  <2>3. ConnectionsStay
    BY <2>1, <2>2 DEF Freed, ConnectionsStay
  <2> QED
    BY <2>1, <2>3, SocketsKept
<1>3. CASE MSHUTDOWN
  BY <1>3, MshutdownOwn
<1>4. CASE \E o \in Objects, a \in Addresses :
              create_ketama(o, a) \/ create_executor(o, a) \/ create_batch(o, a)
  <2>1. PICK class \in Tracked, a \in Addresses, o \in Objects : Create(o, class, a)
    BY <1>4 DEF create_ketama, create_executor, create_batch, Tracked
  <2>2. ConnectionsStay /\ UNCHANGED <<sockfd, open>>
    BY <1>0, <2>1 DEF Create, ConnectionsStay, socketVars, TypeOK
  <2> QED
    BY <2>2, SocketsKept
<1>5. ASSUME NEW o \in Objects, NEW s \in Servers, get_connection(o, s)
      PROVE  OwnDescriptors' \/ Rejection
  <2>1. CASE UNCHANGED <<memory, sockfd, open>>
    BY <2>1, SocketsKept DEF ConnectionsStay
  <2>2. CASE s \in InvalidServers
    BY <1>5, <2>2 DEF Rejection
  <2>3. ASSUME NEW a \in Addresses, Connection_new(o, s, a)
        PROVE  OwnDescriptors'
    <3>1. /\ memory[a] = "free" /\ memory' = [memory EXCEPT ![a] = "connection"]
          /\ sockfd' = [sockfd EXCEPT ![a] = 0] /\ open' = open
      BY <2>3 DEF Connection_new
    <3>2. sockfd[a] = 0
      BY <3>1 DEF OwnDescriptors
    <3>3. sockfd' = sockfd
      BY <1>0, <3>1, <3>2 DEF TypeOK
    <3>4. ConnectionsStay
      BY <1>0, <3>1 DEF ConnectionsStay, TypeOK
    <3> QED
      BY <3>1, <3>3, <3>4, SocketsKept
  <2> QED
    BY <1>5, <2>1, <2>2, <2>3 DEF get_connection, socketVars
<1>6. ASSUME NEW e \in Objects, Executor_execute(e)
      PROVE  OwnDescriptors'
  <2>1. {p[1] : p \in pairs[Handle(e)]} \in SUBSET Allocated("connection")
    BY <1>6, ExecutorConnections DEF Executor_execute
  <2>2. ConnectionsStay
    BY <1>6 DEF Executor_execute, ConnectionsStay
  <2> QED
    BY <1>0, <1>6, <2>1, <2>2, ServeOwn DEF Executor_execute
<1>7. ASSUME NEW c \in Objects, Connection_execute_simple(c), ConnectionsStay
      PROVE  OwnDescriptors'
  <2>1. {Handle(c)} \in SUBSET Allocated("connection")
    BY <1>7, ConnectionObject DEF Connection_execute_simple, Allocated
  <2> QED
    BY <1>0, <1>7, <2>1, ServeOwn DEF Connection_execute_simple
<1>8. CASE \E c, b \in Objects : Connection_execute(c, b) \/ Batch_execute(b, c)
  BY <1>7, <1>8 DEF Connection_execute, Batch_execute, ConnectionsStay
<1>9. ASSUME NEW c \in Objects, NEW a \in Addresses, WithOwnBatch(c, a)
      PROVE  OwnDescriptors'
  <2>1. ConnectionsStay
    BY <1>0, <1>9 DEF WithOwnBatch, ConnectionsStay, TypeOK
  <2> QED
    BY <1>7, <1>9, <2>1 DEF WithOwnBatch
<1>10. ASSUME NEW o \in Objects, __destruct(o)
       PROVE  OwnDescriptors'
  <2>1. UNCHANGED <<sockfd, open>>
    BY <1>10 DEF __destruct, socketVars
  <2>2. ASSUME NEW class \in Tracked, DestructTracked(o, class)
        PROVE  ConnectionsStay
    <3>1. memory[Handle(o)] # "connection" /\ Freed({Handle(o)})
      BY <2>2, TrackedObject DEF DestructTracked, Tracked
    <3> QED
      BY <3>1 DEF Freed, ConnectionsStay
  <2>3. CASE Connection_destruct(o)
    BY <2>1, <2>3, SocketsKept DEF Connection_destruct, ConnectionsStay
  <2> QED
    BY <1>10, <2>1, <2>2, <2>3, SocketsKept
    DEF __destruct, Ketama_destruct, Executor_destruct, Batch_destruct, Tracked
<1> QED
  BY <1>1, <1>2, <1>3, <1>4, <1>5, <1>6, <1>8, <1>9, <1>10
  DEF Next, Connection_set, Connection_get

\* Connections close their own descriptors and leak none, until Connection_new
\* refuses an address in memory that malloc did not clear: the one step that
\* breaks the ownership of descriptors.
THEOREM DescriptorsStayOwned == Spec => OnlyRejectionDisowns
<1>1. IInv /\ [Next]_vars =>
         [OwnDescriptors => OwnDescriptors' \/ Rejection]_vars
  BY OwnNext
<1>2. IInv /\ [Next]_vars =>
         [OwnDescriptors =>
             \/ OwnDescriptors'
             \/ \E o \in Objects, s \in InvalidServers : get_connection(o, s)]_vars
  BY <1>1 DEF Rejection
<1> QED
  BY <1>2, Invariance, PTL DEF Spec, OnlyRejectionDisowns

-----------------------------------------------------------------------------
(***************************************************************************)
(* Nor does a rejection leave a descriptor open that no connection holds.  *)
(***************************************************************************)

LEMMA HeldIsKept ==
  ASSUME NoDescriptorLeaks, open' \subseteq open, Cached \subseteq Cached',
         \A a \in Cached : sockfd'[a] = sockfd[a]
  PROVE  NoDescriptorLeaks'
<1> SUFFICES ASSUME NEW fd \in open'
             PROVE  \E a \in Cached' : sockfd'[a] = fd
  BY DEF NoDescriptorLeaks
<1>1. PICK a \in Cached : sockfd[a] = fd
  BY DEF NoDescriptorLeaks
<1> QED
  BY <1>1

LEMMA ServeHolds ==
  ASSUME TypeOK, NoDescriptorLeaks, UNCHANGED g_connections,
         NEW connections \in SUBSET Cached, Serve(connections)
  PROVE  NoDescriptorLeaks'
<1>1. PICK renewed \in SUBSET connections : Renew(renewed)
  BY DEF Serve
<1> DEFINE closed == {sockfd[a] : a \in renewed} \ {0}
<1>2. PICK fd \in [renewed -> {0} \cup Fds] :
         /\ open' = (open \ closed) \cup ({fd[a] : a \in renewed} \ {0})
         /\ sockfd' = [a \in Addresses |->
                         IF a \in renewed THEN fd[a] ELSE sockfd[a]]
  BY <1>1 DEF Renew
<1>3. Cached' = Cached /\ Cached \subseteq Addresses /\ 0 \notin open
  BY FdAssumption DEF Cached, TypeOK
<1> SUFFICES ASSUME NEW x \in open'
             PROVE  \E a \in Cached : sockfd'[a] = x
  BY <1>3 DEF NoDescriptorLeaks
<1>4. CASE x \in {fd[a] : a \in renewed} \ {0}
  <2>1. PICK a \in renewed : fd[a] = x
    BY <1>4
  <2>2. a \in Cached /\ a \in Addresses
    BY <1>3
  <2> QED
    BY <1>2, <2>1, <2>2
<1>5. CASE x \in open \ closed
  <2>1. PICK a \in Cached : sockfd[a] = x
    BY <1>5 DEF NoDescriptorLeaks
  <2>2. a \notin renewed
    BY <1>3, <1>5, <2>1
  <2> QED
    BY <1>2, <1>3, <2>1, <2>2
<1> QED
  BY <1>2, <1>4, <1>5

LEMMA LeaksNext ==
  ASSUME IInv, NoDescriptorLeaks, [Next]_vars
  PROVE  NoDescriptorLeaks'
<1>0. /\ TypeOK
      /\ Cached = Allocated("connection")
  BY DEF IInv, OneConnectionPerServer
<1>1. CASE UNCHANGED <<g_connections, sockfd, open>>
  BY <1>1, HeldIsKept DEF Cached
<1>2. CASE MINIT
  <2>1. Cached = {}
    BY <1>2 DEF MINIT, IInv, Quiet, Cached
  <2> QED
    BY <1>2, <2>1, HeldIsKept DEF MINIT, socketVars
<1>3. CASE MSHUTDOWN
  <2>1. open' = {}
    BY <1>3 DEF MSHUTDOWN, Cached, NoDescriptorLeaks
  <2> QED
    BY <2>1 DEF NoDescriptorLeaks
<1>4. ASSUME NEW o \in Objects, NEW s \in Servers, get_connection(o, s)
      PROVE  NoDescriptorLeaks'
  <2>1. CASE RejectAddress
    BY <2>1, HeldIsKept DEF RejectAddress, Cached
  <2>2. ASSUME NEW a \in Addresses, g_connections[s] = NULL, Connection_new(o, s, a)
        PROVE  NoDescriptorLeaks'
    <3>1. /\ memory[a] = "free" /\ open' = open
          /\ sockfd' = [sockfd EXCEPT ![a] = 0]
          /\ g_connections' = [g_connections EXCEPT ![s] = a]
      BY <2>2 DEF Connection_new
    <3>2. a \notin Cached
      BY <1>0, <3>1 DEF Allocated
    <3>3. Cached \subseteq Cached'
      BY <1>0, <2>2, <3>1 DEF Cached, TypeOK
    <3>4. \A c \in Cached : sockfd'[c] = sockfd[c]
      BY <1>0, <3>1, <3>2 DEF Allocated, TypeOK
    <3> QED
      BY <3>1, <3>3, <3>4, HeldIsKept
  <2> QED
    BY <1>1, <1>4, <2>1, <2>2 DEF get_connection, socketVars
<1>5. ASSUME NEW e \in Objects, Executor_execute(e)
      PROVE  NoDescriptorLeaks'
  <2>1. {p[1] : p \in pairs[Handle(e)]} \in SUBSET Cached
    BY <1>0, <1>5, ExecutorConnections DEF Executor_execute
  <2> QED
    BY <1>0, <1>5, <2>1, ServeHolds DEF Executor_execute
<1>6. ASSUME NEW c \in Objects, Connection_execute_simple(c), UNCHANGED g_connections
      PROVE  NoDescriptorLeaks'
  <2>1. {Handle(c)} \in SUBSET Cached
    BY <1>6, ConnectionObject DEF Connection_execute_simple
  <2> QED
    BY <1>0, <1>6, <2>1, ServeHolds DEF Connection_execute_simple
<1>7. CASE \E c, b \in Objects : Connection_execute(c, b) \/ Batch_execute(b, c)
  BY <1>6, <1>7 DEF Connection_execute, Batch_execute
<1>8. CASE \E c \in Objects, a \in Addresses : WithOwnBatch(c, a)
  BY <1>6, <1>8 DEF WithOwnBatch
<1>9. CASE \/ RINIT \/ ScriptEnds \/ RSHUTDOWN \/ UNCHANGED vars
           \/ \E o \in Objects : __destruct(o)
           \/ \E e, c, b \in Objects : Executor_add(e, c, b)
           \/ \E o \in Objects, a \in Addresses :
                 create_ketama(o, a) \/ create_executor(o, a) \/ create_batch(o, a)
  BY <1>1, <1>9
  DEF RINIT, ScriptEnds, RSHUTDOWN, __destruct, Executor_add, create_ketama,
      create_executor, create_batch, Create, vars, socketVars
<1> QED
  BY <1>2, <1>3, <1>4, <1>5, <1>7, <1>8, <1>9
  DEF Next, Connection_set, Connection_get

\* Every open descriptor is held by a connection that the module still knows and
\* will free, whatever Connection_new closed and malloc returned.
THEOREM DescriptorsNeverLeak == Spec => []NoDescriptorLeaks
<1>1. Init => NoDescriptorLeaks
  BY DEF Init, NoDescriptorLeaks
<1>2. IInv /\ NoDescriptorLeaks /\ [Next]_vars => NoDescriptorLeaks'
  BY LeaksNext
<1> QED
  BY <1>1, <1>2, Invariance, PTL DEF Spec
=============================================================================
