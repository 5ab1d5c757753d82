------------------------ MODULE ExecutorHandlerProofs ------------------------
(***************************************************************************)
(* First the types of Executor, for every application: no theorem of that  *)
(* part assumes anything of Liberties.  Then Connection_write_data and     *)
(* Connection_read_data keep the invariant ExecutionInv: what a handler does to    *)
(* its own pair, and that it leaves the others alone.                      *)
(***************************************************************************)
EXTENDS ExecutorInvariant, FiniteSetTheorems, TLAPS

-----------------------------------------------------------------------------
(***************************************************************************)
(* Types and control.                                                      *)
(***************************************************************************)
LEMMA EventsCardinality ==
  ASSUME NEW E \in SUBSET Events
  PROVE  /\ IsFiniteSet(E)
         /\ Cardinality(E) = (IF "READ" \in E THEN 1 ELSE 0)
                             + (IF "WRITE" \in E THEN 1 ELSE 0)
<1>1. IsFiniteSet({"READ"}) /\ Cardinality({"READ"}) = 1
  BY FS_Singleton
<1>2. IsFiniteSet({"WRITE"}) /\ Cardinality({"WRITE"}) = 1
  BY FS_Singleton
<1>3. IsFiniteSet({"READ"} \cup {"WRITE"}) /\ Cardinality({"READ"} \cup {"WRITE"}) = 2
  BY <1>1, FS_AddElement
<1>4. \/ E = {} \/ E = {"READ"} \/ E = {"WRITE"} \/ E = {"READ"} \cup {"WRITE"}
  BY DEF Events
<1> QED
  BY <1>1, <1>2, <1>3, <1>4, FS_EmptySet

Ctl == TypeOK /\ ControlOK

LEMMA NoPollFdType == NoPollFd \in PollFd
BY DEF NoPollFd, PollFd, Events

LEMMA TypeInit == Init => Ctl
<1> SUFFICES ASSUME Init PROVE Ctl
  OBVIOUS
<1>1. ConnectionTypeOK
  BY DEF Init, ConnectionTypeOK, States
<1>2. BatchTypeOK
  BY BoundsAssumption DEF Init, BatchTypeOK
<1>3. ExecutorTypeOK
  <2>1. executed \in BOOLEAN
    BY DEF Init
  <2> QED
    BY <2>1, BoundsAssumption, NoPollFdType DEF Init, ExecutorTypeOK
<1>4. ControlTypeOK /\ ControlOK
  BY BoundsAssumption DEF Init, ControlTypeOK, ControlOK
<1> QED
  BY <1>1, <1>2, <1>3, <1>4 DEF Ctl, TypeOK

\* What a handler leaves alone keeps its type.
LEMMA TypeFrame ==
  /\ ConnectionTypeOK /\ UNCHANGED connectionVars => ConnectionTypeOK'
  /\ BatchTypeOK /\ UNCHANGED batchVars => BatchTypeOK'
  /\ ExecutorTypeOK /\ UNCHANGED executorVars => ExecutorTypeOK'
  /\ ControlTypeOK /\ UNCHANGED controlVars => ControlTypeOK'
  /\ ControlOK /\ pairs' = pairs /\ UNCHANGED controlVars => ControlOK'
<1>1. ConnectionTypeOK /\ UNCHANGED connectionVars => ConnectionTypeOK'
  BY DEF ConnectionTypeOK, connectionVars
<1>2. BatchTypeOK /\ UNCHANGED batchVars => BatchTypeOK'
  BY DEF BatchTypeOK, batchVars
<1>3. ExecutorTypeOK /\ UNCHANGED executorVars => ExecutorTypeOK'
  BY DEF ExecutorTypeOK, executorVars
<1>4. ControlTypeOK /\ UNCHANGED controlVars => ControlTypeOK'
  BY DEF ControlTypeOK, controlVars
<1>5. ControlOK /\ pairs' = pairs /\ UNCHANGED controlVars => ControlOK'
  BY DEF ControlOK, controlVars, numpairs
<1> QED
  BY <1>1, <1>2, <1>3, <1>4, <1>5

LEMMA TypeApplication == Ctl /\ Application => Ctl'
<1> SUFFICES ASSUME Ctl, Application PROVE Ctl'
  OBVIOUS
<1> USE DEF Ctl, TypeOK
<1>1. ASSUME NEW b \in Batches, Batch_write(b) PROVE Ctl'
  <2>1. BatchTypeOK'
    BY <1>1 DEF Batch_write, BatchTypeOK
  <2> QED
    BY <1>1, <2>1, TypeFrame DEF Batch_write, executorVars
<1>2. ASSUME NEW b \in Batches, Batch_renew(b) PROVE Ctl'
  <2>1. BatchTypeOK'
    BY <1>2, BoundsAssumption DEF Batch_renew, BatchTypeOK
  <2> QED
    BY <1>2, <2>1, TypeFrame DEF Batch_renew, executorVars
<1>3. ASSUME NEW c \in Connections, Connection_renew(c) PROVE Ctl'
  <2>1. ConnectionTypeOK'
    BY <1>3 DEF Connection_renew, ConnectionTypeOK, States
  <2> QED
    BY <1>3, <2>1, TypeFrame DEF Connection_renew, executorVars
<1>4. CASE Executor_new
  <2>1. ExecutorTypeOK'
    <3>1. executed' \in BOOLEAN
      BY <1>4 DEF Executor_new
    <3> QED
      BY <1>4, <3>1, BoundsAssumption, NoPollFdType
      DEF Executor_new, ExecutorTypeOK
  <2>2. ControlOK'
    BY <1>4 DEF Executor_new, controlVars, ControlOK
  <2> QED
    BY <1>4, <2>1, <2>2, TypeFrame DEF Executor_new
<1>5. ASSUME NEW c \in Connections, NEW b \in Batches, Executor_add(c, b)
      PROVE Ctl'
  <2>1. ExecutorTypeOK'
    BY <1>5, BoundsAssumption, NoPollFdType
    DEF Executor_add, ExecutorTypeOK, Pair, numpairs
  <2>2. ControlOK'
    BY <1>5 DEF Executor_add, controlVars, ControlOK
  <2> QED
    BY <1>5, <2>1, <2>2, TypeFrame DEF Executor_add
<1>6. ASSUME NEW timeout_ms \in 0..MaxTimeout, Executor_execute(timeout_ms)
      PROVE Ctl'
  <2>1. ExecutorTypeOK'
    BY <1>6, BoundsAssumption DEF Executor_execute, ExecutorTypeOK
  <2>2. ControlTypeOK' /\ ControlOK'
    BY <1>6, BoundsAssumption
    DEF Executor_execute, ControlTypeOK, ControlOK, ExecutorTypeOK, numpairs
  <2> QED
    BY <1>6, <2>1, <2>2, TypeFrame DEF Executor_execute
<1> QED
  BY <1>1, <1>2, <1>3, <1>4, <1>5, <1>6 DEF Application

-----------------------------------------------------------------------------
(***************************************************************************)
(* The pieces of the handlers keep the types.                              *)
(***************************************************************************)

\* Updating a function keeps its type, also outside of its domain.
LEMMA UpdateType ==
  ASSUME NEW D, NEW S, NEW f \in [D -> S], NEW d, NEW v, d \in D => v \in S
  PROVE  [f EXCEPT ![d] = v] \in [D -> S]
OBVIOUS

LEMMA HandledType == Ctl /\ pc \in {"write", "started", "read"} =>
  /\ ordinal \in 1..numpairs /\ ordinal \in 1..MaxPairs
  /\ Handled \in Connections
  /\ sockfd[Handled] \in Fds \cup {0, -1}
<1> SUFFICES ASSUME Ctl, pc \in {"write", "started", "read"}
             PROVE  /\ ordinal \in 1..numpairs /\ ordinal \in 1..MaxPairs
                    /\ Handled \in Connections
                    /\ sockfd[Handled] \in Fds \cup {0, -1}
  OBVIOUS
<1>1. ordinal \in 1..numpairs /\ ordinal \in 1..MaxPairs
  BY BoundsAssumption
  DEF Ctl, TypeOK, ExecutorTypeOK, ControlTypeOK, ControlOK, numpairs
<1>2. pairs[ordinal] \in Pair
  BY <1>1 DEF Ctl, TypeOK, ExecutorTypeOK, numpairs
<1>3. Handled \in Connections
  BY <1>2 DEF Handled, Pair
<1> QED
  BY <1>1, <1>3 DEF Ctl, TypeOK, ConnectionTypeOK

LEMMA NotifyType ==
  ASSUME ExecutorTypeOK, ordinal \in 1..MaxPairs, NEW e \in Events,
         NEW fd \in Fds \cup {0, -1}, Executor_notify_event(e, fd),
         UNCHANGED <<pairs, executed, left>>
  PROVE  ExecutorTypeOK'
BY DEF ExecutorTypeOK, Executor_notify_event, PollFd, Events

LEMMA AbortType ==
  ASSUME ConnectionTypeOK, BatchTypeOK, NEW c \in Connections,
         NEW fd \in Fds \cup {0, -1}, Connection_abort(c, fd)
  PROVE  ConnectionTypeOK' /\ BatchTypeOK'
<1>1. ConnectionTypeOK'
  BY DEF ConnectionTypeOK, Connection_abort, States
<1>2. BatchTypeOK'
  BY UpdateType DEF BatchTypeOK, Connection_abort, Batch_abort
<1> QED
  BY <1>1, <1>2

LEMMA NextPairType ==
  ASSUME Ctl, NEW phase \in {"start", "dispatch"}, pc # "idle",
         ordinal <= numpairs, NextPair(phase), pairs' = pairs
  PROVE  ControlTypeOK' /\ ControlOK'
BY BoundsAssumption
DEF Ctl, TypeOK, ExecutorTypeOK, ControlTypeOK, ControlOK, NextPair, numpairs

LEMMA WriteReturnsType ==
  ASSUME Ctl, pc = "write", WriteReturns, pairs' = pairs
  PROVE  ControlTypeOK' /\ ControlOK'
<1>1. CASE NextPair("dispatch")
  BY <1>1, NextPairType DEF Ctl, ControlOK
<1>2. CASE ~NextPair("dispatch")
  BY <1>2 DEF Ctl, TypeOK, ControlTypeOK, ControlOK, WriteReturns, numpairs
<1> QED
  BY <1>1, <1>2

LEMMA TypeWrite == Ctl /\ Write => Ctl'
<1> SUFFICES ASSUME Ctl, Write PROVE Ctl'
  OBVIOUS
<1> USE DEF Ctl, TypeOK
<1>0. pc = "write"
  BY DEF Write, ConnectFails, ConnectInProgress, ConnectImmediate,
         ConnectRefused, ConnectCompleted, Send, SendAgain, SendFails, AllSent
<1> DEFINE c == Handled
<1>h. /\ ordinal \in 1..MaxPairs
      /\ c \in Connections
      /\ sockfd[c] \in Fds \cup {0, -1}
  BY <1>0, HandledType
<1> HIDE DEF c
<1>1. CASE ConnectFails
  BY <1>0, <1>1, <1>h, AbortType, WriteReturnsType, TypeFrame
  DEF ConnectFails, c, executorVars
<1>2. ASSUME NEW fd \in Fds, ConnectInProgress(fd) PROVE Ctl'
  <2>1. ConnectionTypeOK'
    BY <1>2, <1>h DEF ConnectInProgress, ConnectionTypeOK, States, c
  <2>2. ExecutorTypeOK'
    BY <1>2, <1>h, NotifyType DEF ConnectInProgress, Events
  <2> QED
    BY <1>0, <1>2, <2>1, <2>2, WriteReturnsType, TypeFrame DEF ConnectInProgress
<1>3. ASSUME NEW fd \in Fds, ConnectImmediate(fd) PROVE Ctl'
  <2>1. ConnectionTypeOK'
    BY <1>3, <1>h DEF ConnectImmediate, ConnectionTypeOK, States, c
  <2> QED
    BY <1>3, <2>1, TypeFrame DEF ConnectImmediate, executorVars
<1>4. CASE ConnectRefused
  BY <1>0, <1>4, <1>h, AbortType, WriteReturnsType, TypeFrame
  DEF ConnectRefused, c, executorVars
<1>5. CASE ConnectCompleted
  <2>1. ConnectionTypeOK'
    BY <1>5, <1>h DEF ConnectCompleted, ConnectionTypeOK, States, c
  <2>2. ExecutorTypeOK'
    BY <1>5, <1>h, NotifyType DEF ConnectCompleted, Events, c
  <2> QED
    BY <1>5, <2>1, <2>2, TypeFrame DEF ConnectCompleted
<1>6. ASSUME NEW k \in 1..MaxCommands, Send(k) PROVE Ctl'
  <2>1. ConnectionTypeOK'
    BY <1>6, <1>h, BoundsAssumption DEF Send, ConnectionTypeOK, c
  <2>2. BatchTypeOK'
    BY <1>6, UpdateType, BoundsAssumption DEF Send, BatchTypeOK
  <2> QED
    BY <1>6, <2>1, <2>2, TypeFrame DEF Send, executorVars
<1>7. CASE SendAgain
  <2>1. ExecutorTypeOK'
    BY <1>7, <1>h, NotifyType DEF SendAgain, Events, c
  <2> QED
    BY <1>0, <1>7, <2>1, WriteReturnsType, TypeFrame DEF SendAgain
<1>8. CASE SendFails
  BY <1>0, <1>8, <1>h, AbortType, WriteReturnsType, TypeFrame
  DEF SendFails, c, executorVars
<1>9. CASE AllSent
  BY <1>0, <1>9, WriteReturnsType, TypeFrame DEF AllSent, executorVars
<1> QED
  BY <1>1, <1>2, <1>3, <1>4, <1>5, <1>6, <1>7, <1>8, <1>9 DEF Write

LEMMA TypeRead == Ctl /\ Read => Ctl'
<1> SUFFICES ASSUME Ctl, Read PROVE Ctl'
  OBVIOUS
<1> USE DEF Ctl, TypeOK
<1>0. pc = "read"
  BY DEF Read, ReadAborted, AllAnswered, AddReply, Recv, RecvAgain, ReadFails,
         Reading
<1> DEFINE c == Handled
<1>h. /\ ordinal \in 1..MaxPairs /\ ordinal <= numpairs
      /\ c \in Connections
      /\ sockfd[c] \in Fds \cup {0, -1}
  BY <1>0, HandledType DEF ExecutorTypeOK, numpairs
<1> HIDE DEF c
<1>1. CASE ReadAborted
  BY <1>0, <1>1, <1>h, NextPairType, TypeFrame DEF ReadAborted, executorVars
<1>2. CASE AllAnswered
  BY <1>0, <1>2, <1>h, NextPairType, TypeFrame DEF AllAnswered, executorVars
<1>3. CASE AddReply
  <2>1. ConnectionTypeOK'
    BY <1>3, <1>h DEF AddReply, ConnectionTypeOK, c
  <2>2. BatchTypeOK'
    BY <1>3, UpdateType DEF AddReply, Reading, Batch_has_command, BatchTypeOK
  <2> QED
    BY <1>3, <2>1, <2>2, TypeFrame DEF AddReply, executorVars
<1>4. ASSUME NEW k \in 1..MaxCommands, Recv(k) PROVE Ctl'
  <2>1. ConnectionTypeOK'
    BY <1>4, <1>h, BoundsAssumption DEF Recv, ConnectionTypeOK, c
  <2>2. BatchTypeOK'
    BY <1>4, UpdateType, BoundsAssumption DEF Recv, BatchTypeOK
  <2> QED
    BY <1>4, <2>1, <2>2, TypeFrame DEF Recv, executorVars
<1>5. CASE RecvAgain
  <2>1. ExecutorTypeOK'
    BY <1>5, <1>h, NotifyType DEF RecvAgain, Events, c
  <2> QED
    BY <1>0, <1>5, <1>h, <2>1, NextPairType, TypeFrame DEF RecvAgain
<1>6. CASE ReadFails
  BY <1>0, <1>6, <1>h, AbortType, NextPairType, TypeFrame
  DEF ReadFails, c, executorVars
<1> QED
  BY <1>1, <1>2, <1>3, <1>4, <1>5, <1>6 DEF Read

LEMMA TypeStart == Ctl /\ (ExecuteStart \/ KickOffReading \/ AllStarted) => Ctl'
<1> SUFFICES ASSUME Ctl, ExecuteStart \/ KickOffReading \/ AllStarted
             PROVE  Ctl'
  OBVIOUS
<1> USE DEF Ctl, TypeOK
<1>1. CASE ExecuteStart
  <2>1. ordinal \in 1..numpairs
    BY <1>1 DEF ExecuteStart, ControlTypeOK, ExecutorTypeOK, numpairs
  <2>2. pairs[ordinal] \in Pair
    BY <2>1 DEF ExecutorTypeOK, numpairs
  <2>3. pairs[ordinal].connection \in Connections /\ pairs[ordinal].batch \in Batches
    BY <2>2 DEF Pair
  <2>4. ConnectionTypeOK'
    BY <1>1, <2>3 DEF ExecuteStart, ConnectionTypeOK, States, Handled
  <2>5. BatchTypeOK'
    BY <1>1, <2>3 DEF ExecuteStart, BatchTypeOK
  <2>6. ControlTypeOK' /\ ControlOK'
    BY <1>1, <2>1 DEF ExecuteStart, ControlTypeOK, ControlOK, executorVars, numpairs
  <2> QED
    BY <1>1, <2>4, <2>5, <2>6, TypeFrame DEF ExecuteStart
<1>2. CASE KickOffReading
  <2>1. ExecutorTypeOK'
    <3>1. CASE Executor_notify_event("READ", sockfd[Handled])
      BY <1>2, <3>1, HandledType, NotifyType DEF KickOffReading, Events
    <3>2. CASE UNCHANGED <<fds, numevents>>
      BY <1>2, <3>2 DEF KickOffReading, ExecutorTypeOK
    <3> QED
      BY <1>2, <3>1, <3>2 DEF KickOffReading
  <2> QED
    BY <1>2, <2>1, NextPairType, TypeFrame DEF KickOffReading, ControlOK
<1>3. CASE AllStarted
  <2>1. ControlTypeOK' /\ ControlOK'
    BY <1>3 DEF AllStarted, ControlTypeOK, ControlOK
  <2> QED
    BY <1>3, <2>1, TypeFrame DEF AllStarted
<1> QED
  BY <1>1, <1>2, <1>3

LEMMA TypeLoop ==
  Ctl /\ (ExecuteReturns \/ ForceTimeout \/ CallPoll \/ PollTimeout \/ Wake \/ Tick)
    => Ctl'
<1> SUFFICES ASSUME Ctl, \/ ExecuteReturns \/ ForceTimeout \/ CallPoll
                         \/ PollTimeout \/ Wake \/ Tick
             PROVE  Ctl'
  OBVIOUS
<1> USE DEF Ctl, TypeOK
<1>1. CASE ExecuteReturns
  <2>1. ExecutorTypeOK'
    BY <1>1, BoundsAssumption DEF ExecuteReturns, ExecutorTypeOK
  <2>2. ControlTypeOK' /\ ControlOK'
    BY <1>1, BoundsAssumption DEF ExecuteReturns, ControlTypeOK, ControlOK
  <2> QED
    BY <1>1, <2>1, <2>2, TypeFrame DEF ExecuteReturns
<1>2. CASE ForceTimeout \/ PollTimeout \/ PollError
  <2>1. ControlTypeOK' /\ ControlOK'
    BY <1>2, BoundsAssumption
    DEF ForceTimeout, PollTimeout, PollError, executorVars,
        ControlTypeOK, ControlOK, ExecutorTypeOK, numpairs
  <2> QED
    BY <1>2, <2>1, TypeFrame DEF ForceTimeout, PollTimeout, PollError
<1>3. CASE CallPoll
  <2>1. ControlTypeOK' /\ ControlOK'
    BY <1>3 DEF CallPoll, MustPoll, ControlTypeOK, ControlOK
  <2> QED
    BY <1>3, <2>1, TypeFrame DEF CallPoll
<1>4. ASSUME NEW ready \in [1..numpairs -> SUBSET Events], PollReady(ready)
      PROVE  Ctl'
  <2>1. ExecutorTypeOK'
    BY <1>4 DEF PollReady, ExecutorTypeOK, PollFd
  <2>2. ControlTypeOK' /\ ControlOK'
    BY <1>4, BoundsAssumption
    DEF PollReady, ControlTypeOK, ControlOK, ExecutorTypeOK, numpairs
  <2> QED
    BY <1>4, <2>1, <2>2, TypeFrame DEF PollReady
<1>5. CASE Tick
  <2>1. ExecutorTypeOK'
    BY <1>5, BoundsAssumption DEF Tick, ExecutorTypeOK
  <2> QED
    BY <1>5, <2>1, TypeFrame DEF Tick
<1> QED
  BY <1>1, <1>2, <1>3, <1>4, <1>5 DEF Wake

LEMMA TypeDispatch ==
  Ctl /\ (DispatchNothing \/ DispatchAbort \/ DispatchEvents \/ AllDispatched)
    => Ctl'
<1> SUFFICES ASSUME Ctl, \/ DispatchNothing \/ DispatchAbort
                         \/ DispatchEvents \/ AllDispatched
             PROVE  Ctl'
  OBVIOUS
<1> USE DEF Ctl, TypeOK
<1>1. CASE AllDispatched
  <2>1. ControlTypeOK' /\ ControlOK'
    BY <1>1 DEF AllDispatched, ControlTypeOK, ControlOK
  <2> QED
    BY <1>1, <2>1, TypeFrame DEF AllDispatched
<1>2. ASSUME pc = "dispatch", ordinal <= numpairs, TakeFired
      PROVE  /\ ordinal \in 1..MaxPairs /\ ordinal \in 1..numpairs
             /\ Handled \in Connections
             /\ fds[ordinal].revents \in SUBSET Events
             /\ ExecutorTypeOK'
  <2>1. ordinal \in 1..MaxPairs /\ ordinal \in 1..numpairs
    BY <1>2, BoundsAssumption DEF ControlTypeOK, ExecutorTypeOK, numpairs
  <2>2. pairs[ordinal] \in Pair
    BY <2>1 DEF ExecutorTypeOK, numpairs
  <2>3. fds[ordinal] \in PollFd
    BY <2>1 DEF ExecutorTypeOK
  <2>4. fds[ordinal].revents \in SUBSET Events
    BY <2>3 DEF PollFd
  <2>5. Cardinality(fds[ordinal].revents) \in Int
    BY <2>4, EventsCardinality
  <2>6. ExecutorTypeOK'
    BY <1>2, <2>1, <2>3, <2>5 DEF TakeFired, ExecutorTypeOK, PollFd
  <2> QED
    BY <2>1, <2>2, <2>4, <2>6 DEF Handled, Pair
<1>3. CASE DispatchNothing
  BY <1>2, <1>3, NextPairType, TypeFrame DEF DispatchNothing, TakeFired
<1>4. CASE DispatchAbort
  <2>1. sockfd[Handled] \in Fds \cup {0, -1}
    BY <1>2, <1>4 DEF DispatchAbort, ConnectionTypeOK
  <2> QED
    BY <1>2, <1>4, <2>1, AbortType, NextPairType DEF DispatchAbort, TakeFired
<1>5. CASE DispatchEvents
  <2>1. ControlTypeOK' /\ ControlOK'
    BY <1>2, <1>5
    DEF DispatchEvents, TakeFired, ControlTypeOK, ControlOK, numpairs
  <2> QED
    BY <1>2, <1>5, <2>1, TypeFrame DEF DispatchEvents
<1> QED
  BY <1>1, <1>3, <1>4, <1>5

LEMMA TypeNext == Ctl /\ [Next]_vars => Ctl'
<1>1. Ctl /\ UNCHANGED vars => Ctl'
  BY TypeFrame DEF Ctl, TypeOK, vars, executorVars
<1> QED
  BY <1>1, TypeApplication, TypeWrite, TypeRead, TypeStart, TypeLoop, TypeDispatch
  DEF Next, Run

\* Whatever the application and the sockets do, every variable keeps its type:
\* no counter of commands, replies or pairs runs out of its range.
THEOREM TypeCorrect == Spec => []TypeOK
<1>1. Ctl => TypeOK
  BY DEF Ctl
<1> QED
  BY <1>1, TypeInit, TypeNext, PTL DEF Spec

-----------------------------------------------------------------------------
(***************************************************************************)
(* A step of the handler of pair i: it stays inside one of the two loops   *)
(* over the pairs, and changes no other pair's connection, batch or pollfd.*)
(***************************************************************************)
StepOf(i) ==
    /\ i \in 1..numpairs /\ i = ordinal
    /\ UNCHANGED <<poll_result, pairs, executed>>
    /\ \/ /\ pc = "start" \/ (pc \in {"write", "started"} /\ caller = "execute_start")
          /\ \/ pc' \in {"write", "started"} /\ caller' = "execute_start" /\ ordinal' = i
             \/ pc' = "start" /\ ordinal' = i + 1
       \/ /\ Dispatching
          /\ \/ pc' = "read" /\ ordinal' = i
             \/ pc' = "write" /\ caller' = "handle_event" /\ ordinal' = i
             \/ pc' = "dispatch" /\ ordinal' = i + 1

SameConnection(c) ==
    /\ state'[c] = state[c] /\ sockfd'[c] = sockfd[c]
    /\ current_batch'[c] = current_batch[c]
    /\ inflight'[c] = inflight[c] /\ parsed'[c] = parsed[c]

SameBatch(b) ==
    /\ num_commands'[b] = num_commands[b] /\ replies'[b] = replies[b]
    /\ errors'[b] = errors[b] /\ error'[b] = error[b]
    /\ position'[b] = position[b] /\ limit'[b] = limit[b]
    /\ buffered'[b] = buffered[b]

OnlyPair(i) ==
    /\ \A c \in Connections \ {pairs[i].connection} : SameConnection(c)
    /\ \A b \in Batches \ {pairs[i].batch} : SameBatch(b)
    /\ \A j \in (1..numpairs) \ {i} : fds'[j] = fds[j]

LEMMA OtherPairs ==
  ASSUME ExecutionInv, NEW i, StepOf(i), OnlyPair(i), NEW j \in 1..numpairs, j # i
  PROVE  PairOK(j)'
<1> DEFINE c == pairs[j].connection
           b == pairs[j].batch
<1>1. /\ c \in Connections \ {pairs[i].connection}
      /\ b \in Batches \ {pairs[i].batch}
      /\ pairs' = pairs
  <2>1. pairs[j] \in Pair
    BY DEF ExecutionInv, TypeOK, ExecutorTypeOK, numpairs
  <2> QED
    BY <2>1 DEF ExecutionInv, PairsDistinct, StepOf, Pair
<1>2. SameConnection(c) /\ SameBatch(b) /\ fds'[j] = fds[j]
  BY <1>1 DEF OnlyPair
<1>3. i \in Nat /\ j \in Nat /\ i = ordinal
  BY DEF StepOf, ExecutionInv, TypeOK, ExecutorTypeOK, numpairs
<1>4. /\ pc # "idle" /\ pc' # "idle"
      /\ Started(j)' <=> Started(j)
      /\ ~Current(j) /\ ~Current(j)'
  BY <1>3 DEF StepOf, Started, Current, Dispatching
<1>5. ~Dispatching' \/ j < ordinal' => ~Dispatching \/ j < ordinal
  BY <1>3 DEF StepOf, Dispatching
<1>6. poll_result' < 1 /\ (pc' = "loop" \/ (pc' = "dispatch" /\ j < ordinal'))
        => poll_result < 1 /\ pc = "dispatch" /\ j < ordinal
  BY <1>3 DEF StepOf, Dispatching, ExecutionInv, ControlOK
<1>7. PairOK(j)
  BY DEF ExecutionInv
<1>8. /\ ReadyToStart(c, b, fds[j]) => ReadyToStart(c, b, fds[j])'
      /\ Accounted(c, b) => Accounted(c, b)'
      /\ Settled(c, b, fds[j]) => Settled(c, b, fds[j])'
  BY <1>1, <1>2
  DEF SameConnection, SameBatch, ReadyToStart, Fresh, Accounted, Settled,
      Buffer_remaining
<1>9. num_commands'[b] = num_commands[b]
  BY <1>2 DEF SameBatch
<1> QED
  BY <1>1, <1>2, <1>4, <1>5, <1>6, <1>7, <1>8, <1>9 DEF PairOK

LEMMA OtherParts ==
  ASSUME ExecutionInv, NEW i, StepOf(i), OnlyPair(i), Started(i)'
  PROVE  PairsDistinct' /\ AtRest' /\ Unsent'
<1>1. /\ pairs' = pairs /\ numpairs' = numpairs
      /\ i \in Nat /\ i = ordinal /\ i \in 1..numpairs
  BY DEF StepOf, ExecutionInv, TypeOK, ExecutorTypeOK, numpairs
<1>2. ASSUME NEW j \in 1..numpairs, j # i PROVE Started(j)' <=> Started(j)
  BY <1>1, <1>2 DEF StepOf, Started, Current, Dispatching
<1>3. PairsDistinct'
  BY <1>1 DEF ExecutionInv, PairsDistinct
<1>4. AtRest'
  <2> SUFFICES ASSUME NEW c \in Connections,
                      \A j \in 1..numpairs : Started(j)' => pairs[j].connection # c
               PROVE  state'[c] # "CONNECTING" /\ inflight'[c] = 0
    BY <1>1 DEF AtRest
  <2>1. SameConnection(c)
    BY <1>1 DEF OnlyPair
  <2>2. \A j \in 1..numpairs : Started(j) => pairs[j].connection # c
    BY <1>1, <1>2
  <2> QED
    BY <2>1, <2>2 DEF ExecutionInv, AtRest, SameConnection
<1>5. Unsent'
  <2> SUFFICES ASSUME NEW b \in Batches, Fresh(b)',
                      \A j \in 1..numpairs : Started(j)' => pairs[j].batch # b
               PROVE  position'[b] = num_commands'[b] /\ buffered'[b] = 0
    BY <1>1 DEF Unsent
  <2>1. SameBatch(b)
    BY <1>1 DEF OnlyPair
  <2>2. \A j \in 1..numpairs : Started(j) => pairs[j].batch # b
    BY <1>1, <1>2
  <2> QED
    BY <2>1, <2>2 DEF ExecutionInv, Unsent, SameBatch, Fresh
<1> QED
  BY <1>3, <1>4, <1>5

-----------------------------------------------------------------------------
(***************************************************************************)
(* Counting the registered events.                                         *)
(***************************************************************************)

LEMMA RegisteredFinite ==
  ASSUME TypeOK
  PROVE  IsFiniteSet(Registered) /\ Cardinality(Registered) \in Nat
<1>1. numpairs \in Nat
  BY DEF TypeOK, ExecutorTypeOK, numpairs
<1>2. IsFiniteSet(1..numpairs)
  BY <1>1, FS_Interval
<1>3. IsFiniteSet(Events)
  BY EventsCardinality
<1>4. IsFiniteSet((1..numpairs) \X Events)
  BY <1>2, <1>3, FS_Product
<1>5. Registered \in SUBSET ((1..numpairs) \X Events)
  BY DEF Registered
<1> QED
  BY <1>4, <1>5, FS_Subset, FS_CardinalityType

LEMMA CountSame ==
  ASSUME pairs' = pairs, \A j \in 1..numpairs : fds'[j].events = fds[j].events
  PROVE  Registered' = Registered
BY DEF Registered, numpairs

LEMMA CountAdd ==
  ASSUME TypeOK, pairs' = pairs, NEW i \in 1..numpairs, NEW e \in Events,
         e \notin fds[i].events,
         fds'[i].events = fds[i].events \cup {e},
         \A j \in (1..numpairs) \ {i} : fds'[j] = fds[j]
  PROVE  Cardinality(Registered') = Cardinality(Registered) + 1
<1>1. Registered' = Registered \cup {<<i, e>>}
  BY DEF Registered, numpairs
<1>2. <<i, e>> \notin Registered
  BY DEF Registered
<1> QED
  BY <1>1, <1>2, RegisteredFinite, FS_AddElement

LEMMA CountTake ==
  ASSUME TypeOK, pairs' = pairs, NEW i \in 1..numpairs,
         NEW F \in SUBSET Events, F \subseteq fds[i].events,
         fds'[i].events = fds[i].events \ F,
         \A j \in (1..numpairs) \ {i} : fds'[j] = fds[j]
  PROVE  Cardinality(Registered') = Cardinality(Registered) - Cardinality(F)
<1> DEFINE R == {r \in Registered : r # <<i, "READ">> \/ "READ" \notin F}
<1>1. /\ IsFiniteSet(R)
      /\ Cardinality(R) = Cardinality(Registered) - (IF "READ" \in F THEN 1 ELSE 0)
  <2>1. CASE "READ" \in F
    <3>1. R = Registered \ {<<i, "READ">>}
      BY <2>1
    <3>2. <<i, "READ">> \in Registered
      BY <2>1 DEF Registered, Events
    <3> QED
      BY <2>1, <3>1, <3>2, RegisteredFinite, FS_RemoveElement
  <2>2. CASE "READ" \notin F
    <3>1. R = Registered
      BY <2>2 DEF Registered
    <3> HIDE DEF R
    <3> QED
      BY <2>2, <3>1, RegisteredFinite
  <2> QED
    BY <2>1, <2>2
<1>2. Cardinality(Registered') = Cardinality(R) - (IF "WRITE" \in F THEN 1 ELSE 0)
  <2>1. CASE "WRITE" \in F
    <3>1. Registered' = R \ {<<i, "WRITE">>}
      BY <2>1 DEF Registered, numpairs, Events
    <3>2. <<i, "WRITE">> \in R
      BY <2>1 DEF Registered, Events
    <3> QED
      BY <1>1, <2>1, <3>1, <3>2, FS_RemoveElement
  <2>2. CASE "WRITE" \notin F
    <3>1. Registered' = R
      BY <2>2 DEF Registered, numpairs, Events
    <3> QED
      BY <2>2, <3>1, <1>1, RegisteredFinite, FS_CardinalityType
  <2> QED
    BY <2>1, <2>2
<1> QED
  BY <1>1, <1>2, EventsCardinality, RegisteredFinite

-----------------------------------------------------------------------------
(***************************************************************************)
(* The handler of one pair, while it keeps to its own connection.          *)
(***************************************************************************)
PairIs(i, c, b) ==
    /\ i = ordinal /\ i \in 1..numpairs
    /\ c = pairs[i].connection /\ b = pairs[i].batch

LEMMA PairIsType ==
  ASSUME ExecutionInv, NEW i, NEW c, NEW b, PairIs(i, c, b)
  PROVE  /\ i \in Nat /\ i \in 1..MaxPairs
         /\ c \in Connections /\ b \in Batches
         /\ sockfd[c] \in Fds \cup {0, -1}
         /\ state[c] \in States
         /\ fds[i] \in PollFd
         /\ Handled = c
         /\ PairOK(i)
         /\ Started(i) => Accounted(c, b)
<1>1. i \in Nat /\ i \in 1..MaxPairs
  BY BoundsAssumption DEF ExecutionInv, TypeOK, ExecutorTypeOK, PairIs, numpairs
<1>2. pairs[i] \in Pair /\ PairOK(i)
  BY DEF ExecutionInv, TypeOK, ExecutorTypeOK, PairIs, numpairs
<1>3. c \in Connections /\ b \in Batches /\ Handled = c
  BY <1>2 DEF PairIs, Pair, Handled
<1>4. Started(i) => Accounted(c, b)
  BY <1>2 DEF PairOK, PairIs
<1> QED
  BY <1>1, <1>2, <1>3, <1>4 DEF ExecutionInv, TypeOK, ConnectionTypeOK, ExecutorTypeOK

LEMMA StepKeepsInv ==
  ASSUME ExecutionInv, Ctl', NEW i, StepOf(i), OnlyPair(i), Started(i)',
         SocketsOwned', EventCountExact', PairOK(i)'
  PROVE  ExecutionInv'
<1>1. \A j \in 1..numpairs : PairOK(j)'
  BY OtherPairs
<1>2. numpairs' = numpairs
  BY DEF StepOf, numpairs
<1>3. Begun'
  BY DEF StepOf, ExecutionInv, Begun, Dispatching
<1> QED
  BY <1>1, <1>2, <1>3, OtherParts DEF ExecutionInv, Ctl

LEMMA AbortEffect ==
  ASSUME ExecutionInv, NEW i, NEW c, NEW b, PairIs(i, c, b), Started(i),
         state[c] # "ABORTED", NEW fd \in Fds \cup {0, -1},
         Connection_abort(c, fd)
  PROVE  /\ \A d \in Connections \ {c} : SameConnection(d)
         /\ \A a \in Batches \ {b} : SameBatch(a)
         /\ SocketsOwned'
         /\ state'[c] = "ABORTED" /\ num_commands'[b] = 0
         /\ Accounted(c, b)'
<1> USE DEF ExecutionInv, TypeOK, ConnectionTypeOK, BatchTypeOK
<1>1. c \in Connections /\ b \in Batches /\ current_batch[c] = b
  BY PairIsType DEF Accounted
<1>2. \A d \in Connections \ {c} : SameConnection(d)
  BY <1>1 DEF Connection_abort, SameConnection
<1>3. \A a \in Batches \ {b} : SameBatch(a)
  BY <1>1 DEF Connection_abort, Batch_abort, SameBatch
<1>4. /\ state'[c] = "ABORTED" /\ inflight'[c] = 0
      /\ sockfd'[c] \in {0, -1}
  BY <1>1, FdsAssumption DEF Connection_abort
<1>5. num_commands'[b] = 0
  BY <1>1 DEF Connection_abort, Batch_abort
<1>6. error'[b]
  BY <1>1 DEF Connection_abort, Batch_abort
<1>7. SocketsOwned'
  BY <1>1, <1>2, <1>4, FdsAssumption DEF SocketsOwned, SameConnection
<1> QED
  BY <1>2, <1>3, <1>4, <1>5, <1>6, <1>7 DEF Accounted, Fresh

-----------------------------------------------------------------------------
(***************************************************************************)
(* Connection_write_data.                                                  *)
(***************************************************************************)

\* What the caller of Connection_write_data needs to find when it returns.
LEMMA WriteReturnsStep ==
  ASSUME ExecutionInv, NEW i, NEW c, NEW b, PairIs(i, c, b), pc = "write",
         WriteReturns, UNCHANGED <<pairs, executed>>, Accounted(c, b)',
         caller = "execute_start" => Starting(c, b, fds[i])',
         caller = "handle_event" /\ "READ" \in event => Receiving(c, b, fds[i])',
         caller = "handle_event" /\ "READ" \notin event =>
            Settled(c, b, fds[i])' /\ fds'[i].revents = {}
  PROVE  StepOf(i) /\ Started(i)' /\ PairOK(i)'
<1>1. i \in Nat /\ i = ordinal /\ i \in 1..numpairs
  BY PairIsType DEF PairIs
<1>2. c = pairs'[i].connection /\ b = pairs'[i].batch
  BY DEF PairIs
<1>3. CASE caller = "execute_start"
  <2>1. pc' = "started" /\ UNCHANGED <<caller, ordinal, event, poll_result>>
    BY <1>3 DEF WriteReturns
  <2>2. StepOf(i) /\ Started(i)'
    BY <1>1, <1>3, <2>1 DEF StepOf, Started
  <2> QED
    BY <1>1, <1>2, <1>3, <2>1, <2>2 DEF PairOK, Current
<1>4. CASE caller = "handle_event" /\ "READ" \in event
  <2>1. pc' = "read" /\ UNCHANGED <<caller, ordinal, event, poll_result>>
    BY <1>4 DEF WriteReturns
  <2>2. StepOf(i) /\ Started(i)'
    BY <1>1, <1>4, <2>1 DEF StepOf, Started, Dispatching
  <2> QED
    BY <1>1, <1>2, <1>4, <2>1, <2>2 DEF PairOK, Current
<1>5. CASE caller = "handle_event" /\ "READ" \notin event
  <2>1. pc' = "dispatch" /\ ordinal' = i + 1 /\ poll_result' = poll_result
    BY <1>1, <1>5 DEF WriteReturns, NextPair
  <2>2. StepOf(i) /\ Started(i)'
    BY <1>1, <1>5, <2>1 DEF StepOf, Started, Dispatching
  <2>3. poll_result' = 1
    BY <1>5, <2>1 DEF ExecutionInv, ControlOK
  <2> QED
    BY <1>1, <1>2, <1>5, <2>1, <2>2, <2>3 DEF PairOK, Current
<1> QED
  BY <1>3, <1>4, <1>5 DEF ExecutionInv, TypeOK, ControlTypeOK

\* The state in which Connection_write_data runs.
LEMMA InWrite ==
  ASSUME ExecutionInv, NEW i, NEW c, NEW b, PairIs(i, c, b), pc = "write"
  PROVE  /\ Started(i) /\ Accounted(c, b) /\ Writing(c, b, fds[i])
         /\ state[c] # "ABORTED" /\ current_batch[c] = b
         /\ num_commands[b] > 0
         /\ fds[i].revents = {} /\ fds[i].events \subseteq Events
         /\ numevents = Cardinality(Registered)
<1>1. Started(i) /\ Current(i)
  BY PairIsType DEF Started, Current, PairIs
<1>2. Accounted(c, b) /\ Writing(c, b, fds[i])
  BY <1>1, PairIsType DEF PairOK, PairIs
<1>3. state[c] # "ABORTED" /\ current_batch[c] = b /\ num_commands[b] > 0
  BY <1>2 DEF Accounted, Writing
<1>4. fds[i].revents = {} /\ fds[i].events \subseteq Events
  BY <1>2, PairIsType DEF Writing, PollFd
<1> QED
  BY <1>1, <1>2, <1>3, <1>4 DEF ExecutionInv, EventCountExact

\* write_data aborts the connection.
LEMMA WriteAborts ==
  ASSUME ExecutionInv, Ctl', NEW i, NEW c, NEW b, PairIs(i, c, b), pc = "write",
         NEW fd \in Fds \cup {0, -1}, Connection_abort(c, fd),
         WriteReturns, UNCHANGED executorVars
  PROVE  ExecutionInv'
<1>1. /\ Started(i) /\ Writing(c, b, fds[i]) /\ state[c] # "ABORTED"
      /\ fds[i].revents = {} /\ fds[i].events \subseteq Events
      /\ numevents = Cardinality(Registered)
  BY InWrite
<1>2. /\ \A d \in Connections \ {c} : SameConnection(d)
      /\ \A a \in Batches \ {b} : SameBatch(a)
      /\ SocketsOwned'
      /\ state'[c] = "ABORTED" /\ num_commands'[b] = 0
      /\ Accounted(c, b)'
  BY <1>1, AbortEffect
<1>3. UNCHANGED <<pairs, executed, fds, numevents>>
  BY DEF executorVars
<1>4. OnlyPair(i)
  BY <1>2, <1>3 DEF OnlyPair, PairIs
<1>5. StepOf(i) /\ Started(i)' /\ PairOK(i)'
  <2>1. caller = "execute_start" => Starting(c, b, fds[i])'
    BY <1>1, <1>2, <1>3 DEF Starting, Writing
  <2>2. caller = "handle_event" /\ "READ" \in event => Receiving(c, b, fds[i])'
    BY <1>1, <1>2, <1>3 DEF Receiving, Writing
  <2>3. Settled(c, b, fds[i])' /\ fds'[i].revents = {}
    BY <1>1, <1>2, <1>3 DEF Settled
  <2> QED
    BY <1>2, <1>3, <2>1, <2>2, <2>3, WriteReturnsStep
<1>6. EventCountExact'
  BY <1>1, <1>3, CountSame DEF EventCountExact
<1> QED
  BY <1>2, <1>4, <1>5, <1>6, StepKeepsInv

LEMMA NotifyEffect ==
  ASSUME ExecutionInv, NEW i, NEW c, NEW b, PairIs(i, c, b), NEW e \in Events, NEW fd,
         Executor_notify_event(e, fd), pairs' = pairs,
         e \notin fds[i].events, numevents = Cardinality(Registered)
  PROVE  /\ fds'[i].fd = fd
         /\ fds'[i].events = fds[i].events \cup {e}
         /\ fds'[i].revents = fds[i].revents
         /\ \A j \in (1..numpairs) \ {i} : fds'[j] = fds[j]
         /\ EventCountExact'
<1>1. i = ordinal /\ i \in 1..numpairs /\ i \in 1..MaxPairs
  BY PairIsType DEF PairIs
<1>2. fds'[i] = [fd |-> fd, events |-> fds[i].events \cup {e},
                 revents |-> fds[i].revents]
  BY <1>1 DEF Executor_notify_event, ExecutionInv, TypeOK, ExecutorTypeOK
<1>3. \A j \in (1..numpairs) \ {i} : fds'[j] = fds[j]
  BY <1>1 DEF Executor_notify_event, ExecutionInv, TypeOK, ExecutorTypeOK, numpairs
<1>4. Cardinality(Registered') = Cardinality(Registered) + 1
  BY <1>1, <1>2, <1>3, CountAdd DEF ExecutionInv
<1>5. EventCountExact'
  BY <1>4 DEF EventCountExact, Executor_notify_event
<1> QED
  BY <1>2, <1>3, <1>5

LEMMA AccountedSame ==
  ASSUME NEW c, NEW b, Accounted(c, b), SameBatch(b),
         state[c] # "ABORTED", state'[c] # "ABORTED",
         current_batch'[c] = current_batch[c],
         inflight'[c] = inflight[c], parsed'[c] = parsed[c]
  PROVE  Accounted(c, b)'
<1>1. ~error'[b]
  BY DEF Accounted, SameBatch
<1>2. /\ current_batch'[c] = b /\ errors'[b] = 0
      /\ position'[b] <= limit'[b] /\ parsed'[c] <= buffered'[b]
  BY DEF Accounted, SameBatch
<1>3. num_commands'[b] =
        (limit'[b] - position'[b]) + inflight'[c] + (buffered'[b] - parsed'[c])
  BY DEF Accounted, SameBatch, Buffer_remaining
<1>4. Fresh(b)' => num_commands'[b] > 0
  BY DEF Accounted, SameBatch, Fresh
<1> QED
  BY <1>1, <1>2, <1>3, <1>4 DEF Accounted, Buffer_remaining

LEMMA NewSocket ==
  ASSUME ExecutionInv, NEW c \in Connections, NEW fd \in Fds \ OpenFds,
         \A d \in Connections \ {c} : SameConnection(d),
         state'[c] \in {"CONNECTING", "CONNECTED"}, sockfd'[c] = fd
  PROVE  SocketsOwned'
<1>1. \A d \in Connections \ {c} :
         sockfd'[d] = sockfd[d] /\ state'[d] = state[d] /\ sockfd'[d] # fd
  BY DEF SameConnection, OpenFds
<1>2. \A d, e \in Connections : sockfd'[d] \in Fds /\ sockfd'[d] = sockfd'[e] => d = e
  BY <1>1 DEF ExecutionInv, SocketsOwned
<1>3. \A d \in Connections :
         sockfd'[d] \in Fds <=> state'[d] \in {"CONNECTING", "CONNECTED"}
  BY <1>1 DEF ExecutionInv, SocketsOwned
<1> QED
  BY <1>2, <1>3 DEF SocketsOwned

LEMMA ConnectInProgressKeeps ==
  ASSUME ExecutionInv, Ctl', NEW i, NEW c, NEW b, PairIs(i, c, b),
         NEW fd \in Fds, ConnectInProgress(fd)
  PROVE  ExecutionInv'
<1>0. pc = "write" /\ Handled = c /\ c \in Connections /\ b \in Batches
  BY PairIsType DEF ConnectInProgress
<1>1. /\ Started(i) /\ Accounted(c, b) /\ Writing(c, b, fds[i])
      /\ current_batch[c] = b /\ num_commands[b] > 0
      /\ fds[i].revents = {} /\ numevents = Cardinality(Registered)
  BY <1>0, InWrite
<1>2. state[c] = "CLOSED" /\ fd \in Fds \ OpenFds
  BY <1>0 DEF ConnectInProgress
<1>3. caller = "execute_start" /\ fds[i].events = {}
  BY <1>1, <1>2 DEF Writing, ExecutionInv, TypeOK, ControlTypeOK
<1>4. /\ fds'[i].fd = fd /\ fds'[i].events = {"WRITE"} /\ fds'[i].revents = {}
      /\ \A j \in (1..numpairs) \ {i} : fds'[j] = fds[j]
      /\ EventCountExact'
  BY <1>1, <1>3, NotifyEffect DEF ConnectInProgress, Events
<1>5. \A d \in Connections \ {c} : SameConnection(d)
  BY <1>0
  DEF ConnectInProgress, SameConnection, ExecutionInv, TypeOK, ConnectionTypeOK
<1>6. /\ state'[c] = "CONNECTING" /\ sockfd'[c] = fd
      /\ UNCHANGED <<current_batch, inflight, parsed, batchVars, pairs, executed>>
  BY <1>0 DEF ConnectInProgress, ExecutionInv, TypeOK, ConnectionTypeOK
<1>7. \A a \in Batches : SameBatch(a)
  BY <1>6 DEF SameBatch, batchVars
<1>8. OnlyPair(i)
  BY <1>4, <1>5, <1>7 DEF OnlyPair, PairIs
<1>9. SocketsOwned'
  BY <1>0, <1>2, <1>5, <1>6, NewSocket
<1>10. Accounted(c, b)'
  BY <1>0, <1>1, <1>2, <1>6, <1>7, AccountedSame
<1>11. Starting(c, b, fds[i])'
  BY <1>0, <1>1, <1>4, <1>6, <1>7 DEF Starting, SameBatch
<1>12. StepOf(i) /\ Started(i)' /\ PairOK(i)'
  BY <1>0, <1>3, <1>6, <1>10, <1>11, WriteReturnsStep DEF ConnectInProgress
<1> QED
  BY <1>4, <1>8, <1>9, <1>12, StepKeepsInv

LEMMA ConnectImmediateKeeps ==
  ASSUME ExecutionInv, Ctl', NEW i, NEW c, NEW b, PairIs(i, c, b),
         NEW fd \in Fds, ConnectImmediate(fd)
  PROVE  ExecutionInv'
<1>0. pc = "write" /\ Handled = c /\ c \in Connections /\ b \in Batches
  BY PairIsType DEF ConnectImmediate
<1>1. /\ Started(i) /\ Accounted(c, b) /\ Writing(c, b, fds[i])
      /\ current_batch[c] = b /\ num_commands[b] > 0
      /\ fds[i].revents = {} /\ numevents = Cardinality(Registered)
  BY <1>0, InWrite
<1>2. state[c] = "CLOSED" /\ fd \in Fds \ OpenFds
  BY <1>0 DEF ConnectImmediate
<1>3. caller = "execute_start" /\ fds[i].events = {}
  BY <1>1, <1>2 DEF Writing, ExecutionInv, TypeOK, ControlTypeOK
<1>5. \A d \in Connections \ {c} : SameConnection(d)
  BY <1>0
  DEF ConnectImmediate, SameConnection, ExecutionInv, TypeOK, ConnectionTypeOK
<1>6. /\ state'[c] = "CONNECTED" /\ sockfd'[c] = fd
      /\ UNCHANGED <<current_batch, inflight, parsed, batchVars, pairs, fds,
                     numevents, executed>>
      /\ UNCHANGED <<pc, caller, ordinal, event, poll_result>>
  BY <1>0
  DEF ConnectImmediate, executorVars, controlVars, ExecutionInv, TypeOK, ConnectionTypeOK
<1>7. \A a \in Batches : SameBatch(a)
  BY <1>6 DEF SameBatch, batchVars
<1>8. OnlyPair(i)
  BY <1>5, <1>6, <1>7 DEF OnlyPair, PairIs
<1>9. SocketsOwned'
  BY <1>0, <1>2, <1>5, <1>6, NewSocket
<1>10. Accounted(c, b)'
  BY <1>0, <1>1, <1>2, <1>6, <1>7, AccountedSame
<1>11. Writing(c, b, fds[i])'
  BY <1>0, <1>1, <1>3, <1>6, <1>7 DEF Writing, SameBatch
<1>12. StepOf(i) /\ Started(i)' /\ Current(i)'
  BY <1>0, <1>3, <1>6 DEF StepOf, Started, Current, PairIs
<1>13. PairOK(i)'
  BY <1>0, <1>6, <1>10, <1>11, <1>12 DEF PairOK, PairIs
<1>14. EventCountExact'
  BY <1>1, <1>6, CountSame DEF EventCountExact
<1> QED
  BY <1>8, <1>9, <1>12, <1>13, <1>14, StepKeepsInv

LEMMA ConnectCompletedKeeps ==
  ASSUME ExecutionInv, Ctl', NEW i, NEW c, NEW b, PairIs(i, c, b), ConnectCompleted
  PROVE  ExecutionInv'
<1>0. pc = "write" /\ Handled = c /\ c \in Connections /\ b \in Batches
  BY PairIsType DEF ConnectCompleted
<1>1. /\ Started(i) /\ Accounted(c, b) /\ Writing(c, b, fds[i])
      /\ current_batch[c] = b /\ num_commands[b] > 0
      /\ fds[i].revents = {} /\ numevents = Cardinality(Registered)
  BY <1>0, InWrite
<1>2. state[c] = "CONNECTING"
  BY <1>0 DEF ConnectCompleted
<1>3. caller = "handle_event" /\ event = {"WRITE"} /\ fds[i].events = {}
  BY <1>1, <1>2 DEF Writing, ExecutionInv, TypeOK, ControlTypeOK
<1>4. /\ fds'[i].fd = sockfd[c] /\ fds'[i].events = {"READ"}
      /\ fds'[i].revents = {}
      /\ \A j \in (1..numpairs) \ {i} : fds'[j] = fds[j]
      /\ EventCountExact'
  BY <1>0, <1>1, <1>3, NotifyEffect DEF ConnectCompleted, Events
<1>5. \A d \in Connections \ {c} : SameConnection(d)
  BY <1>0 DEF ConnectCompleted, SameConnection, ExecutionInv, TypeOK, ConnectionTypeOK
<1>6. /\ state'[c] = "CONNECTED"
      /\ UNCHANGED <<sockfd, current_batch, inflight, parsed, batchVars, pairs,
                     executed>>
      /\ UNCHANGED <<pc, caller, ordinal, event, poll_result>>
  BY <1>0
  DEF ConnectCompleted, controlVars, ExecutionInv, TypeOK, ConnectionTypeOK
<1>7. \A a \in Batches : SameBatch(a)
  BY <1>6 DEF SameBatch, batchVars
<1>8. OnlyPair(i)
  BY <1>4, <1>5, <1>7 DEF OnlyPair, PairIs
<1>9. SocketsOwned'
  BY <1>0, <1>2, <1>5, <1>6 DEF SocketsOwned, SameConnection, ExecutionInv
<1>10. Accounted(c, b)'
  BY <1>0, <1>1, <1>2, <1>6, <1>7, AccountedSame
<1>11. Writing(c, b, fds[i])'
  BY <1>0, <1>1, <1>3, <1>4, <1>6, <1>7 DEF Writing, SameBatch
<1>12. StepOf(i) /\ Started(i)' /\ Current(i)'
  BY <1>0, <1>3, <1>6 DEF StepOf, Started, Current, PairIs, Dispatching
<1>13. PairOK(i)'
  BY <1>0, <1>6, <1>10, <1>11, <1>12 DEF PairOK, PairIs
<1> QED
  BY <1>4, <1>8, <1>9, <1>12, <1>13, StepKeepsInv

LEMMA SendKeeps ==
  ASSUME ExecutionInv, Ctl', NEW i, NEW c, NEW b, PairIs(i, c, b),
         NEW k \in 1..MaxCommands, Send(k)
  PROVE  ExecutionInv'
<1>0. pc = "write" /\ Handled = c /\ c \in Connections /\ b \in Batches
  BY PairIsType DEF Send
<1>1. /\ Started(i) /\ Accounted(c, b) /\ Writing(c, b, fds[i])
      /\ current_batch[c] = b /\ num_commands[b] > 0
      /\ fds[i].revents = {} /\ numevents = Cardinality(Registered)
  BY <1>0, InWrite
<1>2. state[c] = "CONNECTED" /\ k <= limit[b] - position[b]
  BY <1>0, <1>1 DEF Send, Buffer_remaining
<1>3. /\ \A d \in Connections \ {c} : SameConnection(d)
      /\ inflight'[c] = inflight[c] + k
      /\ UNCHANGED <<state, sockfd, current_batch, parsed>>
  BY <1>0 DEF Send, SameConnection, ExecutionInv, TypeOK, ConnectionTypeOK
<1>4. /\ \A a \in Batches \ {b} : SameBatch(a)
      /\ position'[b] = position[b] + k
      /\ UNCHANGED <<num_commands, replies, errors, error, limit, buffered>>
  BY <1>0, <1>1 DEF Send, SameBatch, ExecutionInv, TypeOK, BatchTypeOK
<1>5. /\ UNCHANGED <<pairs, fds, numevents, executed>>
      /\ UNCHANGED <<pc, caller, ordinal, event, poll_result>>
  BY DEF Send, executorVars, controlVars
<1>6. OnlyPair(i)
  BY <1>3, <1>4, <1>5 DEF OnlyPair, PairIs
<1>7. SocketsOwned'
  BY <1>3 DEF SocketsOwned, ExecutionInv
<1>8. Accounted(c, b)'
  <2>1. ~error'[b]
    BY <1>1, <1>2, <1>4 DEF Accounted
  <2>2. /\ current_batch'[c] = b /\ errors'[b] = 0 /\ parsed'[c] <= buffered'[b]
        /\ state'[c] = "CONNECTED"
    BY <1>1, <1>2, <1>3, <1>4 DEF Accounted
  <2>3. /\ limit[b] \in Nat /\ position[b] \in Nat /\ inflight[c] \in Nat
        /\ parsed[c] \in Nat /\ buffered[b] \in Nat /\ k \in Nat
    BY <1>0, BoundsAssumption DEF ExecutionInv, TypeOK, BatchTypeOK, ConnectionTypeOK
  <2>4. position'[b] <= limit'[b]
    BY <1>2, <1>4, <2>3
  <2>5. num_commands'[b] =
          (limit'[b] - position'[b]) + inflight'[c] + (buffered'[b] - parsed'[c])
    BY <1>1, <1>2, <1>3, <1>4, <2>3 DEF Accounted, Buffer_remaining
  <2>6. Fresh(b)' => num_commands'[b] > 0
    BY <1>1, <1>4
  <2> QED
    BY <2>1, <2>2, <2>4, <2>5, <2>6 DEF Accounted, Buffer_remaining
<1>9. Writing(c, b, fds[i])'
  BY <1>1, <1>3, <1>4, <1>5 DEF Writing
<1>10. StepOf(i) /\ Started(i)' /\ Current(i)'
  BY <1>0, <1>5 DEF StepOf, Started, Current, PairIs, Dispatching,
     ExecutionInv, TypeOK, ControlTypeOK
<1>11. PairOK(i)'
  BY <1>0, <1>5, <1>8, <1>9, <1>10 DEF PairOK, PairIs
<1>12. EventCountExact'
  BY <1>1, <1>5, CountSame DEF EventCountExact
<1> QED
  BY <1>6, <1>7, <1>10, <1>11, <1>12, StepKeepsInv

LEMMA SendAgainKeeps ==
  ASSUME ExecutionInv, Ctl', NEW i, NEW c, NEW b, PairIs(i, c, b), SendAgain
  PROVE  ExecutionInv'
<1>0. pc = "write" /\ Handled = c /\ c \in Connections /\ b \in Batches
  BY PairIsType DEF SendAgain
<1>1. /\ Started(i) /\ Accounted(c, b) /\ Writing(c, b, fds[i])
      /\ current_batch[c] = b /\ num_commands[b] > 0
      /\ fds[i].revents = {} /\ fds[i].events \subseteq Events
      /\ numevents = Cardinality(Registered)
  BY <1>0, InWrite
<1>2. state[c] = "CONNECTED"
  BY <1>0 DEF SendAgain
<1>3. "WRITE" \notin fds[i].events
  BY <1>1 DEF Writing, ExecutionInv, TypeOK, ControlTypeOK
<1>4. /\ fds'[i].fd = sockfd[c]
      /\ fds'[i].events = fds[i].events \cup {"WRITE"}
      /\ fds'[i].revents = {}
      /\ \A j \in (1..numpairs) \ {i} : fds'[j] = fds[j]
      /\ EventCountExact'
  BY <1>0, <1>1, <1>3, NotifyEffect DEF SendAgain, Events
<1>5. UNCHANGED <<state, sockfd, current_batch, inflight, parsed, batchVars,
                  pairs, executed>>
  BY DEF SendAgain, connectionVars
<1>6. \A d : SameConnection(d)
  BY <1>5 DEF SameConnection
<1>7. \A a : SameBatch(a)
  BY <1>5 DEF SameBatch, batchVars
<1>8. OnlyPair(i)
  BY <1>4, <1>6, <1>7 DEF OnlyPair
<1>9. SocketsOwned'
  BY <1>5 DEF SocketsOwned, ExecutionInv
<1>10. Accounted(c, b)'
  BY <1>0, <1>1, <1>2, <1>5, <1>7, AccountedSame
<1>11. num_commands'[b] > 0 /\ state'[c] = "CONNECTED"
  BY <1>1, <1>2, <1>5 DEF batchVars
<1>12. caller = "execute_start" => Starting(c, b, fds[i])'
  BY <1>1, <1>4, <1>5, <1>11 DEF Starting, Writing
<1>13. caller = "handle_event" /\ "READ" \in event => Receiving(c, b, fds[i])'
  BY <1>1, <1>2, <1>4, <1>5, <1>11 DEF Receiving, Writing
<1>14. caller = "handle_event" /\ "READ" \notin event =>
          Settled(c, b, fds[i])' /\ fds'[i].revents = {}
  BY <1>1, <1>2, <1>4, <1>5, <1>11 DEF Settled, Writing, Events
<1>15. StepOf(i) /\ Started(i)' /\ PairOK(i)'
  BY <1>0, <1>5, <1>10, <1>12, <1>13, <1>14, WriteReturnsStep DEF SendAgain
<1> QED
  BY <1>4, <1>8, <1>9, <1>15, StepKeepsInv

LEMMA AllSentKeeps ==
  ASSUME ExecutionInv, Ctl', NEW i, NEW c, NEW b, PairIs(i, c, b), AllSent
  PROVE  ExecutionInv'
<1>0. pc = "write" /\ Handled = c /\ c \in Connections /\ b \in Batches
  BY PairIsType DEF AllSent
<1>1. /\ Started(i) /\ Accounted(c, b) /\ Writing(c, b, fds[i])
      /\ current_batch[c] = b /\ num_commands[b] > 0
      /\ fds[i].revents = {} /\ fds[i].events \subseteq Events
      /\ numevents = Cardinality(Registered)
  BY <1>0, InWrite
<1>2. state[c] = "CONNECTED" /\ Buffer_remaining(b) = 0
  BY <1>0, <1>1 DEF AllSent
<1>5. UNCHANGED <<state, sockfd, current_batch, inflight, parsed, batchVars,
                  pairs, executed, fds, numevents>>
  BY DEF AllSent, connectionVars, executorVars
<1>6. \A d : SameConnection(d)
  BY <1>5 DEF SameConnection
<1>7. \A a : SameBatch(a)
  BY <1>5 DEF SameBatch, batchVars
<1>8. OnlyPair(i)
  BY <1>5, <1>6, <1>7 DEF OnlyPair
<1>9. SocketsOwned'
  BY <1>5 DEF SocketsOwned, ExecutionInv
<1>10. Accounted(c, b)'
  BY <1>0, <1>1, <1>2, <1>5, <1>7, AccountedSame
<1>11. num_commands'[b] > 0 /\ state'[c] = "CONNECTED" /\ Buffer_remaining(b)' = 0
  BY <1>1, <1>2, <1>5 DEF batchVars, Buffer_remaining
<1>12. caller = "execute_start" => Starting(c, b, fds[i])'
  BY <1>1, <1>5, <1>11 DEF Starting, Writing
<1>13. caller = "handle_event" /\ "READ" \in event => Receiving(c, b, fds[i])'
  BY <1>1, <1>2, <1>5, <1>11 DEF Receiving, Writing
<1>14. caller = "handle_event" /\ "READ" \notin event =>
          Settled(c, b, fds[i])' /\ fds'[i].revents = {}
  BY <1>1, <1>2, <1>5, <1>11 DEF Settled, Writing, Events
<1>15. StepOf(i) /\ Started(i)' /\ PairOK(i)'
  BY <1>0, <1>5, <1>10, <1>12, <1>13, <1>14, WriteReturnsStep DEF AllSent
<1>16. EventCountExact'
  BY <1>1, <1>5, CountSame DEF EventCountExact
<1> QED
  BY <1>8, <1>9, <1>15, <1>16, StepKeepsInv

LEMMA WriteKeeps ==
  ASSUME ExecutionInv, Ctl', NEW i, NEW c, NEW b, PairIs(i, c, b), Write
  PROVE  ExecutionInv'
<1>0. Handled = c /\ sockfd[c] \in Fds \cup {0, -1}
  BY PairIsType
<1>1. CASE ConnectFails
  BY <1>0, <1>1, WriteAborts DEF ConnectFails
<1>2. CASE ConnectRefused
  BY <1>0, <1>2, WriteAborts DEF ConnectRefused
<1>3. CASE SendFails
  BY <1>0, <1>3, WriteAborts DEF SendFails
<1> QED
  BY <1>1, <1>2, <1>3, ConnectInProgressKeeps, ConnectImmediateKeeps,
     ConnectCompletedKeeps, SendKeeps, SendAgainKeeps, AllSentKeeps DEF Write

-----------------------------------------------------------------------------
(***************************************************************************)
(* Connection_read_data.                                                   *)
(***************************************************************************)

LEMMA InRead ==
  ASSUME ExecutionInv, NEW i, NEW c, NEW b, PairIs(i, c, b), pc = "read"
  PROVE  /\ Started(i) /\ Accounted(c, b) /\ Receiving(c, b, fds[i])
         /\ state[c] # "ABORTED" => current_batch[c] = b /\ state[c] = "CONNECTED"
         /\ fds[i].revents = {} /\ fds[i].events \subseteq {"WRITE"}
         /\ poll_result = 1 /\ caller = "handle_event"
         /\ numevents = Cardinality(Registered)
<1>1. Started(i) /\ Current(i)
  BY PairIsType DEF Started, Current, PairIs
<1>2. Accounted(c, b) /\ Receiving(c, b, fds[i])
  BY <1>1, PairIsType DEF PairOK, PairIs
<1>3. state[c] # "ABORTED" => current_batch[c] = b /\ state[c] = "CONNECTED"
  BY <1>2 DEF Accounted, Receiving
<1>4. fds[i].revents = {} /\ fds[i].events \subseteq {"WRITE"}
  BY <1>2 DEF Receiving
<1>5. poll_result = 1 /\ caller = "handle_event"
  BY DEF ExecutionInv, ControlOK
<1> QED
  BY <1>1, <1>2, <1>3, <1>4, <1>5 DEF ExecutionInv, EventCountExact

\* read_data or an event of no interest sends the loop to the next pair.
LEMMA DispatchGoesOn ==
  ASSUME ExecutionInv, NEW i, NEW c, NEW b, PairIs(i, c, b), Dispatching,
         NextPair("dispatch"), UNCHANGED <<pairs, executed>>,
         Accounted(c, b)', Settled(c, b, fds[i])', fds'[i].revents = {},
         poll_result < 1 => num_commands'[b] = 0
  PROVE  StepOf(i) /\ Started(i)' /\ PairOK(i)'
<1>1. i \in Nat /\ i = ordinal /\ i \in 1..numpairs
  BY PairIsType DEF PairIs
<1>2. c = pairs'[i].connection /\ b = pairs'[i].batch
  BY DEF PairIs
<1>3. pc' = "dispatch" /\ ordinal' = i + 1 /\ poll_result' = poll_result
  BY <1>1 DEF NextPair
<1>4. StepOf(i) /\ Started(i)'
  BY <1>1, <1>3 DEF StepOf, Started
<1> QED
  BY <1>1, <1>2, <1>3, <1>4 DEF PairOK, Current

LEMMA ReadEnds ==
  ASSUME ExecutionInv, Ctl', NEW i, NEW c, NEW b, PairIs(i, c, b),
         ReadAborted \/ AllAnswered
  PROVE  ExecutionInv'
<1>0. /\ pc = "read" /\ Handled = c /\ NextPair("dispatch")
      /\ UNCHANGED <<connectionVars, batchVars, executorVars>>
  BY PairIsType DEF ReadAborted, AllAnswered
<1>1. /\ Started(i) /\ Accounted(c, b) /\ Receiving(c, b, fds[i])
      /\ fds[i].revents = {} /\ poll_result = 1
      /\ numevents = Cardinality(Registered)
  BY <1>0, InRead
<1>2. state[c] = "ABORTED" \/ (state[c] = "CONNECTED" /\ ~(num_commands[b] > 0))
  BY <1>0, InRead DEF ReadAborted, AllAnswered, Batch_has_command
<1>3. UNCHANGED <<state, sockfd, current_batch, inflight, parsed, num_commands,
                  replies, errors, error, position, limit, buffered,
                  pairs, fds, numevents, executed>>
  BY <1>0 DEF connectionVars, batchVars, executorVars
<1>4. OnlyPair(i)
  BY <1>3 DEF OnlyPair, SameConnection, SameBatch
<1>5. SocketsOwned'
  BY <1>3 DEF SocketsOwned, ExecutionInv
<1>6. Accounted(c, b)'
  BY <1>1, <1>3 DEF Accounted, Buffer_remaining, Fresh
<1>7. Settled(c, b, fds[i])'
  BY <1>1, <1>2, <1>3 DEF Settled
<1>8. StepOf(i) /\ Started(i)' /\ PairOK(i)'
  BY <1>0, <1>1, <1>3, <1>6, <1>7, DispatchGoesOn DEF Dispatching
<1>9. EventCountExact'
  BY <1>1, <1>3, CountSame DEF EventCountExact
<1> QED
  BY <1>4, <1>5, <1>8, <1>9, StepKeepsInv

\* AddReply and Recv: the read loop goes round.
LEMMA ReadGoesOn ==
  ASSUME ExecutionInv, Ctl', NEW i, NEW c, NEW b, PairIs(i, c, b),
         AddReply \/ \E k \in 1..MaxCommands : Recv(k)
  PROVE  ExecutionInv'
<1>0. /\ pc = "read" /\ Handled = c /\ c \in Connections /\ b \in Batches
      /\ state[c] # "ABORTED"
  BY PairIsType DEF AddReply, Recv, Reading
<1>1. /\ Started(i) /\ Accounted(c, b) /\ Receiving(c, b, fds[i])
      /\ current_batch[c] = b /\ state[c] = "CONNECTED"
      /\ poll_result = 1 /\ caller = "handle_event"
      /\ numevents = Cardinality(Registered)
  BY <1>0, InRead
<1>2. num_commands[b] > 0
  BY <1>0, <1>1 DEF AddReply, Recv, Reading, Batch_has_command
<1>3. UNCHANGED <<state, sockfd, current_batch, errors, error, position, limit,
                  pairs, fds, numevents, executed,
                  pc, caller, ordinal, event, poll_result>>
  BY DEF AddReply, Recv, executorVars, controlVars
<1>4. \A d \in Connections \ {c} : SameConnection(d)
  BY <1>0 DEF AddReply, Recv, SameConnection, ExecutionInv, TypeOK, ConnectionTypeOK
<1>5. \A a \in Batches \ {b} : SameBatch(a)
  BY <1>0, <1>1 DEF AddReply, Recv, SameBatch, ExecutionInv, TypeOK, BatchTypeOK
<1>6. /\ limit[b] \in Nat /\ position[b] \in Nat /\ inflight[c] \in Nat
      /\ parsed[c] \in Nat /\ buffered[b] \in Nat /\ num_commands[b] \in Nat
  BY <1>0 DEF ExecutionInv, TypeOK, BatchTypeOK, ConnectionTypeOK
<1>7. /\ parsed'[c] <= buffered'[b]
      /\ num_commands'[b] =
            (limit[b] - position[b]) + inflight'[c] + (buffered'[b] - parsed'[c])
  <2>1. CASE AddReply
    <3>1. /\ num_commands'[b] = num_commands[b] - 1 /\ parsed'[c] = parsed[c] + 1
          /\ UNCHANGED <<inflight, buffered>> /\ parsed[c] # buffered[b]
      BY <1>0, <1>1, <2>1
      DEF AddReply, ParserWantsMore, ExecutionInv, TypeOK, BatchTypeOK, ConnectionTypeOK
    <3> QED
      BY <1>1, <1>6, <3>1 DEF Accounted, Buffer_remaining
  <2>2. ASSUME NEW k \in 1..MaxCommands, Recv(k)
        PROVE  /\ parsed'[c] <= buffered'[b]
               /\ num_commands'[b] = (limit[b] - position[b]) + inflight'[c]
                                        + (buffered'[b] - parsed'[c])
    <3>1. /\ buffered'[b] = buffered[b] + k /\ inflight'[c] = inflight[c] - k
          /\ UNCHANGED <<num_commands, parsed>>
      BY <1>0, <1>1, <2>2
      DEF Recv, ExecutionInv, TypeOK, BatchTypeOK, ConnectionTypeOK
    <3>2. k \in Nat
      BY BoundsAssumption
    <3> QED
      BY <1>1, <1>6, <3>1, <3>2 DEF Accounted, Buffer_remaining
  <2> QED
    BY <2>1, <2>2
<1>8. OnlyPair(i)
  BY <1>3, <1>4, <1>5 DEF OnlyPair, PairIs
<1>9. SocketsOwned'
  BY <1>3 DEF SocketsOwned, ExecutionInv
<1>10. Accounted(c, b)'
  <2>1. ~error'[b]
    BY <1>1, <1>3 DEF Accounted
  <2>2. /\ current_batch'[c] = b /\ errors'[b] = 0 /\ position'[b] <= limit'[b]
        /\ state'[c] = "CONNECTED"
    BY <1>1, <1>3 DEF Accounted
  <2>3. Fresh(b)' => num_commands'[b] > 0
    <3>1. CASE AddReply
      <4>1. replies'[b] = replies[b] + 1 /\ errors'[b] = errors[b]
        BY <1>0, <1>1, <3>1 DEF AddReply, ExecutionInv, TypeOK, BatchTypeOK
      <4>2. replies[b] \in Nat /\ errors[b] \in Nat
        BY <1>0 DEF ExecutionInv, TypeOK, BatchTypeOK
      <4> QED
        BY <4>1, <4>2 DEF Fresh
    <3>2. CASE \E k \in 1..MaxCommands : Recv(k)
      BY <1>2, <3>2 DEF Recv
    <3> QED
      BY <3>1, <3>2
  <2> QED
    BY <1>3, <1>7, <2>1, <2>2, <2>3 DEF Accounted, Buffer_remaining
<1>11. Receiving(c, b, fds[i])'
  BY <1>1, <1>3 DEF Receiving, Buffer_remaining
<1>12. StepOf(i) /\ Started(i)' /\ Current(i)'
  BY <1>0, <1>3 DEF StepOf, Started, Current, PairIs, Dispatching
<1>13. PairOK(i)'
  BY <1>0, <1>3, <1>10, <1>11, <1>12 DEF PairOK, PairIs
<1>14. EventCountExact'
  BY <1>1, <1>3, CountSame DEF EventCountExact
<1> QED
  BY <1>8, <1>9, <1>12, <1>13, <1>14, StepKeepsInv

LEMMA RecvAgainKeeps ==
  ASSUME ExecutionInv, Ctl', NEW i, NEW c, NEW b, PairIs(i, c, b), RecvAgain
  PROVE  ExecutionInv'
<1>0. /\ pc = "read" /\ Handled = c /\ c \in Connections /\ b \in Batches
      /\ state[c] # "ABORTED"
  BY PairIsType DEF RecvAgain, Reading
<1>1. /\ Started(i) /\ Accounted(c, b) /\ Receiving(c, b, fds[i])
      /\ current_batch[c] = b /\ state[c] = "CONNECTED"
      /\ fds[i].revents = {} /\ fds[i].events \subseteq {"WRITE"}
      /\ poll_result = 1
      /\ numevents = Cardinality(Registered)
  BY <1>0, InRead
<1>2. /\ fds'[i].fd = sockfd[c]
      /\ fds'[i].events = fds[i].events \cup {"READ"}
      /\ fds'[i].revents = {}
      /\ \A j \in (1..numpairs) \ {i} : fds'[j] = fds[j]
      /\ EventCountExact'
  BY <1>0, <1>1, NotifyEffect DEF RecvAgain, Events
<1>3. UNCHANGED <<state, sockfd, current_batch, inflight, parsed, num_commands,
                  replies, errors, error, position, limit, buffered,
                  pairs, executed>>
  BY DEF RecvAgain, connectionVars, batchVars
<1>4. OnlyPair(i)
  BY <1>2, <1>3 DEF OnlyPair, SameConnection, SameBatch
<1>5. SocketsOwned'
  BY <1>3 DEF SocketsOwned, ExecutionInv
<1>6. Accounted(c, b)'
  BY <1>1, <1>3 DEF Accounted, Buffer_remaining, Fresh
<1>7. Settled(c, b, fds[i])'
  BY <1>1, <1>2, <1>3 DEF Settled, Receiving, Buffer_remaining
<1>8. StepOf(i) /\ Started(i)' /\ PairOK(i)'
  BY <1>0, <1>1, <1>2, <1>3, <1>6, <1>7, DispatchGoesOn DEF Dispatching, RecvAgain
<1> QED
  BY <1>2, <1>4, <1>5, <1>8, StepKeepsInv

LEMMA ReadFailsKeeps ==
  ASSUME ExecutionInv, Ctl', NEW i, NEW c, NEW b, PairIs(i, c, b), ReadFails
  PROVE  ExecutionInv'
<1>0. /\ pc = "read" /\ state[c] # "ABORTED" /\ NextPair("dispatch")
      /\ Connection_abort(c, sockfd[c]) /\ sockfd[c] \in Fds \cup {0, -1}
      /\ UNCHANGED <<pairs, fds, numevents, executed>>
  BY PairIsType DEF ReadFails, Reading, executorVars
<1>1. /\ Started(i) /\ fds[i].revents = {} /\ poll_result = 1
      /\ numevents = Cardinality(Registered)
  BY <1>0, InRead
<1>2. /\ \A d \in Connections \ {c} : SameConnection(d)
      /\ \A a \in Batches \ {b} : SameBatch(a)
      /\ SocketsOwned'
      /\ state'[c] = "ABORTED" /\ num_commands'[b] = 0
      /\ Accounted(c, b)'
  BY <1>0, <1>1, AbortEffect
<1>3. OnlyPair(i)
  BY <1>0, <1>2 DEF OnlyPair, PairIs
<1>4. Settled(c, b, fds[i])'
  BY <1>0, <1>1, <1>2 DEF Settled
<1>5. StepOf(i) /\ Started(i)' /\ PairOK(i)'
  BY <1>0, <1>1, <1>2, <1>4, DispatchGoesOn DEF Dispatching
<1>6. EventCountExact'
  BY <1>0, <1>1, CountSame DEF EventCountExact
<1> QED
  BY <1>2, <1>3, <1>5, <1>6, StepKeepsInv

LEMMA ReadKeeps ==
  ASSUME ExecutionInv, Ctl', NEW i, NEW c, NEW b, PairIs(i, c, b), Read
  PROVE  ExecutionInv'
BY ReadEnds, ReadGoesOn, RecvAgainKeeps, ReadFailsKeeps DEF Read
=============================================================================
