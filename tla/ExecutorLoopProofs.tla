------------------------- MODULE ExecutorLoopProofs -------------------------
(***************************************************************************)
(* The rest of the proof that ExecutionInv is inductive: the start of an           *)
(* execution, the poll loop, the dispatch of its events and the calls of   *)
(* the application; then the theorems that follow from it, the last of     *)
(* which is that Executor implements BatchPromise.                         *)
(***************************************************************************)
EXTENDS ExecutorHandlerProofs

-----------------------------------------------------------------------------
(***************************************************************************)
(* Connection_execute_start.                                               *)
(***************************************************************************)

LEMMA ExecuteStartKeeps ==
  ASSUME ExecutionInv, Ctl', NEW i, NEW c, NEW b, PairIs(i, c, b), ExecuteStart
  PROVE  ExecutionInv'
<1>0. /\ i \in Nat /\ i \in 1..numpairs /\ c \in Connections /\ b \in Batches
      /\ Handled = c /\ pairs[ordinal].batch = b /\ pc = "start" /\ ordinal = i
      /\ c = pairs[i].connection /\ b = pairs[i].batch /\ PairOK(i)
      /\ state[c] \in States
  BY PairIsType DEF PairIs, ExecuteStart
<1>1. ~Started(i) /\ ReadyToStart(c, b, fds[i])
  <2>1. ~Started(i)
    BY <1>0 DEF Started
  <2> QED
    BY <1>0, <2>1 DEF PairOK
<1>2. \A j \in 1..numpairs : Started(j) =>
          pairs[j].connection # c /\ pairs[j].batch # b
  BY <1>0, <1>1 DEF ExecutionInv, PairsDistinct
<1>3. state[c] # "CONNECTING" /\ inflight[c] = 0
  BY <1>0, <1>2 DEF ExecutionInv, AtRest
<1>4. num_commands[b] > 0 /\ Fresh(b)
  BY <1>1 DEF ReadyToStart
<1>5. position[b] = num_commands[b] /\ buffered[b] = 0
  BY <1>0, <1>2, <1>4 DEF ExecutionInv, Unsent
<1>6. UNCHANGED <<sockfd, inflight, num_commands, replies, errors, error, buffered,
                  pairs, fds, numevents, executed, ordinal, event, poll_result>>
  BY DEF ExecuteStart, executorVars
<1>7. /\ current_batch'[c] = b /\ parsed'[c] = 0
      /\ state'[c] = (IF state[c] = "ABORTED" THEN "CLOSED" ELSE state[c])
      /\ limit'[b] = position[b] /\ position'[b] = 0
  BY <1>0 DEF ExecuteStart, ExecutionInv, TypeOK, ConnectionTypeOK, BatchTypeOK
<1>8. \A d \in Connections \ {c} : SameConnection(d)
  BY <1>0 DEF ExecuteStart, SameConnection, ExecutionInv, TypeOK, ConnectionTypeOK
<1>9. \A a \in Batches \ {b} : SameBatch(a)
  BY <1>0 DEF ExecuteStart, SameBatch, ExecutionInv, TypeOK, BatchTypeOK
<1>10. OnlyPair(i)
  BY <1>0, <1>6, <1>8, <1>9 DEF OnlyPair
<1>11. pc' = "write" /\ caller' = "execute_start"
  BY DEF ExecuteStart
<1>12. StepOf(i) /\ Started(i)' /\ Current(i)'
  BY <1>0, <1>6, <1>11 DEF StepOf, Started, Current
<1>13. SocketsOwned'
  BY <1>0, <1>6, <1>7, <1>8 DEF SocketsOwned, SameConnection, ExecutionInv
<1>14. Accounted(c, b)'
  <2>1. ~error'[b]
    BY <1>4, <1>6 DEF Fresh
  <2>2. state'[c] # "ABORTED" /\ current_batch'[c] = b
    BY <1>7
  <2>3. errors'[b] = 0
    BY <1>0, <1>4, <1>6 DEF Fresh, ExecutionInv, TypeOK, BatchTypeOK
  <2>4. /\ position'[b] <= limit'[b] /\ parsed'[c] <= buffered'[b]
        /\ num_commands'[b] =
             (limit'[b] - position'[b]) + inflight'[c] + (buffered'[b] - parsed'[c])
    BY <1>0, <1>3, <1>5, <1>6, <1>7 DEF ExecutionInv, TypeOK, BatchTypeOK
  <2> QED
    BY <1>4, <1>6, <2>1, <2>2, <2>3, <2>4 DEF Accounted, Buffer_remaining
<1>15. Writing(c, b, fds[i])'
  BY <1>0, <1>1, <1>3, <1>6, <1>7, <1>11 DEF Writing, ReadyToStart, States
<1>16. PairOK(i)'
  BY <1>0, <1>6, <1>11, <1>12, <1>14, <1>15 DEF PairOK
<1>17. EventCountExact'
  BY <1>0, <1>6, CountSame DEF EventCountExact, ExecutionInv
<1> QED
  BY <1>10, <1>12, <1>13, <1>16, <1>17, StepKeepsInv

LEMMA KickOffReadingKeeps ==
  ASSUME ExecutionInv, Ctl', NEW i, NEW c, NEW b, PairIs(i, c, b), KickOffReading
  PROVE  ExecutionInv'
<1>0. /\ i \in Nat /\ i \in 1..numpairs /\ c \in Connections /\ b \in Batches
      /\ Handled = c /\ pc = "started" /\ ordinal = i /\ i \in 1..MaxPairs
      /\ c = pairs[i].connection /\ b = pairs[i].batch /\ PairOK(i)
      /\ fds[i] \in PollFd
  BY PairIsType DEF PairIs, KickOffReading
<1>1. Started(i) /\ Current(i) /\ Starting(c, b, fds[i]) /\ Accounted(c, b)
  <2>1. Started(i) /\ Current(i)
    BY <1>0 DEF Started, Current
  <2> QED
    BY <1>0, <2>1 DEF PairOK
<1>2. UNCHANGED <<state, sockfd, current_batch, inflight, parsed, num_commands,
                  replies, errors, error, position, limit, buffered,
                  pairs, executed>>
  BY DEF KickOffReading, connectionVars, batchVars
<1>3. /\ pc' = "start" /\ ordinal' = i + 1
      /\ UNCHANGED <<caller, event, poll_result>>
  BY <1>0 DEF KickOffReading, NextPair
<1>4. caller = "execute_start"
  BY <1>0 DEF ExecutionInv, ControlOK
<1>5. StepOf(i) /\ Started(i)'
  BY <1>0, <1>2, <1>3, <1>4 DEF StepOf, Started
<1>6. SocketsOwned'
  BY <1>2 DEF SocketsOwned, ExecutionInv
<1>7. Accounted(c, b)'
  BY <1>1, <1>2 DEF Accounted, Buffer_remaining, Fresh
<1>8. /\ Settled(c, b, fds[i])' /\ fds'[i].revents = {}
      /\ \A j \in (1..numpairs) \ {i} : fds'[j] = fds[j]
      /\ EventCountExact'
  <2>1. CASE state[c] = "CONNECTED"
    <3>1. /\ Executor_notify_event("READ", sockfd[c])
          /\ "READ" \notin fds[i].events /\ fds[i].revents = {}
          /\ numevents = Cardinality(Registered)
      BY <1>0, <1>1, <2>1 DEF KickOffReading, Starting, ExecutionInv, EventCountExact
    <3>2. /\ fds'[i].fd = sockfd[c]
          /\ fds'[i].events = fds[i].events \cup {"READ"}
          /\ fds'[i].revents = {}
          /\ \A j \in (1..numpairs) \ {i} : fds'[j] = fds[j]
          /\ EventCountExact'
      BY <1>0, <1>2, <1>3, <3>1, NotifyEffect DEF Events
    <3> QED
      BY <1>1, <1>2, <2>1, <3>2 DEF Settled, Starting, Buffer_remaining
  <2>2. CASE state[c] # "CONNECTED"
    <3>1. UNCHANGED <<fds, numevents>>
      BY <1>0, <2>2 DEF KickOffReading
    <3>2. EventCountExact'
      BY <1>0, <1>2, <3>1, CountSame DEF EventCountExact, ExecutionInv
    <3> QED
      BY <1>1, <1>2, <2>2, <3>1, <3>2 DEF Settled, Starting
  <2> QED
    BY <2>1, <2>2
<1>9. OnlyPair(i)
  BY <1>2, <1>8 DEF OnlyPair, SameConnection, SameBatch
<1>10. PairOK(i)'
  BY <1>0, <1>2, <1>3, <1>5, <1>7, <1>8 DEF PairOK, Current, Dispatching
<1> QED
  BY <1>5, <1>6, <1>8, <1>9, <1>10, StepKeepsInv

-----------------------------------------------------------------------------
(***************************************************************************)
(* The loop of Executor_execute.                                           *)
(***************************************************************************)

\* A step that leaves connections, batches and registered events alone.
LEMMA QuietKeeps ==
  ASSUME ExecutionInv, Ctl', pc # "idle", pc' # "idle",
         UNCHANGED <<connectionVars, batchVars, pairs, numevents, executed>>,
         \A i \in 1..numpairs :
            /\ Started(i)' <=> Started(i)
            /\ ~Current(i) /\ ~Current(i)'
            /\ fds'[i].fd = fds[i].fd /\ fds'[i].events = fds[i].events
            /\ Started(i) => fds'[i].revents \subseteq fds[i].events
            /\ ~Started(i) => fds'[i].revents = fds[i].revents
            /\ ~Dispatching' \/ i < ordinal' => fds'[i].revents = {}
            /\ poll_result' < 1 /\ (pc' = "loop" \/ (pc' = "dispatch" /\ i < ordinal'))
                  => num_commands[pairs[i].batch] = 0
  PROVE  ExecutionInv'
<1>1. UNCHANGED <<state, sockfd, current_batch, inflight, parsed, num_commands,
                  replies, errors, error, position, limit, buffered>>
  BY DEF connectionVars, batchVars
<1>2. numpairs' = numpairs
  BY DEF numpairs
<1>3. PairsDistinct' /\ SocketsOwned' /\ Begun'
  BY <1>1, <1>2 DEF ExecutionInv, PairsDistinct, SocketsOwned, Begun
<1>4. AtRest'
  BY <1>1, <1>2 DEF ExecutionInv, AtRest
<1>5. Unsent'
  BY <1>1, <1>2 DEF ExecutionInv, Unsent, Fresh
<1>6. EventCountExact'
  BY CountSame DEF ExecutionInv, EventCountExact
<1>7. ASSUME NEW i \in 1..numpairs PROVE PairOK(i)'
  <2> DEFINE c == pairs[i].connection
             b == pairs[i].batch
  <2>1. PairOK(i)
    BY DEF ExecutionInv
  <2>2. ReadyToStart(c, b, fds[i]) /\ ~Started(i) => ReadyToStart(c, b, fds[i])'
    BY <1>1 DEF ReadyToStart, Fresh
  <2>3. Accounted(c, b) => Accounted(c, b)'
    BY <1>1 DEF Accounted, Buffer_remaining, Fresh
  <2>4. Settled(c, b, fds[i]) /\ Started(i) => Settled(c, b, fds[i])'
    BY <1>1 DEF Settled, Buffer_remaining
  <2> QED
    BY <1>1, <2>1, <2>2, <2>3, <2>4 DEF PairOK
<1> QED
  BY <1>2, <1>3, <1>4, <1>5, <1>6, <1>7 DEF ExecutionInv, Ctl

\* A step that changes nothing but the clock, or nothing at all.
LEMMA ClockKeeps ==
  ASSUME ExecutionInv, Ctl', UNCHANGED <<connectionVars, batchVars, pairs, fds, numevents,
                                 executed, controlVars>>
  PROVE  ExecutionInv'
<1>1. UNCHANGED <<state, sockfd, current_batch, inflight, parsed, num_commands,
                  replies, errors, error, position, limit, buffered,
                  pc, caller, ordinal, event, poll_result>>
  BY DEF connectionVars, batchVars, controlVars
<1>2. numpairs' = numpairs
  BY DEF numpairs
<1>3. PairsDistinct' /\ SocketsOwned' /\ Begun'
  BY <1>1, <1>2 DEF ExecutionInv, PairsDistinct, SocketsOwned, Begun
<1>4. \A i : (Started(i)' <=> Started(i)) /\ (Current(i)' <=> Current(i))
  BY <1>1 DEF Started, Current
<1>5. AtRest' /\ Unsent'
  BY <1>1, <1>2, <1>4 DEF ExecutionInv, AtRest, Unsent, Fresh
<1>6. EventCountExact'
  BY <1>1, CountSame DEF ExecutionInv, EventCountExact
<1>7. ASSUME NEW i \in 1..numpairs PROVE PairOK(i)'
  <2> DEFINE c == pairs[i].connection
             b == pairs[i].batch
  <2>1. PairOK(i)
    BY DEF ExecutionInv
  <2>2. /\ ReadyToStart(c, b, fds[i]) => ReadyToStart(c, b, fds[i])'
        /\ Fresh(b)' <=> Fresh(b)
        /\ Dispatching' <=> Dispatching
    BY <1>1 DEF ReadyToStart, Fresh, Dispatching
  <2>3. Accounted(c, b) => Accounted(c, b)'
    BY <1>1 DEF Accounted, Buffer_remaining, Fresh
  <2>4. Settled(c, b, fds[i]) => Settled(c, b, fds[i])'
    BY <1>1 DEF Settled, Buffer_remaining
  <2>5. /\ Writing(c, b, fds[i]) => Writing(c, b, fds[i])'
        /\ Starting(c, b, fds[i]) => Starting(c, b, fds[i])'
        /\ Receiving(c, b, fds[i]) => Receiving(c, b, fds[i])'
    BY <1>1 DEF Writing, Starting, Receiving, Buffer_remaining
  <2> QED
    BY <1>1, <1>4, <2>1, <2>2, <2>3, <2>4, <2>5 DEF PairOK
<1> QED
  BY <1>2, <1>3, <1>5, <1>6, <1>7 DEF ExecutionInv, Ctl

LEMMA LoopKeeps ==
  ASSUME ExecutionInv, Ctl', \/ AllStarted \/ ForceTimeout \/ CallPoll \/ PollTimeout
                     \/ Wake \/ AllDispatched
  PROVE  ExecutionInv'
<1>0. /\ pc # "idle" /\ pc' # "idle"
      /\ UNCHANGED <<connectionVars, batchVars, pairs, numevents, executed>>
      /\ pc \in {"start", "dispatch", "loop", "poll"}
      /\ pc' \in {"dispatch", "loop", "poll"}
      /\ pc \in {"start", "dispatch"} => ordinal > numpairs
  BY DEF AllStarted, ForceTimeout, CallPoll, PollTimeout, Wake, PollReady,
         PollError, AllDispatched, executorVars
<1>1. ASSUME NEW i \in 1..numpairs
      PROVE  /\ i \in Nat
             /\ Started(i) /\ Started(i)' /\ ~Current(i) /\ ~Current(i)'
             /\ PairOK(i) /\ Settled(pairs[i].connection, pairs[i].batch, fds[i])
             /\ fds[i].revents = {}
  <2>1. numpairs \in Nat /\ i \in Nat /\ ordinal \in Nat
    BY BoundsAssumption
    DEF ExecutionInv, TypeOK, ExecutorTypeOK, ControlTypeOK, numpairs
  <2>2. Started(i) /\ Started(i)' /\ ~Current(i) /\ ~Current(i)'
    BY <1>0, <2>1 DEF Started, Current
  <2>3. ~Dispatching \/ i < ordinal
    BY <1>0, <2>1 DEF Dispatching
  <2> QED
    BY <2>1, <2>2, <2>3 DEF ExecutionInv, PairOK
<1>2. CASE AllStarted \/ CallPoll \/ AllDispatched
  <2>1. UNCHANGED fds /\ pc' \in {"loop", "poll"}
    BY <1>2 DEF AllStarted, CallPoll, AllDispatched, executorVars
  <2>2. ASSUME NEW i \in 1..numpairs, poll_result' < 1, pc' = "loop"
        PROVE  num_commands[pairs[i].batch] = 0
    <3>1. pc = "dispatch" /\ poll_result < 1 /\ ordinal > numpairs
      BY <1>2, <2>2 DEF AllStarted, CallPoll, AllDispatched
    <3>2. i < ordinal
      BY <1>1, <3>1, BoundsAssumption
      DEF ExecutionInv, TypeOK, ExecutorTypeOK, ControlTypeOK, numpairs
    <3> QED
      BY <1>1, <3>1, <3>2 DEF PairOK
  <2>3. \A i \in 1..numpairs :
          /\ Started(i)' <=> Started(i)
          /\ ~Current(i) /\ ~Current(i)'
          /\ fds'[i] = fds[i] /\ fds[i].revents = {}
          /\ poll_result' < 1 /\ pc' = "loop" => num_commands[pairs[i].batch] = 0
    BY <1>1, <2>1, <2>2
  <2> QED
    BY <1>0, <2>1, <2>3, QuietKeeps
<1>3. CASE ForceTimeout \/ PollTimeout \/ PollError
  <2>1. UNCHANGED fds /\ pc' = "dispatch" /\ ordinal' = 1
    BY <1>3 DEF ForceTimeout, PollTimeout, PollError, executorVars
  <2>2. \A i \in 1..numpairs : ~(i < ordinal')
    BY <1>1, <2>1
  <2> QED
    BY <1>0, <1>1, <2>1, <2>2, QuietKeeps
<1>4. ASSUME NEW ready \in [1..numpairs -> SUBSET Events], PollReady(ready)
      PROVE  ExecutionInv'
  <2>1. ASSUME NEW i \in 1..numpairs
        PROVE  /\ fds'[i].fd = fds[i].fd /\ fds'[i].events = fds[i].events
               /\ fds'[i].revents \subseteq fds[i].events
    <3>1. i \in 1..MaxPairs
      BY BoundsAssumption DEF ExecutionInv, TypeOK, ExecutorTypeOK, numpairs
    <3>2. fds'[i] = [fd |-> fds[i].fd, events |-> fds[i].events,
                     revents |-> ready[i]]
      BY <1>4, <3>1 DEF PollReady
    <3>3. ready[i] \subseteq fds[i].events
      BY <1>4 DEF PollReady
    <3> QED
      BY <3>2, <3>3
  <2>2. pc' = "dispatch" /\ ordinal' = 1
    BY <1>4 DEF PollReady
  <2>3. \A i \in 1..numpairs : ~(i < ordinal')
    BY <1>1, <2>2
  <2>4. Dispatching'
    BY <2>2 DEF Dispatching
  <2> QED
    BY <1>0, <1>1, <2>1, <2>2, <2>3, <2>4, QuietKeeps
<1> QED
  BY <1>2, <1>3, <1>4 DEF Wake

-----------------------------------------------------------------------------
(***************************************************************************)
(* Dispatching the events of one pair.                                     *)
(***************************************************************************)

LEMMA InDispatch ==
  ASSUME ExecutionInv, NEW i, NEW c, NEW b, PairIs(i, c, b), pc = "dispatch", TakeFired
  PROVE  /\ Started(i) /\ Accounted(c, b) /\ Settled(c, b, fds[i])
         /\ fds[i].revents \subseteq fds[i].events /\ fds[i].events \subseteq Events
         /\ fds'[i].fd = fds[i].fd
         /\ fds'[i].events = fds[i].events \ fds[i].revents
         /\ fds'[i].revents = {}
         /\ \A j \in (1..numpairs) \ {i} : fds'[j] = fds[j]
         /\ UNCHANGED <<pairs, executed>>
<1>1. /\ i \in Nat /\ i = ordinal /\ i \in 1..numpairs /\ i \in 1..MaxPairs
      /\ fds[i] \in PollFd /\ PairOK(i)
      /\ c = pairs[i].connection /\ b = pairs[i].batch
  BY PairIsType DEF PairIs
<1>2. Started(i) /\ ~Current(i)
  BY <1>1 DEF Started, Current
<1>3. Accounted(c, b) /\ Settled(c, b, fds[i])
  BY <1>1, <1>2 DEF PairOK
<1>4. fds'[i] = [fd |-> fds[i].fd, events |-> fds[i].events \ fds[i].revents,
                 revents |-> {}]
  BY <1>1 DEF TakeFired, ExecutionInv, TypeOK, ExecutorTypeOK
<1>5. \A j \in (1..numpairs) \ {i} : fds'[j] = fds[j]
  BY <1>1 DEF TakeFired, ExecutionInv, TypeOK, ExecutorTypeOK, numpairs
<1>6. fds[i].revents \subseteq fds[i].events /\ fds[i].events \subseteq Events
  BY <1>1, <1>3 DEF Settled, PollFd
<1>7. UNCHANGED <<pairs, executed>>
  BY DEF TakeFired
<1> QED
  BY <1>2, <1>3, <1>4, <1>5, <1>6, <1>7

LEMMA TakeFiredCounts ==
  ASSUME ExecutionInv, NEW i, NEW c, NEW b, PairIs(i, c, b), pc = "dispatch", TakeFired
  PROVE  EventCountExact'
<1>1. i = ordinal /\ i \in 1..numpairs /\ numevents = Cardinality(Registered)
  BY DEF PairIs, ExecutionInv, EventCountExact
<1>2. fds[i].revents \in SUBSET Events
  BY InDispatch
<1>3. Cardinality(Registered') = Cardinality(Registered) - Cardinality(fds[i].revents)
  BY <1>1, <1>2, InDispatch, CountTake DEF ExecutionInv
<1>4. numevents' = numevents - Cardinality(fds[i].revents)
  BY <1>1 DEF TakeFired
<1> QED
  BY <1>1, <1>3, <1>4 DEF EventCountExact

LEMMA DispatchNothingKeeps ==
  ASSUME ExecutionInv, Ctl', NEW i, NEW c, NEW b, PairIs(i, c, b), DispatchNothing
  PROVE  ExecutionInv'
<1>0. /\ pc = "dispatch" /\ TakeFired /\ NextPair("dispatch") /\ ~MustHandle
      /\ UNCHANGED <<connectionVars, batchVars>>
      /\ i = ordinal /\ b = pairs[i].batch /\ Handled = c
      /\ num_commands[b] \in Nat
  BY PairIsType DEF DispatchNothing, PairIs, ExecutionInv, TypeOK, BatchTypeOK
<1>1. /\ Started(i) /\ Accounted(c, b) /\ Settled(c, b, fds[i])
      /\ fds'[i].fd = fds[i].fd
      /\ fds'[i].events = fds[i].events \ fds[i].revents
      /\ fds'[i].revents = {}
      /\ \A j \in (1..numpairs) \ {i} : fds'[j] = fds[j]
      /\ UNCHANGED <<pairs, executed>>
  BY <1>0, InDispatch
<1>2. num_commands[b] = 0 \/ (fds[i].revents = {} /\ ~(poll_result < 1))
  BY <1>0, <1>1 DEF MustHandle, Batch_has_command, Accounted
<1>3. UNCHANGED <<state, sockfd, current_batch, inflight, parsed, num_commands,
                  replies, errors, error, position, limit, buffered>>
  BY <1>0 DEF connectionVars, batchVars
<1>4. OnlyPair(i)
  BY <1>0, <1>1, <1>3 DEF OnlyPair, SameConnection, SameBatch
<1>5. SocketsOwned'
  BY <1>3 DEF SocketsOwned, ExecutionInv
<1>6. Accounted(c, b)'
  BY <1>1, <1>3 DEF Accounted, Buffer_remaining, Fresh
<1>7. Settled(c, b, fds[i])'
  BY <1>1, <1>2, <1>3 DEF Settled, Buffer_remaining
<1>8. StepOf(i) /\ Started(i)' /\ PairOK(i)'
  BY <1>0, <1>1, <1>2, <1>3, <1>6, <1>7, DispatchGoesOn DEF Dispatching
<1> QED
  BY <1>0, <1>4, <1>5, <1>8, TakeFiredCounts, StepKeepsInv

LEMMA DispatchAbortKeeps ==
  ASSUME ExecutionInv, Ctl', NEW i, NEW c, NEW b, PairIs(i, c, b), DispatchAbort
  PROVE  ExecutionInv'
<1>0. /\ pc = "dispatch" /\ TakeFired /\ NextPair("dispatch")
      /\ state[c] # "ABORTED" /\ Connection_abort(c, sockfd[c])
      /\ sockfd[c] \in Fds \cup {0, -1}
  BY PairIsType DEF DispatchAbort, MustHandle
<1>1. /\ Started(i)
      /\ fds'[i].revents = {}
      /\ \A j \in (1..numpairs) \ {i} : fds'[j] = fds[j]
      /\ UNCHANGED <<pairs, executed>>
  BY <1>0, InDispatch
<1>2. /\ \A d \in Connections \ {c} : SameConnection(d)
      /\ \A a \in Batches \ {b} : SameBatch(a)
      /\ SocketsOwned'
      /\ state'[c] = "ABORTED" /\ num_commands'[b] = 0
      /\ Accounted(c, b)'
  BY <1>0, <1>1, AbortEffect
<1>3. OnlyPair(i)
  BY <1>1, <1>2 DEF OnlyPair, PairIs
<1>4. Settled(c, b, fds[i])'
  BY <1>1, <1>2 DEF Settled
<1>5. StepOf(i) /\ Started(i)' /\ PairOK(i)'
  BY <1>0, <1>1, <1>2, <1>4, DispatchGoesOn DEF Dispatching
<1> QED
  BY <1>0, <1>2, <1>3, <1>5, TakeFiredCounts, StepKeepsInv

LEMMA DispatchEventsKeeps ==
  ASSUME ExecutionInv, Ctl', NEW i, NEW c, NEW b, PairIs(i, c, b), DispatchEvents
  PROVE  ExecutionInv'
<1>0. /\ pc = "dispatch" /\ TakeFired /\ MustHandle /\ poll_result = 1
      /\ UNCHANGED <<connectionVars, batchVars, ordinal, poll_result>>
      /\ event' = fds[i].revents /\ caller' = "handle_event"
      /\ pc' = (IF "WRITE" \in fds[i].revents THEN "write" ELSE "read")
      /\ i \in Nat /\ i = ordinal /\ i \in 1..numpairs
      /\ c = pairs[i].connection /\ b = pairs[i].batch /\ Handled = c
      /\ state[c] \in States
  BY PairIsType DEF DispatchEvents, PairIs
<1>1. /\ Started(i) /\ Accounted(c, b) /\ Settled(c, b, fds[i])
      /\ fds[i].revents \subseteq fds[i].events /\ fds[i].events \subseteq Events
      /\ fds'[i].fd = fds[i].fd
      /\ fds'[i].events = fds[i].events \ fds[i].revents
      /\ fds'[i].revents = {}
      /\ \A j \in (1..numpairs) \ {i} : fds'[j] = fds[j]
      /\ UNCHANGED <<pairs, executed>>
  BY <1>0, InDispatch
<1>2. /\ fds[i].revents # {} /\ num_commands[b] > 0
      /\ state[c] \in {"CONNECTING", "CONNECTED"}
      /\ fds[i].fd = sockfd[c]
  BY <1>0, <1>1 DEF MustHandle, Batch_has_command, Settled, States
<1>3. UNCHANGED <<state, sockfd, current_batch, inflight, parsed, num_commands,
                  replies, errors, error, position, limit, buffered>>
  BY <1>0 DEF connectionVars, batchVars
<1>4. OnlyPair(i)
  BY <1>0, <1>1, <1>3 DEF OnlyPair, SameConnection, SameBatch
<1>5. SocketsOwned'
  BY <1>3 DEF SocketsOwned, ExecutionInv
<1>6. Accounted(c, b)'
  BY <1>1, <1>3 DEF Accounted, Buffer_remaining, Fresh
<1>7. StepOf(i) /\ Started(i)' /\ Current(i)'
  BY <1>0, <1>1 DEF StepOf, Started, Current, Dispatching
<1>8. pc' = "write" => Writing(c, b, fds[i])'
  BY <1>0, <1>1, <1>2, <1>3 DEF Writing, Settled, Events
<1>9. pc' = "read" => Receiving(c, b, fds[i])'
  BY <1>0, <1>1, <1>2, <1>3 DEF Receiving, Settled, Events, Buffer_remaining
<1>10. PairOK(i)'
  BY <1>0, <1>1, <1>6, <1>7, <1>8, <1>9 DEF PairOK
<1> QED
  BY <1>0, <1>4, <1>5, <1>7, <1>10, TakeFiredCounts, StepKeepsInv

-----------------------------------------------------------------------------
(***************************************************************************)
(* The end of the call.  This is the heart of the matter: the loop stops   *)
(* when no event is left or poll() timed out or failed, and either way no  *)
(* pair can still have an unanswered command.                              *)
(***************************************************************************)

LEMMA NothingRegistered ==
  ASSUME ExecutionInv, pc # "idle", ~(numevents > 0)
  PROVE  \A i \in 1..numpairs : fds[i].events = {}
<1>1. numevents = Cardinality(Registered)
  BY DEF ExecutionInv, EventCountExact
<1>2. Registered = {}
  BY <1>1, RegisteredFinite, FS_EmptySet DEF ExecutionInv
<1>3. ASSUME NEW i \in 1..numpairs PROVE fds[i] \in PollFd
  BY BoundsAssumption DEF ExecutionInv, TypeOK, ExecutorTypeOK, numpairs
<1>4. ASSUME NEW i \in 1..numpairs, NEW e \in fds[i].events PROVE FALSE
  <2>1. e \in Events
    BY <1>3, <1>4 DEF PollFd
  <2>2. <<i, e>> \in Registered
    BY <1>4, <2>1 DEF Registered
  <2> QED
    BY <1>2, <2>2
<1> QED
  BY <1>4

LEMMA NothingLeft ==
  ASSUME NEW lim \in Nat, NEW pos \in Nat, NEW buf \in Nat, NEW par \in Nat,
         NEW k \in Nat, pos <= lim, par <= buf, 0 = (lim - pos) + k + (buf - par)
  PROVE  k = 0
OBVIOUS

LEMMA AllAnsweredAtEnd ==
  ASSUME ExecutionInv, pc = "loop", ~MustPoll, NEW i \in 1..numpairs
  PROVE  LET c == pairs[i].connection
             b == pairs[i].batch
         IN /\ c \in Connections /\ b \in Batches
            /\ num_commands[b] = 0 /\ ~Fresh(b) /\ inflight[c] = 0
            /\ state[c] = (IF error[b] THEN "ABORTED" ELSE "CONNECTED")
<1> DEFINE c == pairs[i].connection
           b == pairs[i].batch
<1>0. c \in Connections /\ b \in Batches
  <2>1. pairs[i] \in Pair
    BY DEF ExecutionInv, TypeOK, ExecutorTypeOK, numpairs
  <2> QED
    BY <2>1 DEF Pair
<1> DEFINE pfd == fds[i]
<1>1. Accounted(c, b) /\ Settled(c, b, pfd) /\ (poll_result < 1 => num_commands[b] = 0)
  BY DEF ExecutionInv, PairOK, Started, Current
<1>2. num_commands[b] \in Nat /\ state[c] \in States /\ poll_result \in {1, 0, -1}
      /\ numevents \in Int
  BY <1>0 DEF ExecutionInv, TypeOK, BatchTypeOK, ConnectionTypeOK, ControlTypeOK,
              ExecutorTypeOK
<1>3. num_commands[b] = 0
  <2>1. CASE poll_result < 1
    BY <1>1, <2>1
  <2>2. CASE ~(numevents > 0)
    <3>1. pfd.events = {}
      BY <2>2, NothingRegistered
    <3> QED
      BY <1>1, <1>2, <3>1 DEF Settled, Accounted, States
  <2> QED
    BY <1>2, <2>1, <2>2 DEF MustPoll
<1>4. state[c] \in {"CONNECTED", "ABORTED"}
  BY <1>1, <1>2, <1>3 DEF Settled, States
<1>5. CASE state[c] = "ABORTED"
  BY <1>0, <1>1, <1>3, <1>5 DEF Accounted, Fresh
<1>6. CASE state[c] = "CONNECTED"
  <2>1. ~error[b]
    BY <1>1, <1>6 DEF Accounted
  <2>2. inflight[c] = 0
    <3>1. /\ limit[b] \in Nat /\ position[b] \in Nat /\ inflight[c] \in Nat
          /\ parsed[c] \in Nat /\ buffered[b] \in Nat
      BY <1>0 DEF ExecutionInv, TypeOK, BatchTypeOK, ConnectionTypeOK
    <3>2. /\ position[b] <= limit[b] /\ parsed[c] <= buffered[b]
          /\ 0 = (limit[b] - position[b]) + inflight[c] + (buffered[b] - parsed[c])
      BY <1>1, <1>3, <1>6 DEF Accounted, Buffer_remaining
    <3> HIDE DEF c, b
    <3> QED
      BY <3>1, <3>2, NothingLeft
  <2>3. ~Fresh(b)
    BY <1>1, <1>3 DEF Accounted
  <2> QED
    BY <1>0, <1>3, <1>6, <2>1, <2>2, <2>3
<1> QED
  BY <1>4, <1>5, <1>6

LEMMA ExecuteReturnsKeeps ==
  ASSUME ExecutionInv, Ctl', ExecuteReturns
  PROVE  ExecutionInv'
<1>0. /\ pc = "loop" /\ pc' = "idle" /\ ~MustPoll /\ executed
      /\ UNCHANGED <<pairs, fds, numevents, executed>>
      /\ numpairs' = numpairs
  BY DEF ExecuteReturns, ExecutionInv, Begun, numpairs
<1>1. UNCHANGED <<state, sockfd, current_batch, inflight, parsed, num_commands,
                  replies, errors, error, position, limit, buffered>>
  BY DEF ExecuteReturns, connectionVars, batchVars
<1>2. PairsDistinct' /\ SocketsOwned'
  BY <1>0, <1>1 DEF ExecutionInv, PairsDistinct, SocketsOwned
<1>3. Begun' /\ EventCountExact'
  BY <1>0 DEF Begun, EventCountExact
<1>4. AtRest'
  <2> SUFFICES ASSUME NEW c \in Connections
               PROVE  state[c] # "CONNECTING" /\ inflight[c] = 0
    BY <1>1 DEF AtRest
  <2>1. CASE \E i \in 1..numpairs : pairs[i].connection = c
    BY <1>0, <2>1, AllAnsweredAtEnd
  <2>2. CASE ~\E i \in 1..numpairs : pairs[i].connection = c
    BY <2>2 DEF ExecutionInv, AtRest
  <2> QED
    BY <2>1, <2>2
<1>5. Unsent'
  <2> SUFFICES ASSUME NEW b \in Batches, Fresh(b)
               PROVE  position[b] = num_commands[b] /\ buffered[b] = 0
    BY <1>1 DEF Unsent, Fresh
  <2>1. \A i \in 1..numpairs : pairs[i].batch # b
    BY <1>0, AllAnsweredAtEnd
  <2> QED
    BY <2>1 DEF ExecutionInv, Unsent
<1>6. ASSUME NEW i \in 1..numpairs PROVE PairOK(i)'
  <2> DEFINE c == pairs[i].connection
             b == pairs[i].batch
  <2>1. /\ num_commands'[b] = 0 /\ ~Fresh(b)'
        /\ state'[c] = (IF error'[b] THEN "ABORTED" ELSE "CONNECTED")
    BY <1>0, <1>1, AllAnsweredAtEnd DEF Fresh
  <2>2. ~Started(i)' /\ ~Current(i)'
    BY <1>0 DEF Started, Current
  <2> QED
    BY <1>0, <2>1, <2>2 DEF PairOK
<1> QED
  BY <1>0, <1>2, <1>3, <1>4, <1>5, <1>6 DEF ExecutionInv, Ctl

-----------------------------------------------------------------------------
(***************************************************************************)
(* The application keeps to the documented use.                            *)
(***************************************************************************)

\* Between two executions no pair is being handled.
LEMMA Idle == pc = "idle" => \A i : ~Started(i) /\ ~Current(i)
BY DEF Started, Current

LEMMA PairType ==
  ASSUME TypeOK, NEW i \in 1..numpairs
  PROVE  /\ i \in 1..MaxPairs /\ pairs[i].connection \in Connections
         /\ pairs[i].batch \in Batches
<1>1. pairs[i] \in Pair /\ i \in 1..MaxPairs
  BY BoundsAssumption DEF TypeOK, ExecutorTypeOK, numpairs
<1> QED
  BY <1>1 DEF Pair

\* A call that touches one batch which no executed pair refers to.
LEMMA BatchCallKeeps ==
  ASSUME ExecutionInv, Ctl', Liberties = {}, NEW b \in Batches,
         Batch_write(b) \/ Batch_renew(b)
  PROVE  ExecutionInv'
<1>0. /\ pc = "idle" /\ pc' = "idle"
      /\ UNCHANGED <<pairs, fds, numevents, executed, state, sockfd, inflight>>
      /\ numpairs' = numpairs
  BY DEF Batch_write, Batch_renew, connectionVars, executorVars, controlVars, numpairs
<1>1. \A a \in Batches \ {b} : SameBatch(a)
  BY DEF Batch_write, Batch_renew, SameBatch, ExecutionInv, TypeOK, BatchTypeOK
<1>2. /\ PairsDistinct' /\ SocketsOwned' /\ Begun' /\ EventCountExact'
  BY <1>0 DEF ExecutionInv, PairsDistinct, SocketsOwned, Begun, EventCountExact
<1>3. AtRest'
  BY <1>0, Idle DEF ExecutionInv, AtRest, Started
<1>4. Fresh(b)' => position'[b] = num_commands'[b] /\ buffered'[b] = 0
  <2>1. CASE Batch_write(b)
    <3>1. Fresh(b)
      BY <2>1 DEF Batch_write
    <3>2. position[b] = num_commands[b] /\ buffered[b] = 0
      BY <1>0, <3>1, Idle DEF ExecutionInv, Unsent
    <3> QED
      BY <2>1, <3>2 DEF Batch_write, ExecutionInv, TypeOK, BatchTypeOK
  <2>2. CASE Batch_renew(b)
    BY <2>2 DEF Batch_renew, ExecutionInv, TypeOK, BatchTypeOK
  <2> QED
    BY <2>1, <2>2
<1>5. Unsent'
  <2> SUFFICES ASSUME NEW a \in Batches, Fresh(a)'
               PROVE  position'[a] = num_commands'[a] /\ buffered'[a] = 0
    BY DEF Unsent
  <2>1. CASE a = b
    BY <1>4, <2>1
  <2>2. CASE a # b
    BY <1>0, <1>1, <2>2, Idle DEF ExecutionInv, Unsent, SameBatch, Fresh
  <2> QED
    BY <2>1, <2>2
<1>6. ASSUME NEW i \in 1..numpairs PROVE PairOK(i)'
  <2>1. PairOK(i)
    BY DEF ExecutionInv
  <2>2. ~Started(i)' /\ ~Current(i)'
    BY <1>0 DEF Started, Current
  <2>3. CASE ~executed
    BY <1>0, <2>1, <2>2, <2>3 DEF PairOK
  <2>4. CASE executed
    <3>1. pairs[i].batch \in Batches \ {b}
      BY <1>0, <2>1, <2>4, PairType
      DEF Batch_write, Batch_renew, PairOK, ExecutionInv
    <3>2. SameBatch(pairs[i].batch)
      BY <1>1, <3>1
    <3> QED
      BY <1>0, <2>1, <2>2, <2>4, <3>2 DEF PairOK, SameBatch, Fresh
  <2> QED
    BY <2>3, <2>4
<1> QED
  BY <1>0, <1>2, <1>3, <1>5, <1>6 DEF ExecutionInv, Ctl

LEMMA ConnectionRenewKeeps ==
  ASSUME ExecutionInv, Ctl', NEW c \in Connections, Connection_renew(c)
  PROVE  ExecutionInv'
<1>0. /\ pc = "idle" /\ pc' = "idle"
      /\ UNCHANGED <<pairs, fds, numevents, executed, num_commands, replies, errors,
                     error, position, limit, buffered>>
      /\ numpairs' = numpairs
  BY DEF Connection_renew, batchVars, executorVars, controlVars, numpairs
<1>1. \A d \in Connections \ {c} : SameConnection(d)
  BY DEF Connection_renew, SameConnection, ExecutionInv, TypeOK, ConnectionTypeOK
<1>2. state'[c] = "CLOSED" /\ sockfd'[c] = 0 /\ inflight'[c] = 0
  BY DEF Connection_renew, ExecutionInv, TypeOK, ConnectionTypeOK
<1>3. PairsDistinct' /\ Begun' /\ EventCountExact'
  BY <1>0 DEF ExecutionInv, PairsDistinct, Begun, EventCountExact
<1>4. SocketsOwned'
  BY <1>1, <1>2, FdsAssumption DEF ExecutionInv, SocketsOwned, SameConnection
<1>5. AtRest'
  <2> SUFFICES ASSUME NEW d \in Connections
               PROVE  state'[d] # "CONNECTING" /\ inflight'[d] = 0
    BY DEF AtRest
  <2>1. CASE d = c
    BY <1>2, <2>1
  <2>2. CASE d # c
    BY <1>0, <1>1, <2>2, Idle DEF ExecutionInv, AtRest, SameConnection
  <2> QED
    BY <2>1, <2>2
<1>6. Unsent'
  BY <1>0, Idle DEF ExecutionInv, Unsent, Started, Fresh
<1>7. ASSUME NEW i \in 1..numpairs PROVE PairOK(i)'
  <2>1. PairOK(i)
    BY DEF ExecutionInv
  <2>2. ~Started(i)' /\ ~Current(i)'
    BY <1>0 DEF Started, Current
  <2>3. pairs[i].connection \in Connections \ {c}
    BY <1>0, PairType DEF Connection_renew, ExecutionInv
  <2>4. SameConnection(pairs[i].connection)
    BY <1>1, <2>3
  <2> QED
    BY <1>0, <2>1, <2>2, <2>4 DEF PairOK, SameConnection, Fresh
<1> QED
  BY <1>0, <1>3, <1>4, <1>5, <1>6, <1>7 DEF ExecutionInv, Ctl

\* The calls on an executor leave every connection and every batch alone.
LEMMA ExecutorCallKeeps ==
  ASSUME ExecutionInv, Ctl', pc = "idle", UNCHANGED <<connectionVars, batchVars>>,
         \A i : ~Started(i)', PairsDistinct', Begun', EventCountExact',
         \A i \in 1..numpairs' : PairOK(i)'
  PROVE  ExecutionInv'
<1>1. UNCHANGED <<state, sockfd, current_batch, inflight, parsed, num_commands,
                  replies, errors, error, position, limit, buffered>>
  BY DEF connectionVars, batchVars
<1>2. SocketsOwned'
  BY <1>1 DEF ExecutionInv, SocketsOwned
<1>3. AtRest'
  BY <1>1, Idle DEF ExecutionInv, AtRest
<1>4. Unsent'
  BY <1>1, Idle DEF ExecutionInv, Unsent, Fresh
<1> QED
  BY <1>2, <1>3, <1>4 DEF ExecutionInv, Ctl

LEMMA ExecutorNewKeeps ==
  ASSUME ExecutionInv, Ctl', Executor_new
  PROVE  ExecutionInv'
<1>1. /\ pc = "idle" /\ pc' = "idle" /\ numpairs' = 0
      /\ UNCHANGED <<connectionVars, batchVars>>
  BY DEF Executor_new, controlVars, numpairs
<1>2. \A i : ~Started(i)'
  BY <1>1 DEF Started
<1>3. PairsDistinct' /\ Begun' /\ EventCountExact'
  BY <1>1 DEF PairsDistinct, Begun, EventCountExact
<1> QED
  BY <1>1, <1>2, <1>3, ExecutorCallKeeps

LEMMA ExecutorAddKeeps ==
  ASSUME ExecutionInv, Ctl', Liberties = {}, NEW c \in Connections, NEW b \in Batches,
         Executor_add(c, b)
  PROVE  ExecutionInv'
<1> DEFINE n == numpairs + 1
           p == [connection |-> c, batch |-> b]
<1>1. /\ pc = "idle" /\ pc' = "idle" /\ ~executed /\ ~executed'
      /\ UNCHANGED <<connectionVars, batchVars>>
  BY DEF Executor_add, controlVars
<1>2. numpairs \in Nat /\ n \in 1..MaxPairs
  BY BoundsAssumption DEF Executor_add, ExecutionInv, TypeOK, ExecutorTypeOK, numpairs
<1>3. /\ numpairs' = n /\ pairs'[n] = p
      /\ \A i \in 1..numpairs : pairs'[i] = pairs[i]
  BY DEF Executor_add, ExecutionInv, TypeOK, ExecutorTypeOK, numpairs, Pair
<1>4. /\ fds'[n] = NoPollFd
      /\ \A i \in 1..numpairs : fds'[i] = fds[i]
  BY <1>2 DEF Executor_add, ExecutionInv, TypeOK, ExecutorTypeOK
<1>5. \A i : ~Started(i)' /\ ~Current(i)'
  BY <1>1 DEF Started, Current
<1>6. \A i \in 1..numpairs : pairs[i].batch # b /\ pairs[i].connection # c
  BY DEF Executor_add
<1>7. PairsDistinct'
  <2> SUFFICES ASSUME NEW i \in 1..n, NEW j \in 1..n, i # j
               PROVE  /\ pairs'[i].connection # pairs'[j].connection
                      /\ pairs'[i].batch # pairs'[j].batch
    BY <1>3 DEF PairsDistinct
  <2>1. CASE i # n /\ j # n
    <3>1. i \in 1..numpairs /\ j \in 1..numpairs
      BY <1>2, <2>1
    <3> QED
      BY <1>3, <3>1 DEF ExecutionInv, PairsDistinct
  <2>2. CASE i = n
    <3>1. j \in 1..numpairs
      BY <1>2, <2>2
    <3> QED
      BY <1>3, <1>6, <2>2, <3>1
  <2>3. CASE j = n
    <3>1. i \in 1..numpairs
      BY <1>2, <2>3
    <3> QED
      BY <1>3, <1>6, <2>3, <3>1
  <2> QED
    BY <2>1, <2>2, <2>3
<1>8. Begun' /\ EventCountExact'
  BY <1>1 DEF Begun, EventCountExact
<1>9. ASSUME NEW i \in 1..numpairs' PROVE PairOK(i)'
  <2>1. fds'[i].events = {} /\ fds'[i].revents = {}
    <3>1. CASE i = n
      BY <1>4, <3>1 DEF NoPollFd
    <3>2. CASE i # n
      <4>1. i \in 1..numpairs
        BY <1>2, <1>3, <3>2
      <4> QED
        BY <1>1, <1>4, <4>1 DEF ExecutionInv, PairOK
    <3> QED
      BY <3>1, <3>2
  <2> QED
    BY <1>1, <1>5, <2>1 DEF PairOK
<1> QED
  BY <1>1, <1>5, <1>7, <1>8, <1>9, ExecutorCallKeeps

LEMMA ExecutorExecuteKeeps ==
  ASSUME ExecutionInv, Ctl', Liberties = {}, NEW timeout_ms \in 0..MaxTimeout,
         Executor_execute(timeout_ms)
  PROVE  ExecutionInv'
<1>1. /\ pc = "idle" /\ pc' = "start" /\ ordinal' = 1 /\ ~executed /\ executed'
      /\ UNCHANGED <<connectionVars, batchVars, pairs, fds>>
      /\ numevents' = 0 /\ numpairs' = numpairs
      /\ \A i \in 1..numpairs : num_commands[pairs[i].batch] > 0 /\ Fresh(pairs[i].batch)
  BY DEF Executor_execute, Batch_has_command, numpairs
<1>2. numpairs \in Nat
  BY DEF ExecutionInv, TypeOK, ExecutorTypeOK, numpairs
<1>3. ASSUME NEW i \in 1..numpairs PROVE ~Started(i)' /\ ~Current(i)'
  BY <1>1, <1>2 DEF Started, Current
<1>4. ASSUME NEW i \in 1..numpairs PROVE fds[i].events = {} /\ fds[i].revents = {}
  BY <1>1 DEF ExecutionInv, PairOK
<1>5. UNCHANGED <<state, sockfd, current_batch, inflight, parsed, num_commands,
                  replies, errors, error, position, limit, buffered>>
  BY <1>1 DEF connectionVars, batchVars
<1>6. PairsDistinct' /\ SocketsOwned' /\ Begun'
  BY <1>1, <1>5 DEF ExecutionInv, PairsDistinct, SocketsOwned, Begun
<1>7. AtRest' /\ Unsent'
  BY <1>1, <1>3, <1>5, Idle DEF ExecutionInv, AtRest, Unsent, Fresh
<1>8. EventCountExact'
  <2>1. Registered' = {}
    BY <1>1, <1>4 DEF Registered
  <2> QED
    BY <1>1, <2>1, FS_EmptySet DEF EventCountExact
<1>9. ASSUME NEW i \in 1..numpairs PROVE PairOK(i)'
  <2>1. ReadyToStart(pairs[i].connection, pairs[i].batch, fds[i])'
    BY <1>1, <1>4, <1>5 DEF ReadyToStart, Fresh
  <2> QED
    BY <1>1, <1>3, <2>1 DEF PairOK
<1> QED
  BY <1>1, <1>6, <1>7, <1>8, <1>9 DEF ExecutionInv, Ctl

-----------------------------------------------------------------------------
(***************************************************************************)
(* The invariant, and what follows from it.                                *)
(***************************************************************************)

LEMMA InvInit == Init => ExecutionInv
<1> SUFFICES ASSUME Init PROVE ExecutionInv
  OBVIOUS
<1>1. TypeOK /\ ControlOK
  BY TypeInit DEF Ctl
<1>2. numpairs = 0 /\ pc = "idle"
  BY DEF Init, numpairs
<1>3. Begun /\ PairsDistinct /\ EventCountExact
  BY <1>2 DEF Begun, PairsDistinct, EventCountExact
<1>4. AtRest
  BY DEF Init, AtRest
<1>5. SocketsOwned
  BY FdsAssumption DEF Init, SocketsOwned
<1>6. Unsent
  BY DEF Init, Unsent
<1> QED
  BY <1>1, <1>2, <1>3, <1>4, <1>5, <1>6 DEF ExecutionInv

LEMMA InvNext ==
  ASSUME Liberties = {}
  PROVE  ExecutionInv /\ [Next]_vars => ExecutionInv'
<1> SUFFICES ASSUME ExecutionInv, [Next]_vars PROVE ExecutionInv'
  OBVIOUS
<1>1. Ctl'
  BY TypeNext DEF ExecutionInv, Ctl
<1>2. CASE Application
  BY <1>1, <1>2, BatchCallKeeps, ConnectionRenewKeeps, ExecutorNewKeeps,
     ExecutorAddKeeps, ExecutorExecuteKeeps DEF Application
<1>3. CASE ExecuteStart \/ KickOffReading \/ Write \/ Read
           \/ DispatchNothing \/ DispatchAbort \/ DispatchEvents
  <2>1. ordinal \in 1..numpairs
    <3>1. ordinal <= numpairs
      BY <1>3 DEF ExecuteStart, KickOffReading, DispatchNothing, DispatchAbort,
        DispatchEvents, Write, ConnectFails, ConnectInProgress, ConnectImmediate,
        ConnectRefused, ConnectCompleted, Send, SendAgain, SendFails, AllSent,
        Read, ReadAborted, AllAnswered, AddReply, Recv, RecvAgain, ReadFails,
        Reading, ExecutionInv, ControlOK
    <3> QED
      BY <3>1, BoundsAssumption
      DEF ExecutionInv, TypeOK, ControlTypeOK, ExecutorTypeOK, numpairs
  <2> DEFINE c == pairs[ordinal].connection
             b == pairs[ordinal].batch
  <2>2. PairIs(ordinal, c, b)
    BY <2>1 DEF PairIs
  <2> HIDE DEF c, b
  <2> QED
    BY <1>1, <1>3, <2>2, ExecuteStartKeeps, KickOffReadingKeeps, WriteKeeps,
       ReadKeeps, DispatchNothingKeeps, DispatchAbortKeeps, DispatchEventsKeeps
<1>4. CASE AllStarted \/ ForceTimeout \/ CallPoll \/ PollTimeout \/ Wake
           \/ AllDispatched
  BY <1>1, <1>4, LoopKeeps
<1>5. CASE ExecuteReturns
  BY <1>1, <1>5, ExecuteReturnsKeeps
<1>6. CASE Tick \/ UNCHANGED vars
  BY <1>1, <1>6, ClockKeeps DEF Tick, vars, executorVars
<1> QED
  BY <1>2, <1>3, <1>4, <1>5, <1>6 DEF Next, Run

\* The connections, batches and pollfds of an executor stay as ExecutionInv says in
\* every phase of every execution, if the application keeps to the documented
\* use: it adds a connection and a batch to an executor once, with commands in
\* the batch, and executes both once.
THEOREM Invariance ==
  ASSUME Liberties = {}
  PROVE  Spec => []ExecutionInv
BY InvInit, InvNext, PTL DEF Spec

\* numevents counts the registered events, so the loop of Executor_execute does
\* not stop early and does not wait for an event that no pollfd asks for.
THEOREM EventCountCorrect ==
  ASSUME Liberties = {}
  PROVE  Spec => []EventCountExact
<1>1. ExecutionInv => EventCountExact
  BY DEF ExecutionInv
<1> QED
  BY <1>1, Invariance, PTL

\* Executor_execute returns with every command answered, by the server or by
\* an error reply, however many connections, batches, events and time there are.
THEOREM EveryCommandIsAnswered ==
  ASSUME Liberties = {}
  PROVE  Spec => []EveryCommandAnswered
<1>1. ExecutionInv => EveryCommandAnswered
  BY DEF ExecutionInv, PairOK, EveryCommandAnswered, Batch_has_command
<1> QED
  BY <1>1, Invariance, PTL

\* No descriptor is leaked or shared, whatever aborts a connection.
THEOREM SocketsAreOwned ==
  ASSUME Liberties = {}
  PROVE  Spec => []SocketsOwned
<1>1. ExecutionInv => SocketsOwned
  BY DEF ExecutionInv
<1> QED
  BY <1>1, Invariance, PTL

\* When poll() is called, every pair that waits for replies will be woken by
\* its own open socket, also to send the rest of its commands.
THEOREM NoWakeupIsLost ==
  ASSUME Liberties = {}
  PROVE  Spec => []NoLostWakeup
<1>1. ExecutionInv => NoLostWakeup
  <2> SUFFICES ASSUME ExecutionInv, pc \in {"loop", "poll"}, poll_result = 1,
                      NEW i \in 1..numpairs,
                      Batch_has_command(pairs[i].batch)
               PROVE  LET c == pairs[i].connection
                          b == pairs[i].batch
                      IN /\ current_batch[c] = b
                         /\ fds[i].fd = sockfd[c]
                         /\ sockfd[c] \in Fds
                         /\ \/ state[c] = "CONNECTING" /\ "WRITE" \in fds[i].events
                            \/ state[c] = "CONNECTED" /\ "READ" \in fds[i].events
                         /\ Buffer_remaining(b) > 0 => "WRITE" \in fds[i].events
    BY DEF NoLostWakeup
  <2> DEFINE c == pairs[i].connection
             b == pairs[i].batch
             pfd == fds[i]
  <2>1. c \in Connections /\ b \in Batches
    BY PairType DEF ExecutionInv
  <2>2. Accounted(c, b) /\ Settled(c, b, pfd)
    BY DEF ExecutionInv, PairOK, Started, Current
  <2>3. num_commands[b] > 0 /\ state[c] \in States
    BY <2>1 DEF Batch_has_command, ExecutionInv, TypeOK, ConnectionTypeOK
  <2>4. state[c] \in {"CONNECTING", "CONNECTED"}
    BY <2>2, <2>3 DEF Accounted, Settled, States
  <2>5. sockfd[c] \in Fds
    BY <2>1, <2>4 DEF ExecutionInv, SocketsOwned
  <2>6. current_batch[c] = b
    BY <2>2, <2>4 DEF Accounted
  <2>7. /\ fds[i].fd = sockfd[c]
        /\ \/ state[c] = "CONNECTING" /\ "WRITE" \in fds[i].events
           \/ state[c] = "CONNECTED" /\ "READ" \in fds[i].events
        /\ Buffer_remaining(b) > 0 => "WRITE" \in fds[i].events
    BY <2>2, <2>3, <2>4 DEF Settled
  <2> QED
    BY <2>5, <2>6, <2>7
<1> QED
  BY <1>1, Invariance, PTL

\* The replies a connection will read are those of the commands its own batch
\* still waits for, neither fewer nor more.
THEOREM RepliesAreItsOwn ==
  ASSUME Liberties = {}
  PROVE  Spec => []RepliesAreOwn
<1>1. ExecutionInv => RepliesAreOwn
  BY DEF ExecutionInv, PairOK, Accounted, RepliesAreOwn
<1> QED
  BY <1>1, Invariance, PTL

\* A connection kept open for the next execution has no reply under way.
THEOREM NoReplyStrays ==
  ASSUME Liberties = {}
  PROVE  Spec => []NoStrayReply
<1>1. ExecutionInv => NoStrayReply
  BY Idle DEF ExecutionInv, PairOK, AtRest, NoStrayReply
<1> QED
  BY <1>1, Invariance, PTL

-----------------------------------------------------------------------------
(***************************************************************************)
(* Executor implements BatchPromise: each step of an execution answers one *)
(* command, aborts one batch, or leaves the counters alone.                *)
(***************************************************************************)

\* The execution goes on with the same pairs.
Continues == pc # "idle" /\ pc' # "idle" /\ pairs' = pairs

CountersKept == UNCHANGED <<num_commands, replies, errors>>

LEMMA KeptStutters ==
  ASSUME Continues, CountersKept
  PROVE  UNCHANGED Promise!vars
BY DEF Continues, CountersKept, Promise!vars, numpairs

\* Connection_abort, of a pair whose batch still has a command.
LEMMA AbortRefines ==
  ASSUME ExecutionInv, Continues, NEW i, NEW c, NEW b, PairIs(i, c, b), Started(i),
         state[c] # "ABORTED", num_commands[b] > 0, NEW fd, Connection_abort(c, fd)
  PROVE  Promise!Next
<1>1. current_batch[c] = b /\ errors[b] = 0 /\ c \in Connections /\ b \in Batches
  BY PairIsType DEF Accounted
<1>2. /\ errors' = [errors EXCEPT ![b] = @ + num_commands[b]]
      /\ num_commands' = [num_commands EXCEPT ![b] = 0]
      /\ replies' = replies
  BY <1>1 DEF Connection_abort, Batch_abort
<1>3. num_commands[b] \in Nat /\ errors \in [Batches -> Nat]
  BY <1>1 DEF ExecutionInv, TypeOK, BatchTypeOK
<1>4. errors' = [errors EXCEPT ![b] = num_commands[b]]
  <2>1. errors[b] + num_commands[b] = num_commands[b]
    BY <1>1, <1>3
  <2> QED
    BY <1>2, <2>1
<1>5. b \in {pairs[j].batch : j \in 1..numpairs}
  BY DEF PairIs
<1>6. numpairs' = numpairs /\ pc # "idle" /\ pc' # "idle" /\ pairs' = pairs
  BY DEF Continues, numpairs
<1>7. Promise!Abort(b)
  BY <1>2, <1>4, <1>5, <1>6 DEF Promise!Abort
<1> QED
  BY <1>1, <1>7 DEF Promise!Next

LEMMA AddReplyRefines ==
  ASSUME ExecutionInv, NEW i, NEW c, NEW b, PairIs(i, c, b), AddReply
  PROVE  Promise!Next
<1>1. /\ pc = "read" /\ Handled = c /\ c \in Connections /\ b \in Batches
      /\ state[c] # "ABORTED" /\ num_commands[current_batch[c]] > 0
  BY PairIsType DEF AddReply, Reading, Batch_has_command
<1>2. current_batch[c] = b /\ errors[b] = 0
  BY <1>1, InRead DEF Accounted
<1>3. /\ num_commands' = [num_commands EXCEPT ![b] = @ - 1]
      /\ replies' = [replies EXCEPT ![b] = @ + 1]
      /\ errors' = errors /\ Continues
  BY <1>1, <1>2 DEF AddReply, executorVars, controlVars, Continues
<1>4. b \in {pairs[j].batch : j \in 1..numpairs}
  BY DEF PairIs
<1>5. Promise!Answer(b)
  BY <1>1, <1>2, <1>3, <1>4 DEF Promise!Answer, Continues, numpairs
<1> QED
  BY <1>1, <1>5 DEF Promise!Next

LEMMA WriteContinues ==
  ASSUME pc = "write", pairs' = pairs, WriteReturns \/ pc' = pc
  PROVE  Continues
BY DEF Continues, WriteReturns, NextPair

\* Connection_write_data answers nothing, but may abort.
LEMMA WriteRefines ==
  ASSUME ExecutionInv, NEW i, NEW c, NEW b, PairIs(i, c, b), Write
  PROVE  Promise!Next \/ UNCHANGED Promise!vars
<1>1. pc = "write"
  BY DEF Write, ConnectFails, ConnectInProgress, ConnectImmediate, ConnectRefused,
     ConnectCompleted, Send, SendAgain, SendFails, AllSent
<1>2. /\ Started(i) /\ state[c] # "ABORTED" /\ num_commands[b] > 0 /\ Handled = c
  BY <1>1, InWrite, PairIsType
<1>3. CASE ConnectFails \/ ConnectRefused \/ SendFails
  <2>1. Continues
    BY <1>1, <1>3, WriteContinues
    DEF ConnectFails, ConnectRefused, SendFails, executorVars
  <2> QED
    BY <1>2, <1>3, <2>1, AbortRefines DEF ConnectFails, ConnectRefused, SendFails
<1>4. CASE \/ \E fd \in Fds : ConnectInProgress(fd) \/ ConnectImmediate(fd)
           \/ ConnectCompleted \/ SendAgain \/ AllSent
           \/ \E k \in 1..MaxCommands : Send(k)
  <2>1. Continues
    BY <1>1, <1>4, WriteContinues
    DEF ConnectInProgress, ConnectImmediate, ConnectCompleted, SendAgain, AllSent,
        Send, executorVars, controlVars
  <2>2. CountersKept
    BY <1>4 DEF ConnectInProgress, ConnectImmediate, ConnectCompleted, SendAgain,
        AllSent, Send, batchVars, CountersKept
  <2> QED
    BY <2>1, <2>2, KeptStutters
<1> QED
  BY <1>3, <1>4 DEF Write

LEMMA ReadRefines ==
  ASSUME ExecutionInv, NEW i, NEW c, NEW b, PairIs(i, c, b), Read
  PROVE  Promise!Next \/ UNCHANGED Promise!vars
<1>1. pc = "read" /\ Handled = c
  BY PairIsType DEF Read, ReadAborted, AllAnswered, AddReply, Recv, RecvAgain,
     ReadFails, Reading
<1>2. CASE AddReply
  BY <1>2, AddReplyRefines
<1>3. CASE ReadFails
  <2>1. /\ Connection_abort(c, sockfd[c]) /\ state[c] # "ABORTED"
        /\ num_commands[current_batch[c]] > 0 /\ Continues
    BY <1>1, <1>3 DEF ReadFails, Reading, Batch_has_command, NextPair,
       executorVars, Continues
  <2>2. Started(i) /\ current_batch[c] = b
    BY <1>1, <2>1, InRead
  <2> QED
    BY <2>1, <2>2, AbortRefines
<1>4. CASE ReadAborted \/ AllAnswered \/ RecvAgain
           \/ \E k \in 1..MaxCommands : Recv(k)
  <2>1. Continues
    BY <1>1, <1>4 DEF ReadAborted, AllAnswered, Recv, RecvAgain, NextPair,
       executorVars, controlVars, Continues
  <2>2. CountersKept
    BY <1>4 DEF ReadAborted, AllAnswered, Recv, RecvAgain, batchVars, CountersKept
  <2> QED
    BY <2>1, <2>2, KeptStutters
<1> QED
  BY <1>2, <1>3, <1>4 DEF Read

\* The start of the pairs, the poll loop, its dispatch and the clock.
LEMMA LoopRefines ==
  ASSUME ExecutionInv,
         \/ ExecuteStart \/ KickOffReading \/ AllStarted
         \/ ForceTimeout \/ CallPoll \/ PollTimeout \/ Wake
         \/ DispatchNothing \/ DispatchEvents \/ AllDispatched \/ Tick
  PROVE  UNCHANGED Promise!vars
<1>1. Continues
  BY DEF ExecuteStart, KickOffReading, AllStarted, ForceTimeout, CallPoll,
     PollTimeout, Wake, PollReady, PollError, DispatchNothing, DispatchEvents,
     AllDispatched, Tick, TakeFired, NextPair, executorVars, controlVars, Continues
<1>2. CountersKept
  BY DEF ExecuteStart, KickOffReading, AllStarted, ForceTimeout, CallPoll,
     PollTimeout, Wake, PollReady, PollError, DispatchNothing, DispatchEvents,
     AllDispatched, Tick, batchVars, CountersKept
<1> QED
  BY <1>1, <1>2, KeptStutters

LEMMA DispatchAbortRefines ==
  ASSUME ExecutionInv, NEW i, NEW c, NEW b, PairIs(i, c, b), DispatchAbort
  PROVE  Promise!Next
<1>1. /\ pc = "dispatch" /\ TakeFired /\ Connection_abort(c, sockfd[c])
      /\ state[c] # "ABORTED" /\ num_commands[b] > 0
  BY PairIsType DEF DispatchAbort, MustHandle, Batch_has_command, PairIs
<1>2. Continues
  BY <1>1 DEF DispatchAbort, TakeFired, NextPair, Continues
<1>3. Started(i)
  BY <1>1 DEF Started
<1> QED
  BY <1>1, <1>2, <1>3, AbortRefines

LEMMA ExecuteReturnsRefines ==
  ASSUME ExecutionInv, ExecuteReturns
  PROVE  Promise!Next
<1>1. /\ pc = "loop" /\ ~MustPoll /\ pc' = "idle"
      /\ UNCHANGED <<num_commands, replies, errors>>
  BY DEF ExecuteReturns, batchVars
<1>2. \A i \in 1..numpairs : num_commands[pairs[i].batch] = 0
  BY <1>1, AllAnsweredAtEnd
<1>3. Promise!Return
  BY <1>1, <1>2 DEF Promise!Return
<1> QED
  BY <1>3 DEF Promise!Next

\* The calls of an application that keeps to the documented use.
LEMMA ApplicationRefines ==
  ASSUME ExecutionInv, Liberties = {}, Application
  PROVE  Promise!Next \/ UNCHANGED Promise!vars
<1>1. ASSUME NEW b \in Batches, Batch_write(b) PROVE Promise!Next
  <2>1. /\ pc = "idle" /\ pc' = "idle" /\ Written(b) < MaxCommands /\ Fresh(b)
        /\ num_commands' = [num_commands EXCEPT ![b] = @ + 1]
        /\ UNCHANGED <<replies, errors, pairs>>
    BY <1>1 DEF Batch_write, executorVars, controlVars
  <2>2. /\ num_commands[b] \in Nat /\ replies[b] \in Nat /\ errors[b] \in Nat
    BY DEF ExecutionInv, TypeOK, BatchTypeOK
  <2>3. num_commands[b] < MaxCommands /\ replies[b] + errors[b] = 0
    BY <2>1, <2>2, BoundsAssumption DEF Written, Fresh
  <2>4. Promise!Write(b)
    BY <2>1, <2>3 DEF Promise!Write
  <2> QED
    BY <2>4 DEF Promise!Next
<1>2. ASSUME NEW b \in Batches, Batch_renew(b) PROVE Promise!Next
  <2>1. Promise!Renew(b)
    BY <1>2 DEF Batch_renew, controlVars, Promise!Renew
  <2> QED
    BY <2>1 DEF Promise!Next
<1>3. CASE \/ \E c \in Connections : Connection_renew(c)
           \/ Executor_new
           \/ \E c \in Connections, b \in Batches : Executor_add(c, b)
  <2>1. pc = "idle" /\ pc' = "idle" /\ CountersKept
    BY <1>3 DEF Connection_renew, Executor_new, Executor_add, batchVars,
       controlVars, CountersKept
  <2> QED
    BY <2>1 DEF Promise!vars, CountersKept
<1>4. ASSUME NEW timeout_ms \in 0..MaxTimeout, Executor_execute(timeout_ms)
      PROVE  Promise!Next
  <2> PICK S : S = {pairs[i].batch : i \in 1..numpairs}
    OBVIOUS
  <2>1. /\ pc = "idle" /\ pc' = "start" /\ pairs' = pairs
        /\ UNCHANGED <<num_commands, replies, errors>>
    BY <1>4 DEF Executor_execute, batchVars
  <2>2. S \in SUBSET Batches
    BY PairType DEF ExecutionInv
  <2>3. \A b \in S : num_commands[b] > 0 /\ replies[b] + errors[b] = 0
    BY <1>4 DEF Executor_execute, Batch_has_command, Fresh
  <2>4. S = {pairs'[i].batch : i \in 1..numpairs'}
    BY <2>1 DEF numpairs
  <2>5. Promise!Execute(S)
    BY <2>1, <2>3, <2>4 DEF Promise!Execute
  <2> QED
    BY <2>2, <2>5 DEF Promise!Next
<1> QED
  BY <1>1, <1>2, <1>3, <1>4 DEF Application

LEMMA StepRefines ==
  ASSUME Liberties = {}
  PROVE  ExecutionInv /\ [Next]_vars => [Promise!Next]_(Promise!vars)
<1> SUFFICES ASSUME ExecutionInv, [Next]_vars PROVE [Promise!Next]_(Promise!vars)
  OBVIOUS
<1>1. CASE Application
  BY <1>1, ApplicationRefines
<1>2. CASE Write \/ Read \/ DispatchAbort
  <2>1. ordinal \in 1..numpairs
    <3>1. ordinal <= numpairs
      BY <1>2 DEF DispatchAbort, Write, ConnectFails, ConnectInProgress,
        ConnectImmediate, ConnectRefused, ConnectCompleted, Send, SendAgain,
        SendFails, AllSent, Read, ReadAborted, AllAnswered, AddReply, Recv,
        RecvAgain, ReadFails, Reading, ExecutionInv, ControlOK
    <3> QED
      BY <3>1, BoundsAssumption
      DEF ExecutionInv, TypeOK, ControlTypeOK, ExecutorTypeOK, numpairs
  <2> DEFINE c == pairs[ordinal].connection
             b == pairs[ordinal].batch
  <2>2. PairIs(ordinal, c, b)
    BY <2>1 DEF PairIs
  <2> HIDE DEF c, b
  <2> QED
    BY <1>2, <2>2, WriteRefines, ReadRefines, DispatchAbortRefines
<1>3. CASE ExecuteReturns
  BY <1>3, ExecuteReturnsRefines
<1>4. CASE \/ ExecuteStart \/ KickOffReading \/ AllStarted
           \/ ForceTimeout \/ CallPoll \/ PollTimeout \/ Wake
           \/ DispatchNothing \/ DispatchEvents \/ AllDispatched \/ Tick
  BY <1>4, LoopRefines
<1>5. CASE UNCHANGED vars
  BY <1>5 DEF vars, batchVars, executorVars, controlVars, Promise!vars, numpairs
<1> QED
  BY <1>1, <1>2, <1>3, <1>4, <1>5 DEF Next, Run

\* Executor_execute keeps its promise for every number of connections, batches
\* and commands and whatever the sockets and the clock do: each command of each
\* batch gets one reply or one error reply, the error replies last, and it does
\* not come back before.
THEOREM ExecutorKeepsPromise ==
  ASSUME Liberties = {}
  PROVE  Spec => KeepsPromise
<1>1. Init => Promise!Init
  BY DEF Init, Promise!Init
<1> QED
  BY <1>1, InvInit, InvNext, StepRefines, PTL DEF Spec, KeepsPromise, Promise!Spec
=============================================================================
