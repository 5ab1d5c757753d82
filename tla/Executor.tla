------------------------------ MODULE Executor ------------------------------
(***************************************************************************)
(* The event loop of libredis: the Executor and the Connection state       *)
(* machine of src/libredis/connection.c, with the counters of a Batch      *)
(* (src/libredis/batch.c) they drive.                                      *)
(*                                                                         *)
(* Bytes are abstracted to commands and replies: a write buffer holds a    *)
(* number of commands, a read buffer a number of complete replies.  What   *)
(* a system call returns is chosen nondeterministically.  One action is    *)
(* the code between two system calls, so that the clock (Tick) can run     *)
(* between any two of them.                                                *)
(***************************************************************************)
EXTENDS Integers, Sequences, FiniteSets

CONSTANTS
    Connections,   \* the Connection objects of the application
    Batches,       \* its Batch objects
    Fds,           \* file descriptors the operating system hands out
    MaxPairs,      \* MAX_PAIRS
    MaxCommands,   \* most commands ever written into one batch
    MaxTimeout,    \* longest timeout_ms, in clock ticks
    NoBatch,       \* NULL in current_batch
    Liberties      \* what the application does beyond the documented use

AllLiberties == {"empty_batch", "share_connection", "reuse"}

ASSUME FdsAssumption == Fds \subseteq Nat \ {0} /\ IsFiniteSet(Fds)
ASSUME BoundsAssumption ==
    MaxPairs \in Nat /\ MaxCommands \in Nat /\ MaxTimeout \in Nat
ASSUME NoBatchAssumption == NoBatch \notin Batches
ASSUME LibertiesAssumption == Liberties \subseteq AllLiberties

VARIABLES
    \* struct _Connection, with its socket's stream and its parser
    state, sockfd, current_batch,
    inflight,      \* commands sent on this socket whose reply was not yet read
    parsed,        \* replies the parser went past since ReplyParser_reset
    \* struct _Batch, with its buffers counted in commands and replies
    num_commands, replies, errors, error,
    position, limit,  \* of the write buffer
    buffered,      \* complete replies in the read buffer
    \* struct _Executor
    pairs, fds, numevents,
    executed,      \* Executor_execute was called since Executor_new
    left,          \* ticks until end_tm_ms, -1 once it has passed
    \* where Executor_execute is
    pc, caller, ordinal, event, poll_result

connectionVars == <<state, sockfd, current_batch, inflight, parsed>>
batchVars == <<num_commands, replies, errors, error, position, limit, buffered>>
executorVars == <<pairs, fds, numevents, executed, left>>
controlVars == <<pc, caller, ordinal, event, poll_result>>
vars == <<connectionVars, batchVars, executorVars, controlVars>>

Pair == [connection : Connections, batch : Batches]
States == {"CLOSED", "CONNECTING", "CONNECTED", "ABORTED"}
Events == {"READ", "WRITE"}
PollFd == [fd : Fds \cup {0, -1}, events : SUBSET Events, revents : SUBSET Events]
NoPollFd == [fd |-> 0, events |-> {}, revents |-> {}]

ConnectionTypeOK ==
    /\ state \in [Connections -> States]
    /\ sockfd \in [Connections -> Fds \cup {0, -1}]
    /\ current_batch \in [Connections -> Batches \cup {NoBatch}]
    /\ inflight \in [Connections -> Nat]
    /\ parsed \in [Connections -> Nat]

BatchTypeOK ==
    /\ num_commands \in [Batches -> Nat]
    /\ replies \in [Batches -> Nat]
    /\ errors \in [Batches -> Nat]
    /\ error \in [Batches -> BOOLEAN]
    /\ position \in [Batches -> Nat]
    /\ limit \in [Batches -> Nat]
    /\ buffered \in [Batches -> Nat]

ExecutorTypeOK ==
    /\ pairs \in Seq(Pair)
    /\ Len(pairs) <= MaxPairs
    /\ fds \in [1..MaxPairs -> PollFd]
    /\ numevents \in Int
    /\ executed \in BOOLEAN
    /\ left \in -1..MaxTimeout

ControlTypeOK ==
    /\ pc \in {"idle", "start", "write", "started", "read",
               "loop", "poll", "dispatch"}
    /\ caller \in {"execute_start", "handle_event"}
    /\ ordinal \in 1..MaxPairs + 1
    /\ event \in SUBSET Events
    /\ poll_result \in {1, 0, -1}

\* Every variable has the type of the C variable it stands for.
TypeOK ==
    ConnectionTypeOK /\ BatchTypeOK /\ ExecutorTypeOK /\ ControlTypeOK

Init ==
    /\ state = [c \in Connections |-> "CLOSED"]
    /\ sockfd = [c \in Connections |-> 0]
    /\ current_batch = [c \in Connections |-> NoBatch]
    /\ inflight = [c \in Connections |-> 0]
    /\ parsed = [c \in Connections |-> 0]
    /\ num_commands = [b \in Batches |-> 0]
    /\ replies = [b \in Batches |-> 0]
    /\ errors = [b \in Batches |-> 0]
    /\ error = [b \in Batches |-> FALSE]
    /\ position = [b \in Batches |-> 0]
    /\ limit = [b \in Batches |-> MaxCommands]
    /\ buffered = [b \in Batches |-> 0]
    /\ pairs = <<>>
    /\ fds = [i \in 1..MaxPairs |-> NoPollFd]
    /\ numevents = 0
    /\ executed = FALSE
    /\ left = -1
    /\ pc = "idle"
    /\ caller = "execute_start"
    /\ ordinal = 1
    /\ event = {}
    /\ poll_result = 1

-----------------------------------------------------------------------------
numpairs == Len(pairs)
Batch_has_command(b) == num_commands[b] > 0
Buffer_remaining(b) == limit[b] - position[b]
Written(b) == num_commands[b] + replies[b] + errors[b]
Fresh(b) == replies[b] + errors[b] = 0 /\ ~error[b]
OpenFds == {sockfd[c] : c \in Connections} \cap Fds

(***************************************************************************)
(* The application, between two executions.                                *)
(***************************************************************************)

Batch_write(b) ==
    /\ pc = "idle"
    /\ Written(b) < MaxCommands
    /\ Fresh(b) \/ "reuse" \in Liberties
    /\ num_commands' = [num_commands EXCEPT ![b] = @ + 1]
    /\ position' = [position EXCEPT ![b] = @ + 1]
    /\ UNCHANGED <<connectionVars, executorVars, controlVars,
                   replies, errors, error, limit, buffered>>

\* Batch_free, then Batch_new: a batch no executor refers to starts again.
Batch_renew(b) ==
    /\ pc = "idle"
    /\ \A i \in 1..numpairs : pairs[i].batch # b
    /\ num_commands' = [num_commands EXCEPT ![b] = 0]
    /\ replies' = [replies EXCEPT ![b] = 0]
    /\ errors' = [errors EXCEPT ![b] = 0]
    /\ error' = [error EXCEPT ![b] = FALSE]
    /\ position' = [position EXCEPT ![b] = 0]
    /\ limit' = [limit EXCEPT ![b] = MaxCommands]
    /\ buffered' = [buffered EXCEPT ![b] = 0]
    /\ UNCHANGED <<connectionVars, executorVars, controlVars>>

\* Connection_free, then Connection_new.
Connection_renew(c) ==
    /\ pc = "idle"
    /\ \A i \in 1..numpairs : pairs[i].connection # c
    /\ state' = [state EXCEPT ![c] = "CLOSED"]
    /\ sockfd' = [sockfd EXCEPT ![c] = 0]
    /\ current_batch' = [current_batch EXCEPT ![c] = NoBatch]
    /\ inflight' = [inflight EXCEPT ![c] = 0]
    /\ parsed' = [parsed EXCEPT ![c] = 0]
    /\ UNCHANGED <<batchVars, executorVars, controlVars>>

\* Executor_free, then Executor_new; Executor_add clears each pollfd it uses.
Executor_new ==
    /\ pc = "idle"
    /\ pairs' = <<>>
    /\ fds' = [i \in 1..MaxPairs |-> NoPollFd]
    /\ numevents' = 0
    /\ executed' = FALSE
    /\ UNCHANGED <<connectionVars, batchVars, controlVars, left>>

Executor_add(c, b) ==
    /\ pc = "idle"
    /\ numpairs < MaxPairs
    /\ ~executed
    /\ \A i \in 1..numpairs : pairs[i].batch # b
    /\ \/ \A i \in 1..numpairs : pairs[i].connection # c
       \/ "share_connection" \in Liberties
    /\ pairs' = Append(pairs, [connection |-> c, batch |-> b])
    /\ fds' = [fds EXCEPT ![numpairs + 1] = NoPollFd]
    /\ UNCHANGED <<connectionVars, batchVars, controlVars,
                   numevents, executed, left>>

Executor_execute(timeout_ms) ==
    /\ pc = "idle"
    /\ \/ /\ ~executed
          /\ \A i \in 1..numpairs : Fresh(pairs[i].batch)
       \/ "reuse" \in Liberties
    /\ \/ \A i \in 1..numpairs : Batch_has_command(pairs[i].batch)
       \/ "empty_batch" \in Liberties
    /\ left' = timeout_ms
    /\ numevents' = 0
    /\ executed' = TRUE
    /\ pc' = "start"
    /\ ordinal' = 1
    /\ UNCHANGED <<connectionVars, batchVars, pairs, fds,
                   caller, event, poll_result>>

-----------------------------------------------------------------------------
(***************************************************************************)
(* Pieces of the handlers.                                                 *)
(***************************************************************************)

\* The connection of the pair that is being started or dispatched.
Handled == pairs[ordinal].connection

\* Executor_notify_event for the connection's socket fd.
Executor_notify_event(e, fd) ==
    /\ fds' = [fds EXCEPT ![ordinal] =
          [fd |-> fd, events |-> @.events \cup {e}, revents |-> @.revents]]
    /\ numevents' = numevents + 1

\* Mutant of Batch_abort: the loop runs once more.
Batch_abort_one_more(b) ==
    /\ error' = [error EXCEPT ![b] = TRUE]
    /\ errors' = [errors EXCEPT ![b] = @ + num_commands[b] + 1]
    /\ num_commands' = [num_commands EXCEPT ![b] = -1]
    /\ UNCHANGED <<replies, position, limit, buffered>>

\* Mutant of Batch_abort: an if where the code has a while.
Batch_abort_first(b) ==
    /\ error' = [error EXCEPT ![b] = TRUE]
    /\ errors' = [errors EXCEPT ![b] = @ + 1]
    /\ num_commands' = [num_commands EXCEPT ![b] = @ - 1]
    /\ UNCHANGED <<replies, position, limit, buffered>>

\* Every command of the batch that has no reply gets an error reply.
Batch_abort(b) ==
    /\ error' = [error EXCEPT ![b] = TRUE]
    /\ errors' = [errors EXCEPT ![b] = @ + num_commands[b]]
    /\ num_commands' = [num_commands EXCEPT ![b] = 0]
    /\ UNCHANGED <<replies, position, limit, buffered>>

\* Mutant of Connection_abort: the socket is not closed.
Connection_abort_unclosed(c, fd) ==
    /\ Batch_abort(current_batch[c])
    /\ state' = [state EXCEPT ![c] = "ABORTED"]
    /\ sockfd' = [sockfd EXCEPT ![c] = fd]
    /\ current_batch' = [current_batch EXCEPT ![c] = NoBatch]
    /\ UNCHANGED <<inflight, parsed>>

\* Mutant of Connection_abort: only the batch is aborted, as if a connection
\* whose batch timed out could be used for the next one.
Connection_abort_batch_only(c, fd) ==
    /\ Batch_abort(current_batch[c])
    /\ sockfd' = [sockfd EXCEPT ![c] = fd]
    /\ current_batch' = [current_batch EXCEPT ![c] = NoBatch]
    /\ UNCHANGED <<state, inflight, parsed>>

\* Connection_abort while sockfd is fd; closing the socket loses its stream.
Connection_abort(c, fd) ==
    /\ Batch_abort(current_batch[c])
    /\ state' = [state EXCEPT ![c] = "ABORTED"]
    /\ sockfd' = [sockfd EXCEPT ![c] = IF fd > 0 THEN 0 ELSE fd]
    /\ current_batch' = [current_batch EXCEPT ![c] = NoBatch]
    /\ inflight' = [inflight EXCEPT ![c] = 0]
    /\ UNCHANGED parsed

\* The for loops over the pairs go on with the next one.
NextPair(phase) ==
    /\ pc' = phase
    /\ ordinal' = ordinal + 1
    /\ UNCHANGED <<caller, event, poll_result>>

\* Connection_write_data returns to whoever called it.
WriteReturns ==
    \/ /\ caller = "execute_start"
       /\ pc' = "started"
       /\ UNCHANGED <<caller, ordinal, event, poll_result>>
    \/ /\ caller = "handle_event"
       /\ "READ" \in event
       /\ pc' = "read"
       /\ UNCHANGED <<caller, ordinal, event, poll_result>>
    \/ /\ caller = "handle_event"
       /\ "READ" \notin event
       /\ NextPair("dispatch")

-----------------------------------------------------------------------------
(***************************************************************************)
(* Connection_execute_start, once per pair.                                *)
(***************************************************************************)

\* Mutant of ExecuteStart: ReplyParser_reset is not called.
ExecuteStartUnreset ==
    /\ pc = "start"
    /\ ordinal <= numpairs
    /\ LET c == Handled
           b == pairs[ordinal].batch
       IN /\ current_batch' = [current_batch EXCEPT ![c] = b]
          /\ state' = [state EXCEPT ![c] = IF @ = "ABORTED" THEN "CLOSED" ELSE @]
          /\ limit' = [limit EXCEPT ![b] = position[b]]
          /\ position' = [position EXCEPT ![b] = 0]
    /\ pc' = "write"
    /\ caller' = "execute_start"
    /\ UNCHANGED <<parsed, sockfd, inflight, num_commands, replies, errors, error,
                   buffered, executorVars, ordinal, event, poll_result>>

ExecuteStart ==
    /\ pc = "start"
    /\ ordinal <= numpairs
    /\ LET c == Handled
           b == pairs[ordinal].batch
       IN /\ current_batch' = [current_batch EXCEPT ![c] = b]
          /\ state' = [state EXCEPT ![c] = IF @ = "ABORTED" THEN "CLOSED" ELSE @]
          /\ parsed' = [parsed EXCEPT ![c] = 0]
          /\ limit' = [limit EXCEPT ![b] = position[b]]
          /\ position' = [position EXCEPT ![b] = 0]
    /\ pc' = "write"
    /\ caller' = "execute_start"
    /\ UNCHANGED <<sockfd, inflight, num_commands, replies, errors, error,
                   buffered, executorVars, ordinal, event, poll_result>>

\* Mutant of KickOffReading: a connection kept open does not wait for replies.
KickOffNothing ==
    /\ pc = "started"
    /\ NextPair("start")
    /\ UNCHANGED <<connectionVars, batchVars, executorVars>>

KickOffReading ==
    /\ pc = "started"
    /\ \/ /\ state[Handled] = "CONNECTED"
          /\ Executor_notify_event("READ", sockfd[Handled])
       \/ /\ state[Handled] # "CONNECTED"
          /\ UNCHANGED <<fds, numevents>>
    /\ NextPair("start")
    /\ UNCHANGED <<connectionVars, batchVars, pairs, executed, left>>

AllStarted ==
    /\ pc = "start"
    /\ ordinal > numpairs
    /\ poll_result' = 1
    /\ pc' = "loop"
    /\ UNCHANGED <<connectionVars, batchVars, executorVars,
                   caller, ordinal, event>>

(***************************************************************************)
(* Connection_write_data.                                                  *)
(***************************************************************************)

\* getaddrinfo fails, socket fails and leaves -1 in sockfd, or fcntl or
\* connect fails after the socket was made.
ConnectFails ==
    /\ pc = "write"
    /\ state[Handled] = "CLOSED"
    /\ \E fd \in {sockfd[Handled], -1} \cup (Fds \ OpenFds) :
          Connection_abort(Handled, fd)
    /\ WriteReturns
    /\ UNCHANGED executorVars

ConnectInProgress(fd) ==
    /\ pc = "write"
    /\ state[Handled] = "CLOSED"
    /\ fd \in Fds \ OpenFds
    /\ sockfd' = [sockfd EXCEPT ![Handled] = fd]
    /\ state' = [state EXCEPT ![Handled] = "CONNECTING"]
    /\ Executor_notify_event("WRITE", fd)
    /\ WriteReturns
    /\ UNCHANGED <<current_batch, inflight, parsed, batchVars,
                   pairs, executed, left>>

ConnectImmediate(fd) ==
    /\ pc = "write"
    /\ state[Handled] = "CLOSED"
    /\ fd \in Fds \ OpenFds
    /\ sockfd' = [sockfd EXCEPT ![Handled] = fd]
    /\ state' = [state EXCEPT ![Handled] = "CONNECTED"]
    /\ UNCHANGED <<current_batch, inflight, parsed, batchVars,
                   executorVars, controlVars>>

\* getsockopt fails or SO_ERROR holds an error.
ConnectRefused ==
    /\ pc = "write"
    /\ state[Handled] = "CONNECTING"
    /\ Connection_abort(Handled, sockfd[Handled])
    /\ WriteReturns
    /\ UNCHANGED executorVars

ConnectCompleted ==
    /\ pc = "write"
    /\ state[Handled] = "CONNECTING"
    /\ state' = [state EXCEPT ![Handled] = "CONNECTED"]
    /\ Executor_notify_event("READ", sockfd[Handled])
    /\ UNCHANGED <<sockfd, current_batch, inflight, parsed, batchVars,
                   pairs, executed, left, controlVars>>

\* write() takes k more commands; the loop comes back for the rest.
Send(k) ==
    /\ pc = "write"
    /\ state[Handled] = "CONNECTED"
    /\ k <= Buffer_remaining(current_batch[Handled])
    /\ position' = [position EXCEPT ![current_batch[Handled]] = @ + k]
    /\ inflight' = [inflight EXCEPT ![Handled] = @ + k]
    /\ UNCHANGED <<state, sockfd, current_batch, parsed, num_commands, replies,
                   errors, error, limit, buffered, executorVars, controlVars>>

\* Mutant of SendAgain: EAGAIN asks for no event, replies will come anyway.
SendAgainSilently ==
    /\ pc = "write"
    /\ state[Handled] = "CONNECTED"
    /\ Buffer_remaining(current_batch[Handled]) > 0
    /\ WriteReturns
    /\ UNCHANGED <<connectionVars, batchVars, executorVars>>

SendAgain ==
    /\ pc = "write"
    /\ state[Handled] = "CONNECTED"
    /\ Buffer_remaining(current_batch[Handled]) > 0
    /\ Executor_notify_event("WRITE", sockfd[Handled])
    /\ WriteReturns
    /\ UNCHANGED <<connectionVars, batchVars, pairs, executed, left>>

SendFails ==
    /\ pc = "write"
    /\ state[Handled] = "CONNECTED"
    /\ Buffer_remaining(current_batch[Handled]) > 0
    /\ Connection_abort(Handled, sockfd[Handled])
    /\ WriteReturns
    /\ UNCHANGED executorVars

AllSent ==
    /\ pc = "write"
    /\ state[Handled] = "CONNECTED"
    /\ Buffer_remaining(current_batch[Handled]) = 0
    /\ WriteReturns
    /\ UNCHANGED <<connectionVars, batchVars, executorVars>>

(***************************************************************************)
(* Connection_read_data.                                                   *)
(***************************************************************************)

\* Connection_write_data, called first, has aborted the connection.
ReadAborted ==
    /\ pc = "read"
    /\ state[Handled] = "ABORTED"
    /\ NextPair("dispatch")
    /\ UNCHANGED <<connectionVars, batchVars, executorVars>>

\* The read loop runs: it is not aborted and the batch waits for a reply.
Reading ==
    /\ pc = "read"
    /\ state[Handled] # "ABORTED"
    /\ Batch_has_command(current_batch[Handled])

\* Everything in the read buffer has been parsed: RPR_MORE.
ParserWantsMore == parsed[Handled] = buffered[current_batch[Handled]]

AllAnswered ==
    /\ pc = "read"
    /\ state[Handled] # "ABORTED"
    /\ ~Batch_has_command(current_batch[Handled])
    /\ NextPair("dispatch")
    /\ UNCHANGED <<connectionVars, batchVars, executorVars>>

\* RPR_REPLY, and Batch_add_reply.
AddReply ==
    /\ Reading
    /\ ~ParserWantsMore
    /\ LET b == current_batch[Handled]
       IN /\ num_commands' = [num_commands EXCEPT ![b] = @ - 1]
          /\ replies' = [replies EXCEPT ![b] = @ + 1]
    /\ parsed' = [parsed EXCEPT ![Handled] = @ + 1]
    /\ UNCHANGED <<state, sockfd, current_batch, inflight, errors, error,
                   position, limit, buffered, executorVars, controlVars>>

\* read() brings k more replies; there is one only for a command sent.
Recv(k) ==
    /\ Reading
    /\ ParserWantsMore
    /\ k <= inflight[Handled]
    /\ inflight' = [inflight EXCEPT ![Handled] = @ - k]
    /\ buffered' = [buffered EXCEPT ![current_batch[Handled]] = @ + k]
    /\ UNCHANGED <<state, sockfd, current_batch, parsed, num_commands, replies,
                   errors, error, position, limit, executorVars, controlVars>>

RecvAgain ==
    /\ Reading
    /\ ParserWantsMore
    /\ Executor_notify_event("READ", sockfd[Handled])
    /\ NextPair("dispatch")
    /\ UNCHANGED <<connectionVars, batchVars, pairs, executed, left>>

\* A parse error, a read error or the end of the stream.
ReadFails ==
    /\ Reading
    /\ Connection_abort(Handled, sockfd[Handled])
    /\ NextPair("dispatch")
    /\ UNCHANGED executorVars

-----------------------------------------------------------------------------
(***************************************************************************)
(* The loop of Executor_execute.                                           *)
(***************************************************************************)

\* Mutant of MustPoll: a timeout does not end the loop.
MustPollOn == numevents > 0

MustPoll == numevents > 0 /\ poll_result > 0

\* The result is poll_result; what is local to the call is gone.
ExecuteReturns ==
    /\ pc = "loop"
    /\ ~MustPoll
    /\ pc' = "idle"
    /\ left' = -1
    /\ caller' = "execute_start"
    /\ ordinal' = 1
    /\ event' = {}
    /\ UNCHANGED <<connectionVars, batchVars, pairs, fds, numevents, executed,
                   poll_result>>

\* Executor_current_timeout fails: no time is left and poll is not called.
ForceTimeout ==
    /\ pc = "loop"
    /\ MustPoll
    /\ left < 0
    /\ poll_result' = 0
    /\ pc' = "dispatch"
    /\ ordinal' = 1
    /\ UNCHANGED <<connectionVars, batchVars, executorVars, caller, event>>

CallPoll ==
    /\ pc = "loop"
    /\ MustPoll
    /\ left >= 0
    /\ pc' = "poll"
    /\ UNCHANGED <<connectionVars, batchVars, executorVars,
                   caller, ordinal, event, poll_result>>

\* poll() returns: a bit it reports was asked for, on a socket that is open.
\* It may report none of them: POLLERR, POLLHUP and POLLNVAL also end it.
PollReady(ready) ==
    /\ pc = "poll"
    /\ \A i \in 1..numpairs :
          /\ ready[i] \subseteq fds[i].events
          /\ ready[i] # {} => fds[i].fd \in OpenFds
    /\ fds' = [i \in 1..MaxPairs |->
                 IF i \in 1..numpairs
                 THEN [fd |-> fds[i].fd, events |-> fds[i].events,
                       revents |-> ready[i]]
                 ELSE fds[i]]
    /\ poll_result' = 1
    /\ pc' = "dispatch"
    /\ ordinal' = 1
    /\ UNCHANGED <<connectionVars, batchVars, pairs, numevents, executed, left,
                   caller, event>>

\* poll() waited for the (int)left_ms it was given: the last fraction of a
\* millisecond is not waited for, so it can return while left is still 0.
PollTimeout ==
    /\ pc = "poll"
    /\ left <= 0
    /\ poll_result' = 0
    /\ pc' = "dispatch"
    /\ ordinal' = 1
    /\ UNCHANGED <<connectionVars, batchVars, executorVars, caller, event>>

\* A signal interrupts poll().
PollError ==
    /\ pc = "poll"
    /\ poll_result' = -1
    /\ pc' = "dispatch"
    /\ ordinal' = 1
    /\ UNCHANGED <<connectionVars, batchVars, executorVars, caller, event>>

\* Mutant of TakeFired: the two events of one poll() count as one.
TakeFiredOnce ==
    /\ fds' = [fds EXCEPT ![ordinal] =
          [fd |-> @.fd, events |-> @.events \ @.revents, revents |-> {}]]
    /\ numevents' = numevents - (IF fds[ordinal].revents = {} THEN 0 ELSE 1)
    /\ UNCHANGED <<pairs, executed, left>>

\* The loop body takes the events that fired off the pollfd and the count.
TakeFired ==
    /\ fds' = [fds EXCEPT ![ordinal] =
          [fd |-> @.fd, events |-> @.events \ @.revents, revents |-> {}]]
    /\ numevents' = numevents - Cardinality(fds[ordinal].revents)
    /\ UNCHANGED <<pairs, executed, left>>

\* Mutant of MustHandle: a timeout reaches only the pairs that had an event.
MustHandleFired ==
    /\ fds[ordinal].revents # {}
    /\ Batch_has_command(pairs[ordinal].batch)
    /\ state[Handled] # "ABORTED"

\* The test before Connection_handle_event and its first early return.
MustHandle ==
    /\ fds[ordinal].revents # {} \/ poll_result < 1
    /\ Batch_has_command(pairs[ordinal].batch)
    /\ state[Handled] # "ABORTED"

DispatchNothing ==
    /\ pc = "dispatch"
    /\ ordinal <= numpairs
    /\ ~MustHandle
    /\ TakeFired
    /\ NextPair("dispatch")
    /\ UNCHANGED <<connectionVars, batchVars>>

\* EVENT_TIMEOUT and EVENT_ERROR replace the events that fired.
DispatchAbort ==
    /\ pc = "dispatch"
    /\ ordinal <= numpairs
    /\ MustHandle
    /\ poll_result < 1
    /\ TakeFired
    /\ Connection_abort(Handled, sockfd[Handled])
    /\ NextPair("dispatch")

DispatchEvents ==
    /\ pc = "dispatch"
    /\ ordinal <= numpairs
    /\ MustHandle
    /\ poll_result = 1
    /\ TakeFired
    /\ event' = fds[ordinal].revents
    /\ caller' = "handle_event"
    /\ pc' = IF "WRITE" \in fds[ordinal].revents THEN "write" ELSE "read"
    /\ UNCHANGED <<connectionVars, batchVars, ordinal, poll_result>>

AllDispatched ==
    /\ pc = "dispatch"
    /\ ordinal > numpairs
    /\ pc' = "loop"
    /\ UNCHANGED <<connectionVars, batchVars, executorVars,
                   caller, ordinal, event, poll_result>>

\* CLOCK_MONOTONIC advances.
Tick ==
    /\ pc # "idle"
    /\ left >= 0
    /\ left' = left - 1
    /\ UNCHANGED <<connectionVars, batchVars, pairs, fds, numevents, executed,
                   controlVars>>

-----------------------------------------------------------------------------
Application ==
    \/ \E b \in Batches : Batch_write(b) \/ Batch_renew(b)
    \/ \E c \in Connections : Connection_renew(c)
    \/ Executor_new
    \/ \E c \in Connections, b \in Batches : Executor_add(c, b)
    \/ \E timeout_ms \in 0..MaxTimeout : Executor_execute(timeout_ms)

Write ==
    \/ ConnectFails
    \/ \E fd \in Fds : ConnectInProgress(fd) \/ ConnectImmediate(fd)
    \/ ConnectRefused \/ ConnectCompleted
    \/ \E k \in 1..MaxCommands : Send(k)
    \/ SendAgain \/ SendFails \/ AllSent

Read ==
    \/ ReadAborted \/ AllAnswered \/ AddReply
    \/ \E k \in 1..MaxCommands : Recv(k)
    \/ RecvAgain \/ ReadFails

\* The thread in Executor_execute, except for a poll() cut short.
Run ==
    \/ ExecuteStart \/ KickOffReading \/ AllStarted
    \/ Write \/ Read
    \/ ExecuteReturns \/ ForceTimeout \/ CallPoll \/ PollTimeout
    \/ DispatchNothing \/ DispatchAbort \/ DispatchEvents \/ AllDispatched

Wake ==
    \/ \E ready \in [1..numpairs -> SUBSET Events] : PollReady(ready)
    \/ PollError

Next == Application \/ Run \/ Wake \/ Tick

Spec == Init /\ [][Next]_vars

\* The thread runs and time passes; neither the application nor a socket
\* that becomes ready is owed to anyone.
FairSpec == Spec /\ WF_vars(Run) /\ WF_vars(Tick)

-----------------------------------------------------------------------------
(***************************************************************************)
(* Properties.                                                             *)
(***************************************************************************)

\* The event bits that are set in the pollfds the next poll() is given.
Registered == {r \in (1..numpairs) \X Events : r[2] \in fds[r[1]].events}

\* numevents is the number of event bits the next poll() waits for, so that the
\* loop of Executor_execute stops neither before nor after the last of them.
EventCountExact ==
    pc # "idle" => numevents = Cardinality(Registered)

\* A pair that still waits for replies when poll() is called is woken up by its
\* own open socket: for the connect to complete, or for replies, and also for
\* room in the socket buffer as long as part of the write buffer is unsent.
NoLostWakeup ==
    pc \in {"loop", "poll"} /\ poll_result = 1 =>
        \A i \in 1..numpairs :
            LET c == pairs[i].connection
                b == pairs[i].batch
            IN Batch_has_command(b) =>
                  /\ current_batch[c] = b
                  /\ fds[i].fd = sockfd[c]
                  /\ sockfd[c] \in Fds
                  /\ \/ state[c] = "CONNECTING" /\ "WRITE" \in fds[i].events
                     \/ state[c] = "CONNECTED" /\ "READ" \in fds[i].events
                  /\ Buffer_remaining(b) > 0 => "WRITE" \in fds[i].events

\* Once Executor_execute has returned, whatever it returned, every command of
\* every batch has a reply of the server or an error reply (redis.h:210-212).
EveryCommandAnswered ==
    pc = "idle" /\ executed =>
        \A i \in 1..numpairs : ~Batch_has_command(pairs[i].batch)

\* A persistent connection that is kept open has no reply of an earlier batch
\* under way, which the next batch would take for its own; after an execution
\* the open connections are those whose batch has no error.
NoStrayReply ==
    pc = "idle" =>
        /\ \A c \in Connections : state[c] = "CONNECTED" => inflight[c] = 0
        /\ executed => \A i \in 1..numpairs :
              state[pairs[i].connection] =
                  IF error[pairs[i].batch] THEN "ABORTED" ELSE "CONNECTED"

\* Connection_execute_start has been called for pair i.
Started(i) ==
    \/ pc \in {"read", "loop", "poll", "dispatch"}
    \/ pc = "start" /\ i < ordinal
    \/ pc \in {"write", "started"} /\ (i <= ordinal \/ caller = "handle_event")

\* The commands of a batch that wait for a reply are those still in its write
\* buffer, those whose reply is on its connection and those whose reply is in
\* its read buffer: no reply is lost, and none of another batch is among them.
RepliesAreOwn ==
    \A i \in 1..numpairs :
        LET c == pairs[i].connection
            b == pairs[i].batch
        IN Started(i) /\ state[c] # "ABORTED" =>
              /\ current_batch[c] = b
              /\ num_commands[b] =
                    Buffer_remaining(b) + inflight[c] + (buffered[b] - parsed[c])

\* A socket belongs to one connection, and exactly the connections that are
\* connecting or connected hold one: no abort leaks a descriptor.
SocketsOwned ==
    /\ \A c, d \in Connections :
          sockfd[c] \in Fds /\ sockfd[c] = sockfd[d] => c = d
    /\ \A c \in Connections :
          sockfd[c] \in Fds <=> state[c] \in {"CONNECTING", "CONNECTED"}

\* Executor_execute comes back, whatever the sockets do (redis.h:42).
ExecuteTerminates == pc # "idle" ~> pc = "idle"

\* Executor_execute returns when all replies have been received, and says timeout
\* only when it occurred before completion (redis.h:42, 210-211): a timeout is
\* declared only while some command has no reply.
TimeoutMeansUnfinished ==
    [][poll_result' = 0 /\ poll_result # 0 =>
          \E i \in 1..numpairs : Batch_has_command(pairs[i].batch)]_vars

\* Executor_execute keeps its promise (BatchPromise), in particular it returns
\* with no command of a scheduled batch left unanswered.
Promise == INSTANCE BatchPromise WITH
    executing <- pc # "idle",
    scheduled <- IF pc = "idle" THEN {}
                 ELSE {pairs[i].batch : i \in 1..numpairs}

KeepsPromise == Promise!Spec
=============================================================================
