------------------------- MODULE ExecutorInvariant --------------------------
(***************************************************************************)
(* The inductive invariant of Executor, for an application that uses the   *)
(* library as documented (Liberties = {}).  It says of each pair, in each  *)
(* phase of an execution, what its connection, its batch and its pollfd    *)
(* look like.  TLC checks it; ExecutorHandlerProofs and ExecutorLoopProofs *)
(* prove it.                                                               *)
(***************************************************************************)
EXTENDS Executor

\* The pair whose handler is running.
Current(i) == pc \in {"write", "started", "read"} /\ i = ordinal

\* Inside the loop over the pairs that follows each poll().
Dispatching ==
    pc \in {"dispatch", "read"} \/ (pc = "write" /\ caller = "handle_event")

\* The control state: which pair is handled, why, and with what event.
ControlOK ==
    /\ pc \in {"start", "dispatch"} => ordinal <= numpairs + 1
    /\ pc \in {"write", "started", "read"} => ordinal <= numpairs
    /\ pc = "started" => caller = "execute_start"
    /\ pc = "read" => caller = "handle_event"
    /\ pc \in {"write", "read"} /\ caller = "handle_event" => poll_result = 1
    /\ pc = "poll" => poll_result = 1

PairsDistinct ==
    \A i, j \in 1..numpairs :
        \/ i = j
        \/ /\ pairs[i].connection # pairs[j].connection
           /\ pairs[i].batch # pairs[j].batch

\* The pairs of an executor that was never executed are not being executed.
Begun == pc # "idle" => executed

\* A connection that no handler of this execution has touched is at rest.
AtRest ==
    \A c \in Connections :
        (\A i \in 1..numpairs : Started(i) => pairs[i].connection # c)
            => state[c] # "CONNECTING" /\ inflight[c] = 0

\* A batch that was never executed holds only the commands written into it.
Unsent ==
    \A b \in Batches :
        /\ Fresh(b)
        /\ \A i \in 1..numpairs : Started(i) => pairs[i].batch # b
        => position[b] = num_commands[b] /\ buffered[b] = 0

ReadyToStart(c, b, pfd) ==
    /\ num_commands[b] > 0
    /\ Fresh(b)
    /\ pfd.events = {}
    /\ pfd.revents = {}

\* The books of a started pair, and where an aborted one ends.
Accounted(c, b) ==
    /\ state[c] # "ABORTED" =>
          /\ current_batch[c] = b
          /\ ~error[b] /\ errors[b] = 0
          /\ position[b] <= limit[b]
          /\ parsed[c] <= buffered[b]
          /\ num_commands[b] =
                Buffer_remaining(b) + inflight[c] + (buffered[b] - parsed[c])
    /\ state[c] = "ABORTED" =>
          error[b] /\ num_commands[b] = 0 /\ inflight[c] = 0
    /\ Fresh(b) => num_commands[b] > 0

\* The events a started pair has registered while its handler is not running.
Settled(c, b, pfd) ==
    /\ state[c] # "CLOSED"
    /\ state[c] = "CONNECTING" =>
          num_commands[b] > 0 /\ pfd.events = {"WRITE"}
    /\ state[c] = "CONNECTED" /\ num_commands[b] > 0 =>
          /\ "READ" \in pfd.events
          /\ Buffer_remaining(b) > 0 => "WRITE" \in pfd.events
    /\ state[c] # "ABORTED" /\ num_commands[b] > 0 => pfd.fd = sockfd[c]
    /\ pfd.revents \subseteq pfd.events

\* The same while its handler is in Connection_write_data, called by
\* Connection_execute_start or by Connection_handle_event ...
Writing(c, b, pfd) ==
    /\ num_commands[b] > 0
    /\ pfd.revents = {}
    /\ caller = "execute_start" =>
          state[c] \in {"CLOSED", "CONNECTED"} /\ pfd.events = {}
    /\ caller = "handle_event" =>
          /\ "WRITE" \in event /\ "WRITE" \notin pfd.events
          /\ \/ state[c] = "CONNECTING" /\ event = {"WRITE"} /\ pfd.events = {}
             \/ state[c] = "CONNECTED" /\ ("READ" \in event <=> pfd.events = {})
          /\ pfd.events # {} => pfd.fd = sockfd[c]

\* ... back in Connection_execute_start ...
Starting(c, b, pfd) ==
    /\ pfd.revents = {}
    /\ \/ state[c] = "ABORTED" /\ pfd.events = {}
       \/ state[c] = "CONNECTING" /\ pfd.events = {"WRITE"}
       \/ state[c] = "CONNECTED" /\ pfd.events \subseteq {"WRITE"}
    /\ state[c] = "CONNECTED" /\ Buffer_remaining(b) > 0 => pfd.events = {"WRITE"}
    /\ state[c] # "ABORTED" =>
          num_commands[b] > 0 /\ (pfd.events # {} => pfd.fd = sockfd[c])

\* ... and in Connection_read_data.
Receiving(c, b, pfd) ==
    /\ pfd.revents = {}
    /\ state[c] \in {"CONNECTED", "ABORTED"}
    /\ pfd.events \subseteq {"WRITE"}
    /\ state[c] = "CONNECTED" /\ Buffer_remaining(b) > 0 => pfd.events = {"WRITE"}
    /\ state[c] = "CONNECTED" /\ pfd.events # {} => pfd.fd = sockfd[c]

PairOK(i) ==
    LET c == pairs[i].connection
        b == pairs[i].batch
    IN /\ pc # "idle" /\ ~Started(i) => ReadyToStart(c, b, fds[i])
       /\ Started(i) => Accounted(c, b)
       /\ Started(i) /\ ~Current(i) =>
             /\ Settled(c, b, fds[i])
             /\ ~Dispatching \/ i < ordinal => fds[i].revents = {}
             /\ poll_result < 1 /\ (pc = "loop" \/ (pc = "dispatch" /\ i < ordinal))
                   => num_commands[b] = 0
       /\ Current(i) =>
             /\ pc = "write" => Writing(c, b, fds[i])
             /\ pc = "started" => Starting(c, b, fds[i])
             /\ pc = "read" => Receiving(c, b, fds[i])
       /\ pc = "idle" /\ ~executed => fds[i].events = {} /\ fds[i].revents = {}
       /\ pc = "idle" /\ executed =>
             /\ num_commands[b] = 0 /\ ~Fresh(b)
             /\ state[c] = IF error[b] THEN "ABORTED" ELSE "CONNECTED"

ExecutionInv ==
    /\ TypeOK
    /\ ControlOK
    /\ Begun
    /\ PairsDistinct
    /\ SocketsOwned
    /\ AtRest
    /\ Unsent
    /\ EventCountExact
    /\ \A i \in 1..numpairs : PairOK(i)
=============================================================================
