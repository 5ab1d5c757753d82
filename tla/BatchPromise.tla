---------------------------- MODULE BatchPromise ----------------------------
(***************************************************************************)
(* What Executor_execute promises to the application about its batches     *)
(* (src/libredis/redis.h:207-214), without sockets, events or time: each   *)
(* command of each batch gets one reply of the server or one error reply,  *)
(* the error replies come after the replies, and the call does not come    *)
(* back before every command has its reply.                                *)
(***************************************************************************)
EXTENDS Integers

CONSTANTS Batches, MaxCommands

VARIABLES
    num_commands,  \* commands without a reply
    replies,       \* commands answered by the server
    errors,        \* commands answered by an error reply
    executing,     \* the application is inside Executor_execute
    scheduled      \* the batches being executed

vars == <<num_commands, replies, errors, executing, scheduled>>

Init ==
    /\ num_commands = [b \in Batches |-> 0]
    /\ replies = [b \in Batches |-> 0]
    /\ errors = [b \in Batches |-> 0]
    /\ executing = FALSE
    /\ scheduled = {}

Write(b) ==
    /\ ~executing
    /\ num_commands[b] < MaxCommands
    /\ replies[b] + errors[b] = 0
    /\ num_commands' = [num_commands EXCEPT ![b] = @ + 1]
    /\ UNCHANGED <<replies, errors, executing, scheduled>>

Renew(b) ==
    /\ ~executing
    /\ num_commands' = [num_commands EXCEPT ![b] = 0]
    /\ replies' = [replies EXCEPT ![b] = 0]
    /\ errors' = [errors EXCEPT ![b] = 0]
    /\ UNCHANGED <<executing, scheduled>>

Execute(S) ==
    /\ ~executing
    /\ \A b \in S : num_commands[b] > 0 /\ replies[b] + errors[b] = 0
    /\ executing' = TRUE
    /\ scheduled' = S
    /\ UNCHANGED <<num_commands, replies, errors>>

Answer(b) ==
    /\ b \in scheduled
    /\ num_commands[b] > 0
    /\ errors[b] = 0
    /\ num_commands' = [num_commands EXCEPT ![b] = @ - 1]
    /\ replies' = [replies EXCEPT ![b] = @ + 1]
    /\ UNCHANGED <<errors, executing, scheduled>>

Abort(b) ==
    /\ b \in scheduled
    /\ num_commands[b] > 0
    /\ errors' = [errors EXCEPT ![b] = num_commands[b]]
    /\ num_commands' = [num_commands EXCEPT ![b] = 0]
    /\ UNCHANGED <<replies, executing, scheduled>>

Return ==
    /\ executing
    /\ \A b \in scheduled : num_commands[b] = 0
    /\ executing' = FALSE
    /\ scheduled' = {}
    /\ UNCHANGED <<num_commands, replies, errors>>

Next ==
    \/ \E b \in Batches : Write(b) \/ Renew(b) \/ Answer(b) \/ Abort(b)
    \/ \E S \in SUBSET Batches : Execute(S)
    \/ Return

Spec == Init /\ [][Next]_vars
=============================================================================
