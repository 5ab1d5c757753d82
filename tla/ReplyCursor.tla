---------------------------- MODULE ReplyCursor ----------------------------
(***************************************************************************)
(* What Batch_next_reply promises (src/libredis/redis.h:170-179): it reads *)
(* the replies of a batch in the order of the commands, each multibulk     *)
(* reply followed by its elements, returns 0 after the last one, and then  *)
(* starts again.                                                           *)
(*                                                                         *)
(* An entry is <<i, 0>>, the reply of the i-th command, or <<i, j>>, the   *)
(* j-th element of that reply.                                             *)
(***************************************************************************)
EXTENDS Integers

VARIABLES
    entries,    \* everything there is to read
    place,      \* the last entry read, or Start before and after a round
    level       \* what the call returned: 0 at the end, 2 for an element

vars == <<entries, place, level>>

Start == <<0, 0>>

Before(x, y) == x[1] < y[1] \/ (x[1] = y[1] /\ x[2] < y[2])

Unread == {e \in entries : Before(place, e)}

Init == entries = {} /\ place = Start /\ level = 0

\* Between two rounds: more replies, behind those there are.
Add ==
    /\ place = Start
    /\ entries \subseteq entries' /\ entries' \subseteq (Nat \ {0}) \X Nat
    /\ \A d \in entries, e \in entries' \ entries : Before(d, e)
    /\ UNCHANGED <<place, level>>

\* The batch is freed, and a new one read.
Renew == entries' = {} /\ place' = Start /\ level' = 0

Read ==
    /\ \E e \in Unread :
          /\ \A d \in Unread : d = e \/ Before(e, d)
          /\ place' = e
          /\ level' = IF e[2] = 0 THEN 1 ELSE 2
    /\ UNCHANGED entries

EndRound ==
    /\ Unread = {}
    /\ place' = Start /\ level' = 0
    /\ UNCHANGED entries

Next == Add \/ Renew \/ Read \/ EndRound

Spec == Init /\ [][Next]_vars
=============================================================================
