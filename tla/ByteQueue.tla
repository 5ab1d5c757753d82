----------------------------- MODULE ByteQueue -----------------------------
(***************************************************************************)
(* What a Buffer is for (src/libredis/buffer.h): bytes go in at the end,   *)
(* and come out at the front in the same order, each of them once.  The    *)
(* n-th byte that was put in is the number n.                              *)
(***************************************************************************)
EXTENDS Integers, Sequences

VARIABLES
    queue,   \* the bytes inside, oldest first
    put,     \* how many were put in since the queue was last emptied
    taken    \* the bytes that were taken out since then, in order

vars == <<queue, put, taken>>

Init == queue = <<>> /\ put = 0 /\ taken = <<>>

Put ==
    /\ put' >= put
    /\ queue' = queue \o [i \in 1..(put' - put) |-> put + i]
    /\ UNCHANGED taken

Take ==
    /\ \E k \in 0..Len(queue) :
          /\ taken' = taken \o SubSeq(queue, 1, k)
          /\ queue' = SubSeq(queue, k + 1, Len(queue))
    /\ UNCHANGED put

Empty == queue' = <<>> /\ put' = 0 /\ taken' = <<>>

Next == Put \/ Take \/ Empty

Spec == Init /\ [][Next]_vars
=============================================================================
