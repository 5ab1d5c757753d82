------------------------------ MODULE MCKetama ------------------------------
(***************************************************************************)
(* Small rings: all orders of the points of up to three servers.           *)
(***************************************************************************)
EXTENDS KetamaInvariant

\* The sizes on a 64-bit machine, a serverinfo being an address and a weight.
Sizes == [Ketama |-> 40, serverinfo |-> 264, mcs |-> 8]
=============================================================================
