------------------------------- MODULE Buffer -------------------------------
(***************************************************************************)
(* One Buffer of src/libredis/buffer.c, with its memory.  It is used as    *)
(* the rest of libredis uses it: a write buffer is filled by Batch_write,  *)
(* flipped by Connection_execute_start and sent; a read buffer is filled   *)
(* by Buffer_recv; _Batch_free clears or frees both.                       *)
(*                                                                         *)
(* The n-th byte that is put into the buffer is the number n, any other    *)
(* byte in its memory is 0.                                                *)
(***************************************************************************)
EXTENDS Integers, Sequences

CONSTANTS
    BuffSize,     \* DEFAULT_READ_BUFF_SIZE or DEFAULT_WRITE_BUFF_SIZE
    StructSize,   \* sizeof(Buffer)
    Lengths,      \* lengths of the texts Batch_write is called with
    MaxPut        \* bound on the bytes put into a buffer between two clears

\* Both sizes (common.h:13-14) are far above 8: an eighth of one is never 0.
ASSUME BuffSizeAssumption == BuffSize \in Nat /\ BuffSize >= 8
ASSUME BoundsAssumption ==
    StructSize \in Nat /\ Lengths \subseteq Nat /\ MaxPut \in Nat

VARIABLES
    use,         \* "none" (freed), "write" or "read"
    flipped,     \* a write buffer is being sent
    buff,        \* the block allocated with the buffer
    enlarged,    \* the block allocated when it grew, <<>> if there is none
    data,        \* which of them data points to
    position, limit, capacity,
    call,        \* the function that called Buffer_ensure_remaining
    allocated,   \* the bytes counted for this buffer by alloc.h
    put, taken   \* bytes put in, and bytes sent, since the last clear

memoryVars == <<buff, enlarged, data, capacity, allocated>>
vars == <<use, flipped, memoryVars, position, limit, call, put, taken>>

NoCall == [name |-> "none", len |-> 0, min_remaining |-> 0]
Calls == [name : {"none", "write", "recv"}, len : Nat, min_remaining : Nat]

Blank(n) == [i \in 1..n |-> 0]

Memory == IF data = "buff" THEN buff ELSE enlarged

\* Every variable has the type of the C variable it stands for.
TypeOK ==
    /\ use \in {"none", "write", "read"}
    /\ flipped \in BOOLEAN
    /\ buff \in Seq(Nat) /\ enlarged \in Seq(Nat)
    /\ data \in {"buff", "enlarged"}
    /\ position \in Nat /\ limit \in Nat /\ capacity \in Nat
    /\ call \in Calls
    /\ allocated \in Int
    /\ put \in Nat /\ taken \in Seq(Nat)

Init ==
    /\ use = "none" /\ flipped = FALSE
    /\ buff = <<>> /\ enlarged = <<>> /\ data = "buff"
    /\ position = 0 /\ limit = 0 /\ capacity = 0
    /\ call = NoCall
    /\ allocated = 0
    /\ put = 0 /\ taken = <<>>

Buffer_remaining == limit - position

Buffer_new(u) ==
    /\ use = "none"
    /\ use' = u
    /\ buff' = Blank(BuffSize) /\ data' = "buff"
    /\ position' = 0 /\ limit' = BuffSize /\ capacity' = BuffSize
    /\ allocated' = allocated + StructSize + BuffSize
    /\ UNCHANGED <<flipped, enlarged, call, put, taken>>

Free == call = NoCall /\ use # "none"

-----------------------------------------------------------------------------
(***************************************************************************)
(* Filling: Buffer_ensure_remaining and its two callers.                   *)
(***************************************************************************)

Buffer_write(len) ==
    /\ Free /\ use = "write" /\ ~flipped
    /\ put + len <= MaxPut
    /\ call' = [name |-> "write", len |-> len, min_remaining |-> len]
    /\ UNCHANGED <<use, flipped, memoryVars, position, limit, put, taken>>

\* Room for an eighth of the capacity.
Eighth == (capacity * 256) \div 2048

Buffer_recv ==
    /\ Free /\ use = "read"
    /\ put < MaxPut
    /\ call' = [name |-> "recv", len |-> 0, min_remaining |-> Eighth]
    /\ UNCHANGED <<use, flipped, memoryVars, position, limit, put, taken>>

\* Mutant: the loop stops one byte early.
RoomyButOne == Buffer_remaining + 1 >= call.min_remaining

Roomy == Buffer_remaining >= call.min_remaining

Buffer_ensure_remaining ==
    /\ call # NoCall /\ ~Roomy
    /\ limit' = limit * 2
    /\ UNCHANGED <<use, flipped, memoryVars, position, call, put, taken>>

\* Mutant: the bytes are not copied to the new block.
GrownBlank == IF limit > capacity THEN Blank(limit) ELSE Memory

\* The first growth copies buff to a new block, a later one is a realloc.
Grown ==
    IF limit > capacity
    THEN [i \in 1..limit |-> IF i <= capacity THEN Memory[i] ELSE 0]
    ELSE Memory

\* Bytes put + 1 .. put + n arrive at position.
Stored(n) ==
    [i \in 1..Len(Grown) |-> IF i \in position + 1..position + n
                             THEN put + i - position ELSE Grown[i]]

\* The end of Buffer_ensure_remaining, and the n bytes its caller copies or
\* read() returns.
GrowAndStore(n) ==
    LET grows == limit > capacity
    IN /\ data' = IF grows THEN "enlarged" ELSE data
       /\ IF data' = "buff"
          THEN buff' = Stored(n) /\ UNCHANGED enlarged
          ELSE enlarged' = Stored(n) /\ UNCHANGED buff
       /\ allocated' = IF ~grows THEN allocated
                       ELSE IF capacity = BuffSize THEN allocated + limit
                       ELSE allocated - capacity + limit
       /\ capacity' = limit
       /\ position' = position + n
       /\ put' = put + n
       /\ call' = NoCall
       /\ UNCHANGED <<use, flipped, limit, taken>>

WriteData ==
    /\ call.name = "write" /\ Roomy
    /\ GrowAndStore(call.len)

\* read() fails or is at the end of the stream (n = 0), or returns n bytes.
ReadData ==
    /\ call.name = "recv" /\ Roomy
    /\ \E n \in 0..Buffer_remaining : put + n <= MaxPut /\ GrowAndStore(n)

-----------------------------------------------------------------------------
(***************************************************************************)
(* Sending, clearing and freeing.                                          *)
(***************************************************************************)

Buffer_flip ==
    /\ Free /\ use = "write" /\ ~flipped
    /\ limit' = position
    /\ position' = 0
    /\ flipped' = TRUE
    /\ UNCHANGED <<use, memoryVars, call, put, taken>>

\* write() takes n bytes, or none when it fails.
Buffer_send ==
    /\ Free /\ flipped
    /\ Buffer_remaining > 0
    /\ \E n \in 0..Buffer_remaining :
          /\ taken' = taken \o SubSeq(Memory, position + 1, position + n)
          /\ position' = position + n
    /\ UNCHANGED <<use, flipped, memoryVars, limit, call, put>>

Enlarged == capacity > BuffSize

\* Mutant: the limit of a flipped buffer is not reset.
Buffer_clear_flipped ==
    /\ Free
    /\ allocated' = IF Enlarged THEN allocated - capacity ELSE allocated
    /\ enlarged' = IF Enlarged THEN <<>> ELSE enlarged
    /\ data' = "buff"
    /\ buff' = Blank(BuffSize)
    /\ position' = 0 /\ capacity' = BuffSize
    /\ put' = 0 /\ taken' = <<>> /\ flipped' = FALSE
    /\ UNCHANGED <<use, limit, call>>

\* Buffer_clear, then Buffer_fill, as _Batch_free calls them.
Buffer_clear ==
    /\ Free
    /\ allocated' = IF Enlarged THEN allocated - capacity ELSE allocated
    /\ enlarged' = IF Enlarged THEN <<>> ELSE enlarged
    /\ data' = "buff"
    /\ buff' = Blank(BuffSize)
    /\ position' = 0 /\ limit' = BuffSize /\ capacity' = BuffSize
    /\ put' = 0 /\ taken' = <<>> /\ flipped' = FALSE
    /\ UNCHANGED <<use, call>>

\* Mutant: gives back limit bytes, which flip has moved, not capacity.
Buffer_free_limit ==
    /\ Free
    /\ allocated' = allocated - BuffSize - StructSize
                      - (IF Enlarged THEN limit ELSE 0)
    /\ buff' = <<>>
    /\ enlarged' = IF Enlarged THEN <<>> ELSE enlarged
    /\ use' = "none" /\ data' = "buff" /\ flipped' = FALSE
    /\ position' = 0 /\ limit' = 0 /\ capacity' = 0
    /\ put' = 0 /\ taken' = <<>>
    /\ UNCHANGED call

Buffer_free ==
    /\ Free
    /\ allocated' = allocated - BuffSize - StructSize
                      - (IF Enlarged THEN capacity ELSE 0)
    /\ buff' = <<>>
    /\ enlarged' = IF Enlarged THEN <<>> ELSE enlarged
    /\ use' = "none" /\ data' = "buff" /\ flipped' = FALSE
    /\ position' = 0 /\ limit' = 0 /\ capacity' = 0
    /\ put' = 0 /\ taken' = <<>>
    /\ UNCHANGED call

Next ==
    \/ \E u \in {"write", "read"} : Buffer_new(u)
    \/ \E len \in Lengths : Buffer_write(len)
    \/ Buffer_recv
    \/ Buffer_ensure_remaining
    \/ WriteData
    \/ ReadData
    \/ Buffer_flip
    \/ Buffer_send
    \/ Buffer_clear
    \/ Buffer_free

Spec == Init /\ [][Next]_vars

\* Once in Buffer_ensure_remaining its thread goes on.
FairSpec == Spec /\ WF_vars(Buffer_ensure_remaining \/ WriteData \/ ReadData)

-----------------------------------------------------------------------------
(***************************************************************************)
(* Properties.                                                             *)
(***************************************************************************)

\* Buffer_ensure_remaining finds limit = capacity (assert, buffer.c:133) and
\* position, limit and capacity stay inside the block that data points to.
WithinBlock ==
    use # "none" =>
      /\ position <= limit
      /\ Len(Memory) = capacity
      /\ limit <= capacity \/ call # NoCall
      /\ ~flipped /\ call = NoCall => limit = capacity
      /\ data = "enlarged" <=> Enlarged

\* The first block lives as long as the buffer, the other while it is enlarged.
BlocksExist ==
    /\ Len(buff) = IF use = "none" THEN 0 ELSE BuffSize
    /\ data = "buff" => enlarged = <<>>
    /\ use # "none" => capacity >= BuffSize

\* A buffer that was freed, and one that waits for no function to return.
AtRest ==
    /\ use = "none" =>
          /\ data = "buff" /\ ~flipped /\ call = NoCall
          /\ position = 0 /\ limit = 0 /\ put = 0 /\ taken = <<>>
    /\ flipped => use = "write" /\ call = NoCall

\* Who is in Buffer_ensure_remaining, and for how much room: its limit starts
\* from capacity and only grows.
CallOK ==
    call # NoCall =>
      /\ position <= capacity /\ capacity <= limit
      /\ \/ call.name = "write" /\ use = "write" /\ call.min_remaining = call.len
         \/ call.name = "recv" /\ use = "read" /\ call.min_remaining = Eighth

\* The bytes counted are those of the blocks that exist, whatever the buffer
\* has been through: growth, Buffer_clear and Buffer_free agree on its size.
Balanced ==
    allocated = Len(buff) + Len(enlarged) + (IF use = "none" THEN 0 ELSE StructSize)

\* The inductive invariant.  With it position, limit and capacity stay inside
\* the block that data points to, whatever order of growth, flip, partial sends,
\* clear and reuse a buffer goes through.
BufferInv == TypeOK /\ WithinBlock /\ BlocksExist /\ AtRest /\ CallOK /\ Balanced

\* The doubling of limit in Buffer_ensure_remaining comes to an end.
EnsureEnds == call # NoCall ~> call = NoCall

\* Growth, flip and partial sends lose, repeat and reorder no byte.
Queue == INSTANCE ByteQueue WITH
    queue <- IF flipped THEN SubSeq(Memory, position + 1, limit)
             ELSE SubSeq(Memory, 1, position)

KeepsBytes == Queue!Spec
=============================================================================
