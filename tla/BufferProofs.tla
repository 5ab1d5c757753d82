---------------------------- MODULE BufferProofs ----------------------------
(***************************************************************************)
(* Theorems about a Buffer, for every initial size of at least 8 and every *)
(* mixture of writes and reads, of any length.                             *)
(***************************************************************************)
EXTENDS Buffer, SequenceTheorems, TLAPS

LEMMA BlankIsSeq ==
  ASSUME NEW n \in Nat
  PROVE  Blank(n) \in Seq(Nat) /\ Len(Blank(n)) = n
BY DEF Blank

LEMMA MemoryType == TypeOK => Memory \in Seq(Nat)
BY DEF TypeOK, Memory

\* The block after Buffer_ensure_remaining and the copying of n bytes.
LEMMA StoredFacts ==
  ASSUME BufferInv, call # NoCall, NEW n \in Nat, position + n <= limit
  PROVE  /\ Stored(n) \in Seq(Nat) /\ Len(Stored(n)) = limit
         /\ \A i \in 1..limit :
               Stored(n)[i] = IF i \in position + 1..position + n
                              THEN put + i - position ELSE Grown[i]
         /\ \A i \in 1..position : Stored(n)[i] = Memory[i]
<1>1. /\ Memory \in Seq(Nat) /\ Len(Memory) = capacity /\ position <= limit
      /\ position \in Nat /\ limit \in Nat /\ capacity \in Nat /\ put \in Nat
      /\ position <= capacity /\ capacity <= limit
  BY MemoryType DEF BufferInv, TypeOK, WithinBlock, AtRest, CallOK
<1>2. /\ Grown \in Seq(Nat) /\ Len(Grown) = limit
      /\ \A i \in 1..capacity : Grown[i] = Memory[i]
  <2>1. CASE limit > capacity
    <3> DEFINE g == [i \in 1..limit |-> IF i <= capacity THEN Memory[i] ELSE 0]
    <3>1. \A i \in 1..limit : (IF i <= capacity THEN Memory[i] ELSE 0) \in Nat
      BY <1>1
    <3>2. g \in Seq(Nat) /\ Len(g) = limit
      BY <1>1, <3>1
    <3>3. Grown = g
      BY <2>1 DEF Grown
    <3> QED
      BY <1>1, <2>1, <3>2, <3>3
  <2>2. CASE limit = capacity
    BY <1>1, <2>2 DEF Grown
  <2> QED
    BY <1>1, <2>1, <2>2
<1> DEFINE e(i) == IF i \in position + 1..position + n
                   THEN put + i - position ELSE Grown[i]
<1>3. \A i \in 1..limit : e(i) \in Nat
  BY <1>1, <1>2
<1>4. Stored(n) = [i \in 1..limit |-> e(i)]
  BY <1>2 DEF Stored
<1>5. [i \in 1..limit |-> e(i)] \in Seq(Nat)
  BY <1>1, <1>3
<1>6. \A i \in 1..limit : Stored(n)[i] = e(i)
  BY <1>4
<1>7. \A i \in 1..position : i \in 1..limit /\ i \in 1..capacity
                               /\ i \notin position + 1..position + n
  BY <1>1
<1>8. Len(Stored(n)) = limit
  BY <1>1, <1>4
<1>9. Stored(n) \in Seq(Nat)
  BY <1>4, <1>5
<1> QED
  BY <1>2, <1>6, <1>7, <1>8, <1>9

LEMMA InitInv == Init => BufferInv
<1> SUFFICES ASSUME Init PROVE BufferInv
  OBVIOUS
<1>1. flipped \in BOOLEAN
  BY DEF Init
<1>2. NoCall \in Calls
  BY DEF NoCall, Calls
<1>3. TypeOK
  BY <1>1, <1>2 DEF Init, TypeOK
<1> QED
  BY <1>3 DEF Init, BufferInv, WithinBlock, BlocksExist, AtRest, CallOK, Balanced

LEMMA NewKeeps ==
  ASSUME BufferInv, NEW u \in {"write", "read"}, Buffer_new(u)
  PROVE  BufferInv'
<1>1. Blank(BuffSize) \in Seq(Nat) /\ Len(Blank(BuffSize)) = BuffSize
  BY BlankIsSeq, BuffSizeAssumption
<1>2. /\ use = "none" /\ call = NoCall /\ ~flipped /\ enlarged = <<>>
      /\ Len(buff) = 0 /\ put = 0 /\ taken = <<>>
  BY DEF Buffer_new, BufferInv, AtRest, BlocksExist
<1>3. Memory' = Blank(BuffSize)
  BY DEF Buffer_new, Memory
<1>4. TypeOK'
  <2>1. allocated' \in Int
    BY BoundsAssumption, BuffSizeAssumption DEF Buffer_new, BufferInv, TypeOK
  <2> QED
    BY <1>1, <2>1, BuffSizeAssumption DEF Buffer_new, BufferInv, TypeOK
<1>5. WithinBlock' /\ BlocksExist' /\ AtRest' /\ CallOK'
  BY <1>1, <1>2, <1>3, BuffSizeAssumption
     DEF Buffer_new, WithinBlock, BlocksExist, AtRest, CallOK, Enlarged
<1>6. Balanced'
  BY <1>1, <1>2, BuffSizeAssumption, BoundsAssumption
     DEF Buffer_new, BufferInv, TypeOK, Balanced
<1> QED
  BY <1>4, <1>5, <1>6 DEF BufferInv

\* A call that begins asks for room; nothing else changes.
LEMMA CallKeeps ==
  ASSUME BufferInv, Free, ~flipped, UNCHANGED <<use, flipped, memoryVars, position, limit, put, taken>>,
         NEW len \in Nat, NEW min \in Nat,
         \/ /\ use = "write" /\ min = len
            /\ call' = [name |-> "write", len |-> len, min_remaining |-> min]
         \/ /\ use = "read" /\ min = Eighth
            /\ call' = [name |-> "recv", len |-> len, min_remaining |-> min]
  PROVE  BufferInv'
<1>1. call' \in Calls /\ Memory' = Memory /\ Eighth' = Eighth
  BY DEF Calls, Memory, memoryVars, Eighth
<1>2. limit = capacity /\ position <= limit /\ position \in Nat /\ limit \in Nat
  BY DEF Free, BufferInv, TypeOK, WithinBlock
<1>3. TypeOK'
  BY <1>1 DEF BufferInv, TypeOK, memoryVars
<1>4. WithinBlock' /\ BlocksExist' /\ AtRest' /\ Balanced'
  BY <1>1, <1>2 DEF BufferInv, Free, WithinBlock, BlocksExist, AtRest, Balanced, Enlarged, memoryVars
<1>5. CallOK'
  BY <1>1, <1>2 DEF CallOK, Eighth, memoryVars
<1> QED
  BY <1>3, <1>4, <1>5 DEF BufferInv

LEMMA EighthType == BufferInv => Eighth \in Nat
  BY DEF BufferInv, TypeOK, Eighth

LEMMA EnsureKeeps == BufferInv /\ Buffer_ensure_remaining => BufferInv'
<1> SUFFICES ASSUME BufferInv, Buffer_ensure_remaining PROVE BufferInv'
  OBVIOUS
<1>1. /\ limit \in Nat /\ limit' = limit * 2 /\ limit' \in Nat /\ limit <= limit'
      /\ position \in Nat /\ capacity \in Nat /\ call # NoCall
  BY DEF Buffer_ensure_remaining, BufferInv, TypeOK
<1>2. Memory' = Memory /\ Eighth' = Eighth /\ Enlarged' = Enlarged
  BY DEF Buffer_ensure_remaining, Memory, memoryVars, Eighth, Enlarged
<1>3. TypeOK'
  BY <1>1 DEF Buffer_ensure_remaining, BufferInv, TypeOK, memoryVars
<1>4. WithinBlock' /\ BlocksExist' /\ AtRest' /\ Balanced'
  BY <1>1, <1>2 DEF Buffer_ensure_remaining, BufferInv, WithinBlock, BlocksExist,
     AtRest, Balanced, memoryVars
<1>5. CallOK'
  BY <1>1, <1>2 DEF Buffer_ensure_remaining, BufferInv, CallOK, memoryVars
<1> QED
  BY <1>3, <1>4, <1>5 DEF BufferInv

LEMMA GrowKeeps ==
  ASSUME BufferInv, call # NoCall, NEW n \in Nat, position + n <= limit, GrowAndStore(n)
  PROVE  BufferInv' /\ Memory' = Stored(n)
<1>1. /\ Stored(n) \in Seq(Nat) /\ Len(Stored(n)) = limit
  BY StoredFacts
<1>2. /\ position \in Nat /\ limit \in Nat /\ capacity \in Nat /\ put \in Nat
      /\ position <= capacity /\ capacity <= limit /\ BuffSize <= capacity
      /\ use # "none" /\ use' = use /\ ~flipped /\ flipped' = flipped
      /\ limit' = limit /\ capacity' = limit /\ position' = position + n
      /\ call' = NoCall /\ taken' = taken /\ put' = put + n
      /\ Len(Memory) = capacity /\ Len(buff) = BuffSize
      /\ data = "enlarged" <=> capacity > BuffSize
      /\ data = "buff" => enlarged = <<>>
      /\ BuffSize \in Nat
  BY BuffSizeAssumption DEF GrowAndStore, BufferInv, TypeOK, WithinBlock, BlocksExist,
     AtRest, CallOK, Enlarged
<1>3. data \in {"buff", "enlarged"} /\ data' \in {"buff", "enlarged"}
  BY DEF GrowAndStore, BufferInv, TypeOK
<1>4. Memory' = Stored(n)
  BY <1>3 DEF GrowAndStore, Memory
<1>5. data' = "enlarged" <=> limit > BuffSize
  BY <1>2, <1>3 DEF GrowAndStore
\* The first block keeps its size: it is written to while limit is BuffSize.
<1>6. /\ Len(buff') = BuffSize /\ buff' \in Seq(Nat) /\ enlarged' \in Seq(Nat)
      /\ data' = "buff" => enlarged' = <<>>
  <2>1. buff \in Seq(Nat) /\ enlarged \in Seq(Nat)
    BY DEF BufferInv, TypeOK
  <2>2. CASE data' = "buff"
    <3>1. limit = BuffSize /\ data = "buff"
      BY <1>2, <1>3, <1>5, <2>2
    <3>2. buff' = Stored(n) /\ enlarged' = enlarged
      BY <2>2 DEF GrowAndStore
    <3> QED
      BY <1>1, <1>2, <2>1, <3>1, <3>2
  <2>3. CASE data' # "buff"
    <3>1. enlarged' = Stored(n) /\ buff' = buff
      BY <2>3 DEF GrowAndStore
    <3> QED
      BY <1>1, <1>2, <2>1, <2>3, <3>1
  <2> QED
    BY <2>2, <2>3
<1>7. TypeOK'
  <2>1. NoCall \in Calls
    BY DEF NoCall, Calls
  <2>2. allocated' \in Int
    BY <1>2 DEF GrowAndStore, BufferInv, TypeOK
  <2> QED
    BY <1>2, <1>3, <1>6, <2>1, <2>2 DEF BufferInv, TypeOK
<1>8. WithinBlock'
  BY <1>1, <1>2, <1>4, <1>5 DEF WithinBlock, Enlarged
<1>9. BlocksExist' /\ AtRest' /\ CallOK'
  BY <1>2, <1>6 DEF BlocksExist, AtRest, CallOK
<1>10. Balanced'
  <2>1. /\ allocated = Len(buff) + Len(enlarged) + StructSize
        /\ StructSize \in Nat /\ enlarged \in Seq(Nat)
    BY <1>2, BoundsAssumption DEF BufferInv, Balanced, TypeOK
  <2>2. allocated' = Len(buff') + Len(enlarged') + StructSize
    <3>1. CASE data' = "buff"
      <4>1. ~(limit > capacity) /\ data = "buff"
        BY <1>2, <1>3, <1>5, <3>1
      <4>2. allocated' = allocated /\ enlarged' = <<>> /\ enlarged = <<>>
        BY <1>2, <1>6, <3>1, <4>1 DEF GrowAndStore
      <4> QED
        BY <1>2, <1>6, <2>1, <4>2
    <3>2. CASE data' # "buff"
      <4>1. Len(enlarged') = limit
        BY <1>1, <3>2 DEF GrowAndStore
      <4>2. CASE capacity = BuffSize
        <5>1. data = "buff" /\ Len(enlarged) = 0 /\ limit > capacity
          BY <1>2, <1>3, <1>5, <3>2, <4>2
        <5>2. allocated' = allocated + limit
          BY <4>2, <5>1 DEF GrowAndStore
        <5> QED
          BY <1>2, <1>6, <2>1, <4>1, <5>1, <5>2
      <4>3. CASE capacity # BuffSize
        <5>1. data = "enlarged" /\ Len(enlarged) = capacity
          BY <1>2, <1>3, <4>3 DEF Memory
        <5>2. allocated' = allocated - capacity + limit
          BY <1>2, <2>1, <4>3 DEF GrowAndStore
        <5>3. allocated = BuffSize + capacity + StructSize
          BY <1>2, <2>1, <5>1
        <5>4. /\ Len(buff') = BuffSize /\ BuffSize \in Nat /\ capacity \in Nat
              /\ limit \in Nat /\ StructSize \in Nat
          BY <1>2, <1>6, <2>1
        <5> QED
          BY <4>1, <5>2, <5>3, <5>4
      <4> QED
        BY <4>2, <4>3
    <3> QED
      BY <3>1, <3>2
  <2> QED
    BY <1>2, <2>2 DEF Balanced
<1> QED
  BY <1>4, <1>7, <1>8, <1>9, <1>10 DEF BufferInv

LEMMA FlipKeeps == BufferInv /\ Buffer_flip => BufferInv'
<1> SUFFICES ASSUME BufferInv, Buffer_flip PROVE BufferInv'
  OBVIOUS
<1>1. /\ Memory' = Memory /\ use = "write" /\ use' = "write" /\ call = NoCall
      /\ call' = NoCall /\ limit' = position /\ position' = 0 /\ flipped' = TRUE
      /\ position \in Nat /\ position <= limit /\ limit = capacity /\ limit \in Nat
  BY DEF Buffer_flip, Free, memoryVars, Memory, BufferInv, TypeOK, WithinBlock
<1>2. TypeOK'
  BY <1>1 DEF Buffer_flip, memoryVars, BufferInv, TypeOK
<1>3. WithinBlock' /\ BlocksExist' /\ AtRest' /\ CallOK' /\ Balanced'
  BY <1>1 DEF Buffer_flip, memoryVars, BufferInv, WithinBlock, BlocksExist, AtRest,
     CallOK, Balanced, Enlarged
<1> QED
  BY <1>2, <1>3 DEF BufferInv

\* What is sent is what is left in front of limit.
LEMMA SendFacts ==
  ASSUME BufferInv, flipped, NEW n \in 0..Buffer_remaining
  PROVE  /\ Memory \in Seq(Nat)
         /\ position \in Nat /\ limit \in Nat /\ n \in Nat
         /\ position + n \in Nat /\ position + n <= limit /\ limit <= Len(Memory)
         /\ SubSeq(Memory, position + 1, position + n) \in Seq(Nat)
<1>1. /\ Memory \in Seq(Nat) /\ position \in Nat /\ limit \in Nat
      /\ capacity \in Nat /\ position <= limit /\ limit <= capacity
      /\ Len(Memory) = capacity /\ position + n <= limit /\ n \in Nat
  BY MemoryType DEF BufferInv, TypeOK, WithinBlock, AtRest, Buffer_remaining
<1>2. \A i \in position + 1..position + n : Memory[i] \in Nat
  BY <1>1
<1>3. SubSeq(Memory, position + 1, position + n) \in Seq(Nat)
  BY <1>1, <1>2, SubSeqProperties
<1> QED
  BY <1>1, <1>3

LEMMA SendKeeps == BufferInv /\ Buffer_send => BufferInv'
<1> SUFFICES ASSUME BufferInv, Buffer_send PROVE BufferInv'
  OBVIOUS
<1>1. PICK n \in 0..Buffer_remaining :
         /\ taken' = taken \o SubSeq(Memory, position + 1, position + n)
         /\ position' = position + n
  BY DEF Buffer_send
<1>2. /\ position' \in Nat /\ position' <= limit
      /\ SubSeq(Memory, position + 1, position + n) \in Seq(Nat)
  BY <1>1, SendFacts DEF Buffer_send
<1>3. taken' \in Seq(Nat)
  BY <1>1, <1>2 DEF BufferInv, TypeOK
<1>4. Memory' = Memory
  BY DEF Buffer_send, memoryVars, Memory
<1>5. TypeOK'
  BY <1>2, <1>3 DEF Buffer_send, memoryVars, BufferInv, TypeOK
<1>6. WithinBlock' /\ BlocksExist' /\ AtRest' /\ CallOK' /\ Balanced'
  BY <1>2, <1>4 DEF Buffer_send, Free, memoryVars, BufferInv, WithinBlock, BlocksExist,
     AtRest, CallOK, Balanced, Enlarged
<1> QED
  BY <1>5, <1>6 DEF BufferInv

LEMMA ClearKeeps == BufferInv /\ Buffer_clear => BufferInv'
<1> SUFFICES ASSUME BufferInv, Buffer_clear PROVE BufferInv'
  OBVIOUS
<1>1. Blank(BuffSize) \in Seq(Nat) /\ Len(Blank(BuffSize)) = BuffSize
  BY BlankIsSeq, BuffSizeAssumption
<1>2. /\ use # "none" /\ use' = use /\ call = NoCall /\ call' = NoCall
      /\ flipped' = FALSE /\ data' = "buff" /\ buff' = Blank(BuffSize)
      /\ position' = 0 /\ limit' = BuffSize /\ capacity' = BuffSize
      /\ put' = 0 /\ taken' = <<>> /\ Memory' = Blank(BuffSize)
      /\ Len(buff) = BuffSize /\ BuffSize \in Nat /\ capacity \in Nat
      /\ Enlarged <=> data = "enlarged"
  BY BuffSizeAssumption DEF Buffer_clear, Free, Memory, BufferInv, TypeOK, WithinBlock, BlocksExist
<1>3. enlarged' = <<>>
  <2>1. CASE Enlarged
    BY <2>1 DEF Buffer_clear
  <2>2. CASE ~Enlarged
    BY <1>2, <2>2 DEF Buffer_clear, BufferInv, BlocksExist, TypeOK
  <2> QED
    BY <2>1, <2>2
<1>4. /\ allocated' = BuffSize + StructSize /\ StructSize \in Nat
  <2>1. allocated = BuffSize + Len(enlarged) + StructSize /\ StructSize \in Nat
    BY <1>2, BoundsAssumption DEF BufferInv, Balanced
  <2>2. CASE Enlarged
    <3>1. Len(enlarged) = capacity /\ allocated' = allocated - capacity
      BY <1>2, <2>2 DEF Buffer_clear, BufferInv, WithinBlock, Memory
    <3> QED
      BY <1>2, <2>1, <3>1
  <2>3. CASE ~Enlarged
    <3>1. Len(enlarged) = 0 /\ allocated' = allocated
      BY <1>2, <2>3 DEF Buffer_clear, BufferInv, BlocksExist, TypeOK
    <3> QED
      BY <1>2, <2>1, <3>1
  <2> QED
    BY <2>2, <2>3
<1>5. TypeOK'
  <2>1. flipped' \in BOOLEAN
    BY <1>2
  <2>2. call' \in Calls
    BY <1>2 DEF NoCall, Calls
  <2> QED
    BY <1>1, <1>2, <1>3, <1>4, <2>1, <2>2 DEF BufferInv, TypeOK
<1>6. WithinBlock' /\ BlocksExist' /\ AtRest' /\ CallOK'
  BY <1>1, <1>2, <1>3 DEF WithinBlock, BlocksExist, AtRest, CallOK, Enlarged
<1>7. Balanced'
  BY <1>1, <1>2, <1>3, <1>4 DEF Balanced
<1> QED
  BY <1>5, <1>6, <1>7 DEF BufferInv

LEMMA FreeKeeps == BufferInv /\ Buffer_free => BufferInv'
<1> SUFFICES ASSUME BufferInv, Buffer_free PROVE BufferInv'
  OBVIOUS
<1>1. /\ use # "none" /\ use' = "none" /\ call = NoCall /\ call' = NoCall
      /\ flipped' = FALSE /\ data' = "buff" /\ buff' = <<>>
      /\ position' = 0 /\ limit' = 0 /\ capacity' = 0
      /\ put' = 0 /\ taken' = <<>>
      /\ Len(buff) = BuffSize /\ BuffSize \in Nat /\ capacity \in Nat
      /\ Enlarged <=> data = "enlarged"
  BY BuffSizeAssumption DEF Buffer_free, Free, BufferInv, TypeOK, WithinBlock, BlocksExist
<1>2. enlarged' = <<>>
  <2>1. CASE Enlarged
    BY <2>1 DEF Buffer_free
  <2>2. CASE ~Enlarged
    BY <1>1, <2>2 DEF Buffer_free, BufferInv, BlocksExist, TypeOK
  <2> QED
    BY <2>1, <2>2
<1>3. allocated' = 0
  <2>1. allocated = BuffSize + Len(enlarged) + StructSize /\ StructSize \in Nat
    BY <1>1, BoundsAssumption DEF BufferInv, Balanced
  <2>2. CASE Enlarged
    <3>1. /\ Len(enlarged) = capacity
          /\ allocated' = allocated - BuffSize - StructSize - capacity
      BY <1>1, <2>2 DEF Buffer_free, BufferInv, WithinBlock, Memory
    <3> QED
      BY <1>1, <2>1, <3>1
  <2>3. CASE ~Enlarged
    <3>1. /\ Len(enlarged) = 0
          /\ allocated' = allocated - BuffSize - StructSize - 0
      BY <1>1, <2>3 DEF Buffer_free, BufferInv, BlocksExist, TypeOK
    <3> QED
      BY <1>1, <2>1, <3>1
  <2> QED
    BY <2>2, <2>3
<1>4. TypeOK'
  <2>1. flipped' \in BOOLEAN
    BY <1>1
  <2>2. call' \in Calls
    BY <1>1 DEF NoCall, Calls
  <2> QED
    BY <1>1, <1>2, <1>3, <2>1, <2>2 DEF BufferInv, TypeOK
<1>5. WithinBlock' /\ BlocksExist' /\ AtRest' /\ CallOK' /\ Balanced'
  BY <1>1, <1>2, <1>3 DEF WithinBlock, BlocksExist, AtRest, CallOK, Balanced
<1> QED
  BY <1>4, <1>5 DEF BufferInv

LEMMA NextInv == BufferInv /\ [Next]_vars => BufferInv'
<1> SUFFICES ASSUME BufferInv, [Next]_vars PROVE BufferInv'
  OBVIOUS
<1>1. ASSUME NEW len \in Lengths, Buffer_write(len) PROVE BufferInv'
  <2>1. len \in Nat /\ Free /\ ~flipped
    BY <1>1, BoundsAssumption DEF Buffer_write
  <2> QED
    BY <1>1, <2>1, CallKeeps DEF Buffer_write
<1>2. CASE Buffer_recv
  <2>1. Free /\ ~flipped /\ 0 \in Nat /\ Eighth \in Nat
    BY <1>2, EighthType DEF Buffer_recv, BufferInv, AtRest
  <2> QED
    BY <1>2, <2>1, CallKeeps DEF Buffer_recv
<1>3. CASE WriteData
  <2>1. call # NoCall /\ call.len \in Nat /\ position + call.len <= limit
    BY <1>3 DEF WriteData, NoCall, Roomy, Buffer_remaining, BufferInv, TypeOK, CallOK, Calls
  <2> QED
    BY <1>3, <2>1, GrowKeeps DEF WriteData
<1>4. CASE ReadData
  <2>1. PICK n \in 0..Buffer_remaining : GrowAndStore(n)
    BY <1>4 DEF ReadData
  <2>2. call # NoCall /\ n \in Nat /\ position + n <= limit
    BY <1>4, <2>1 DEF ReadData, NoCall, Buffer_remaining, BufferInv, TypeOK
  <2> QED
    BY <2>1, <2>2, GrowKeeps
<1>5. CASE UNCHANGED vars
  BY <1>5 DEF vars, memoryVars, BufferInv, TypeOK, WithinBlock, BlocksExist, AtRest,
     CallOK, Balanced, Enlarged, Eighth, Memory
<1> QED
  BY <1>1, <1>2, <1>3, <1>4, <1>5, NewKeeps, EnsureKeeps, FlipKeeps, SendKeeps,
     ClearKeeps, FreeKeeps DEF Next

\* The inductive invariant: position, limit and capacity stay in the block, the
\* two blocks exist when capacity and buff_size say so.
THEOREM Invariance == Spec => []BufferInv
  BY InitInv, NextInv, PTL DEF Spec

\* The bytes that alloc.h counts for a buffer are those it holds, through growth,
\* clear and free.
THEOREM CountsItsBytes == Spec => []Balanced
<1>1. BufferInv => Balanced
  BY DEF BufferInv
<1> QED
  BY <1>1, InitInv, NextInv, PTL DEF Spec

-----------------------------------------------------------------------------
(***************************************************************************)
(* A Buffer implements a queue of bytes.                                   *)
(***************************************************************************)

\* The part of a sequence behind from, up to to.
LEMMA Slice ==
  ASSUME NEW s \in Seq(Nat), NEW from \in Nat, NEW to \in Nat,
         from <= to, to <= Len(s)
  PROVE  /\ SubSeq(s, from + 1, to) \in Seq(Nat)
         /\ Len(SubSeq(s, from + 1, to)) = to - from
         /\ \A i \in 1..to - from : SubSeq(s, from + 1, to)[i] = s[from + i]
<1> DEFINE t == SubSeq(s, from + 1, to)
<1>1. /\ from + 1 \in Int /\ to \in Int
      /\ \A i \in from + 1..to : s[i] \in Nat
  OBVIOUS
<1>2. /\ t \in Seq(Nat)
      /\ Len(t) = IF from + 1 <= to THEN to - (from + 1) + 1 ELSE 0
      /\ \A i \in 1..to - (from + 1) + 1 : t[i] = s[from + 1 + i - 1]
  BY <1>1, SubSeqProperties
<1> HIDE DEF t
<1>3. Len(t) = to - from
  BY <1>2
<1>4. ASSUME NEW i \in 1..to - from PROVE t[i] = s[from + i]
  <2>1. i \in 1..to - (from + 1) + 1 /\ from + 1 + i - 1 = from + i
    OBVIOUS
  <2>2. t[i] = s[from + 1 + i - 1]
    BY <1>2, <2>1
  <2> QED
    BY <2>1, <2>2
<1> QED
  BY <1>2, <1>3, <1>4 DEF t

LEMMA SliceOfSlice ==
  ASSUME NEW s \in Seq(Nat), NEW from \in Nat, NEW to \in Nat,
         from <= to, to <= Len(s),
         NEW m \in Nat, NEW n \in Nat, m <= n, n <= to - from
  PROVE  SubSeq(SubSeq(s, from + 1, to), m + 1, n)
           = SubSeq(s, from + m + 1, from + n)
<1> DEFINE t == SubSeq(s, from + 1, to)
           u == SubSeq(t, m + 1, n)
           v == SubSeq(s, from + m + 1, from + n)
<1>1. /\ t \in Seq(Nat) /\ Len(t) = to - from
      /\ \A i \in 1..to - from : t[i] = s[from + i]
  BY Slice
<1>2. /\ from + m \in Nat /\ from + n \in Nat
      /\ from + m <= from + n /\ from + n <= Len(s)
      /\ from + n - (from + m) = n - m
  OBVIOUS
<1>3. /\ v \in Seq(Nat) /\ Len(v) = n - m
      /\ \A i \in 1..n - m : v[i] = s[from + m + i]
  BY <1>2, Slice
<1> HIDE DEF t
<1>4. /\ u \in Seq(Nat) /\ Len(u) = n - m
      /\ \A i \in 1..n - m : u[i] = t[m + i]
  BY <1>1, Slice
<1> HIDE DEF u, v
<1>5. ASSUME NEW i \in 1..n - m PROVE u[i] = v[i]
  <2>1. m + i \in 1..to - from /\ from + (m + i) = from + m + i
    OBVIOUS
  <2>2. u[i] = s[from + (m + i)]
    BY <1>1, <1>4, <2>1
  <2> QED
    BY <1>3, <2>1, <2>2
<1>6. u = v
  BY <1>3, <1>4, <1>5, SeqEqual
<1> QED
  BY <1>6 DEF t, u, v

LEMMA ConcatIs ==
  ASSUME NEW u \in Seq(Nat), NEW v \in Seq(Nat), NEW w \in Seq(Nat),
         Len(u) = Len(v) + Len(w),
         \A i \in 1..Len(v) : u[i] = v[i],
         \A i \in 1..Len(w) : u[Len(v) + i] = w[i]
  PROVE  u = v \o w
<1>1. /\ v \o w \in Seq(Nat) /\ Len(v \o w) = Len(v) + Len(w)
      /\ \A i \in 1..Len(v) + Len(w) :
              (v \o w)[i] = IF i <= Len(v) THEN v[i] ELSE w[i - Len(v)]
  BY ConcatProperties
<1>2. Len(v) \in Nat /\ Len(w) \in Nat
  OBVIOUS
<1>3. ASSUME NEW i \in 1..Len(u) PROVE u[i] = (v \o w)[i]
  <2>1. CASE i <= Len(v)
    BY <1>1, <1>2, <2>1
  <2>2. CASE ~(i <= Len(v))
    <3>1. i - Len(v) \in 1..Len(w) /\ Len(v) + (i - Len(v)) = i
      BY <1>2, <2>2
    <3>2. u[i] = w[i - Len(v)]
      BY <3>1
    <3> QED
      BY <1>1, <2>2, <3>2
  <2> QED
    BY <2>1, <2>2
<1> QED
  BY <1>1, <1>3, SeqEqual
\* What is in the queue.
Bytes == IF flipped THEN SubSeq(Memory, position + 1, limit)
         ELSE SubSeq(Memory, 1, position)

BytesPut ==
    /\ put' >= put
    /\ Bytes' = Bytes \o [i \in 1..(put' - put) |-> put + i]
    /\ UNCHANGED taken

BytesTaken ==
    /\ \E k \in 0..Len(Bytes) :
          /\ taken' = taken \o SubSeq(Bytes, 1, k)
          /\ Bytes' = SubSeq(Bytes, k + 1, Len(Bytes))
    /\ UNCHANGED put

BytesGone == Bytes' = <<>> /\ put' = 0 /\ taken' = <<>>

BytesKept == Bytes' = Bytes /\ put' = put /\ taken' = taken

\* What was stored is appended: the bytes in front of position have not moved.
LEMMA StoringPuts ==
  ASSUME BufferInv, call # NoCall, NEW n \in Nat, position + n <= limit, GrowAndStore(n)
  PROVE  BytesPut
<1>1. /\ Stored(n) \in Seq(Nat) /\ Len(Stored(n)) = limit
      /\ \A i \in 1..position : Stored(n)[i] = Memory[i]
      /\ \A i \in 1..limit : i \in position + 1..position + n =>
                              Stored(n)[i] = put + i - position
  BY StoredFacts
<1>2. /\ Memory' = Stored(n) /\ position' = position + n /\ put' = put + n
      /\ ~flipped /\ ~flipped' /\ UNCHANGED taken
  BY GrowKeeps DEF GrowAndStore, BufferInv, AtRest
<1>3. /\ position \in Nat /\ limit \in Nat /\ put \in Nat
      /\ Memory \in Seq(Nat) /\ position <= Len(Memory)
  BY MemoryType DEF BufferInv, TypeOK, WithinBlock, AtRest, CallOK
<1>4. /\ Bytes = SubSeq(Memory, 1, position)
      /\ Bytes' = SubSeq(Stored(n), 1, position + n)
  BY <1>2 DEF Bytes
<1>5. PICK more \in Seq(Nat) : more = [i \in 1..n |-> put + i]
  <2>1. \A i \in 1..n : put + i \in Nat
    BY <1>3
  <2>2. [i \in 1..n |-> put + i] \in Seq(Nat)
    BY <2>1
  <2> QED
    BY <2>2
<1>6. Len(more) = n /\ \A i \in 1..n : Stored(n)[position + i] = more[i]
  <2>1. Len(more) = n /\ \A i \in 1..n : more[i] = put + i
    BY <1>5
  <2>2. ASSUME NEW i \in 1..n PROVE Stored(n)[position + i] = more[i]
    <3>1. /\ position + i \in position + 1..position + n /\ position + i \in 1..limit
          /\ put + (position + i) - position = put + i
      BY <1>3
    <3> QED
      BY <1>1, <2>1, <3>1
  <2> QED
    BY <2>1, <2>2
<1>7. PICK before \in Seq(Nat), after \in Seq(Nat) :
         /\ before = Bytes /\ after = Bytes'
         /\ Len(before) = position /\ Len(after) = position + n
         /\ \A i \in 1..position : before[i] = Memory[i]
         /\ \A i \in 1..position + n : after[i] = Stored(n)[i]
  <2>1. /\ position + n \in Nat /\ position + n <= Len(Stored(n))
        /\ position <= Len(Memory) /\ 0 <= position /\ 0 <= position + n
        /\ 0 + 1 = 1 /\ position - 0 = position /\ position + n - 0 = position + n
        /\ \A i \in 1..position + n : 0 + i = i
        /\ \A i \in 1..position : 0 + i = i
    BY <1>1, <1>3
  <2>2. /\ SubSeq(Memory, 0 + 1, position) \in Seq(Nat)
        /\ Len(SubSeq(Memory, 0 + 1, position)) = position - 0
        /\ \A i \in 1..position - 0 : SubSeq(Memory, 0 + 1, position)[i] = Memory[0 + i]
    BY <1>3, <2>1, Slice
  <2>3. /\ SubSeq(Stored(n), 0 + 1, position + n) \in Seq(Nat)
        /\ Len(SubSeq(Stored(n), 0 + 1, position + n)) = position + n - 0
        /\ \A i \in 1..position + n - 0 :
              SubSeq(Stored(n), 0 + 1, position + n)[i] = Stored(n)[0 + i]
    BY <1>1, <1>3, <2>1, Slice
  <2>4. /\ Bytes \in Seq(Nat) /\ Len(Bytes) = position
        /\ \A i \in 1..position : Bytes[i] = Memory[i]
    BY <1>4, <2>1, <2>2
  <2>5. /\ Bytes' \in Seq(Nat) /\ Len(Bytes') = position + n
        /\ \A i \in 1..position + n : Bytes'[i] = Stored(n)[i]
    BY <1>4, <2>1, <2>3
  <2> QED
    BY <2>4, <2>5
<1>8. Bytes' = Bytes \o more
  <2>1. Len(after) = Len(before) + Len(more)
    BY <1>6, <1>7
  <2>2. ASSUME NEW i \in 1..Len(before) PROVE after[i] = before[i]
    <3>1. i \in 1..position /\ i \in 1..position + n
      BY <1>3, <1>7
    <3> QED
      BY <1>1, <1>7, <3>1
  <2>3. ASSUME NEW i \in 1..Len(more) PROVE after[Len(before) + i] = more[i]
    <3>1. i \in 1..n /\ position + i \in 1..position + n
      BY <1>3, <1>6
    <3> QED
      BY <1>6, <1>7, <3>1
  <2>4. after = before \o more
    BY <2>1, <2>2, <2>3, ConcatIs
  <2> QED
    BY <1>7, <2>4
<1>9. put' - put = n /\ put' >= put
  BY <1>2, <1>3
<1> QED
  BY <1>2, <1>5, <1>8, <1>9 DEF BytesPut

LEMMA SendingTakes == BufferInv /\ Buffer_send => BytesTaken
<1> SUFFICES ASSUME BufferInv, Buffer_send PROVE BytesTaken
  OBVIOUS
<1>1. PICK n \in 0..Buffer_remaining :
         /\ taken' = taken \o SubSeq(Memory, position + 1, position + n)
         /\ position' = position + n
  BY DEF Buffer_send
<1>2. /\ flipped /\ flipped' /\ limit' = limit /\ Memory' = Memory /\ UNCHANGED put
  BY DEF Buffer_send, memoryVars, Memory
<1>3. /\ Memory \in Seq(Nat) /\ position \in Nat /\ limit \in Nat /\ n \in Nat
      /\ position + n <= limit /\ limit <= Len(Memory)
  BY <1>2, SendFacts
<1>4. /\ Bytes = SubSeq(Memory, position + 1, limit)
      /\ Bytes' = SubSeq(Memory, position + n + 1, limit)
  BY <1>1, <1>2 DEF Bytes
<1> DEFINE left == limit - position
<1>5. /\ left \in Nat /\ position <= limit /\ n \in 0..left
      /\ position + left = limit /\ position + 0 + 1 = position + 1 /\ 0 + 1 = 1
  BY <1>3
<1>6. Len(Bytes) = left
  BY <1>3, <1>4, <1>5, Slice
<1> HIDE DEF left
<1>7. SubSeq(Bytes, 0 + 1, n) = SubSeq(Memory, position + 0 + 1, position + n)
  BY <1>3, <1>4, <1>5, SliceOfSlice DEF left
<1>8. SubSeq(Bytes, n + 1, left) = SubSeq(Memory, position + n + 1, position + left)
  BY <1>3, <1>4, <1>5, SliceOfSlice DEF left
<1>9. /\ n \in 0..Len(Bytes)
      /\ taken' = taken \o SubSeq(Bytes, 1, n)
      /\ Bytes' = SubSeq(Bytes, n + 1, Len(Bytes))
  BY <1>1, <1>4, <1>5, <1>6, <1>7, <1>8
<1> QED
  BY <1>2, <1>9 DEF BytesTaken

LEMMA NothingBeforePosition ==
  ASSUME position = 0, ~flipped
  PROVE  Bytes = <<>>
<1>1. SubSeq(Memory, 1, 0) = <<>>
  BY SubSeqEmpty
<1> QED
  BY <1>1 DEF Bytes

LEMMA NothingBeforePositionNext ==
  ASSUME position' = 0, ~flipped'
  PROVE  Bytes' = <<>>
<1>1. SubSeq(Memory', 1, 0) = <<>>
  BY SubSeqEmpty
<1> QED
  BY <1>1 DEF Bytes

\* Every step of a buffer is a step of the queue, or leaves it as it is.
LEMMA StepsRefine ==
  ASSUME BufferInv, [Next]_vars
  PROVE  BytesPut \/ BytesTaken \/ BytesGone \/ BytesKept
<1>1. ASSUME UNCHANGED <<flipped, memoryVars, position, put, taken>>,
             flipped => limit' = limit
      PROVE  BytesKept
  BY <1>1 DEF BytesKept, Bytes, Memory, memoryVars
<1>2. ASSUME NEW u \in {"write", "read"}, Buffer_new(u) PROVE BytesKept
  <2>1. position = 0 /\ ~flipped
    BY <1>2 DEF Buffer_new, BufferInv, AtRest
  <2>2. position' = 0 /\ ~flipped' /\ put' = put /\ taken' = taken
    BY <1>2, <2>1 DEF Buffer_new
  <2>3. Bytes = <<>>
    BY <2>1, NothingBeforePosition
  <2>4. Bytes' = <<>>
    BY <2>2, NothingBeforePositionNext
  <2> QED
    BY <2>2, <2>3, <2>4 DEF BytesKept
<1>3. ASSUME NEW len \in Lengths, Buffer_write(len) PROVE BytesKept
  BY <1>1, <1>3 DEF Buffer_write
<1>4. CASE Buffer_recv
  BY <1>1, <1>4 DEF Buffer_recv
<1>5. CASE Buffer_ensure_remaining
  BY <1>1, <1>5 DEF Buffer_ensure_remaining, BufferInv, AtRest
<1>6. CASE WriteData
  <2>1. call # NoCall /\ call.len \in Nat /\ position + call.len <= limit
    BY <1>6 DEF WriteData, NoCall, Roomy, Buffer_remaining, BufferInv, TypeOK, CallOK, Calls
  <2> QED
    BY <1>6, <2>1, StoringPuts DEF WriteData
<1>7. CASE ReadData
  <2>1. PICK n \in 0..Buffer_remaining : GrowAndStore(n)
    BY <1>7 DEF ReadData
  <2>2. call # NoCall /\ n \in Nat /\ position + n <= limit
    BY <1>7, <2>1 DEF ReadData, NoCall, Buffer_remaining, BufferInv, TypeOK
  <2> QED
    BY <2>1, <2>2, StoringPuts
<1>8. CASE Buffer_flip
  <2>1. /\ ~flipped /\ flipped' /\ position' = 0 /\ limit' = position
        /\ Memory' = Memory /\ put' = put /\ taken' = taken
    BY <1>8 DEF Buffer_flip, memoryVars, Memory
  <2>2. Bytes = SubSeq(Memory, 1, position) /\ Bytes' = SubSeq(Memory, 0 + 1, position)
    BY <2>1 DEF Bytes
  <2>3. Bytes' = Bytes
    BY <2>2
  <2> QED
    BY <2>1, <2>3 DEF BytesKept
<1>9. CASE Buffer_clear
  BY <1>9, NothingBeforePositionNext DEF Buffer_clear, BytesGone
<1>10. CASE Buffer_free
  BY <1>10, NothingBeforePositionNext DEF Buffer_free, BytesGone
<1>11. CASE UNCHANGED vars
  BY <1>1, <1>11 DEF vars
<1> QED
  BY <1>2, <1>3, <1>4, <1>5, <1>6, <1>7, <1>8, <1>9, <1>10, <1>11, SendingTakes
     DEF Next

\* Growth, flip, partial sends, clear and reuse lose, repeat and reorder no byte:
\* a Buffer implements ByteQueue.
THEOREM ImplementsQueue == Spec => KeepsBytes
<1>1. Init => Queue!Init
  <2> SUFFICES ASSUME Init PROVE Queue!Init
    OBVIOUS
  <2>1. position = 0 /\ ~flipped /\ put = 0 /\ taken = <<>>
    BY DEF Init
  <2>2. Bytes = <<>>
    BY <2>1, NothingBeforePosition
  <2> QED
    BY <2>1, <2>2 DEF Queue!Init, Bytes
<1>2. BufferInv /\ [Next]_vars => [Queue!Next]_(Queue!vars)
  <2> SUFFICES ASSUME BufferInv, [Next]_vars PROVE [Queue!Next]_(Queue!vars)
    OBVIOUS
  <2>1. CASE BytesPut
    BY <2>1 DEF BytesPut, Bytes, Queue!Next, Queue!Put
  <2>2. CASE BytesTaken
    BY <2>2 DEF BytesTaken, Bytes, Queue!Next, Queue!Take
  <2>3. CASE BytesGone
    BY <2>3 DEF BytesGone, Bytes, Queue!Next, Queue!Empty
  <2>4. CASE BytesKept
    BY <2>4 DEF BytesKept, Bytes, Queue!vars
  <2> QED
    BY <2>1, <2>2, <2>3, <2>4, StepsRefine
<1> QED
  BY <1>1, <1>2, InitInv, NextInv, PTL DEF Spec, KeepsBytes, Queue!Spec

-----------------------------------------------------------------------------
\* The bytes of room that the caller of Buffer_ensure_remaining still lacks.
Lacking == call.min_remaining - Buffer_remaining

\* The loop of Buffer_ensure_remaining turns only while room is lacking, and each
\* turn brings at least a whole first block of it: the loop ends.
THEOREM EnsureNarrows ==
    ASSUME BufferInv, Buffer_ensure_remaining
    PROVE  /\ Lacking \in Nat \ {0}
           /\ Lacking' <= Lacking - BuffSize
<1>1. call # NoCall /\ ~Roomy /\ limit' = limit * 2 /\ UNCHANGED <<position, call>>
  BY DEF Buffer_ensure_remaining
<1>2. /\ limit \in Nat /\ capacity \in Nat /\ position \in Nat
      /\ BuffSize <= capacity /\ capacity <= limit
  BY <1>1, BuffSizeAssumption DEF BufferInv, TypeOK, BlocksExist, AtRest, CallOK
<1>3. call.min_remaining \in Nat
  <2>1. call \in Calls
    BY DEF BufferInv, TypeOK
  <2> QED
    BY <2>1 DEF Calls
<1>4. Lacking \in Nat \ {0}
  BY <1>1, <1>2, <1>3 DEF Lacking, Roomy, Buffer_remaining
<1>5. Lacking' = call.min_remaining - (limit * 2 - position)
  BY <1>1 DEF Lacking, Buffer_remaining
<1> QED
  BY <1>2, <1>3, <1>4, <1>5, BuffSizeAssumption DEF Lacking, Buffer_remaining
=============================================================================
