---------------------------- MODULE MemoryProofs ----------------------------
(***************************************************************************)
(* Theorems about Memory: ownership of batches and replies, the bytes      *)
(* counted, and what is left at the end, for every number of objects and   *)
(* both builds.                                                            *)
(***************************************************************************)
EXTENDS Memory, FiniteSetTheorems, SequenceTheorems, TLAPS

-----------------------------------------------------------------------------
(***************************************************************************)
(* The sequences that stand for the lists of list.h.                       *)
(***************************************************************************)

LEMMA EmptyList ==
  /\ \A S : <<>> \in Seq(S)
  /\ ToSet(<<>>) = {} /\ IsInjective(<<>>)
<1>1. DOMAIN <<>> = {}
  BY EmptySeq, LenProperties
<1> QED
  BY <1>1, EmptySeq DEF ToSet, IsInjective

LEMMA ListMembers ==
  ASSUME NEW S, NEW s \in Seq(S)
  PROVE  /\ ToSet(s) \subseteq S
         /\ ToSet(s) = {} <=> s = <<>>
<1>1. DOMAIN s = 1..Len(s) /\ Len(s) \in Nat
  BY LenProperties
<1>2. ToSet(s) \subseteq S
  BY <1>1, ElementOfSeq DEF ToSet
<1>3. ASSUME s # <<>> PROVE s[1] \in ToSet(s)
  BY <1>1, <1>3, EmptySeq DEF ToSet
<1> QED
  BY <1>2, <1>3, EmptyList

LEMMA AppendToList ==
  ASSUME NEW S, NEW s \in Seq(S), NEW e \in S
  PROVE  /\ Append(s, e) \in Seq(S)
         /\ ToSet(Append(s, e)) = ToSet(s) \cup {e}
         /\ IsInjective(s) /\ e \notin ToSet(s) => IsInjective(Append(s, e))
<1> DEFINE t == Append(s, e)
<1>1. /\ t \in Seq(S) /\ Len(t) = Len(s) + 1 /\ t[Len(s) + 1] = e
      /\ \A i \in 1..Len(s) : t[i] = s[i]
  BY AppendProperties
<1>2. /\ DOMAIN s = 1..Len(s) /\ Len(s) \in Nat /\ DOMAIN t = 1..(Len(s) + 1)
  BY <1>1, LenProperties
<1>3. ToSet(t) = ToSet(s) \cup {e}
  BY <1>1, <1>2 DEF ToSet
<1>4. ASSUME IsInjective(s), e \notin ToSet(s) PROVE IsInjective(t)
  BY <1>1, <1>2, <1>4 DEF ToSet, IsInjective
<1> QED
  BY <1>1, <1>3, <1>4

LEMMA PopFromList ==
  ASSUME NEW S, NEW s \in Seq(S), s # <<>>
  PROVE  /\ Front(s) \in Seq(S)
         /\ Last(s) \in ToSet(s) /\ Last(s) \in S
         /\ ToSet(s) = ToSet(Front(s)) \cup {Last(s)}
         /\ IsInjective(s) => IsInjective(Front(s)) /\ Last(s) \notin ToSet(Front(s))
<1> DEFINE t == SubSeq(s, 1, Len(s) - 1)
           n == Len(s)
<1>1. n \in Nat \ {0} /\ DOMAIN s = 1..n
  BY EmptySeq, LenProperties
<1>2. /\ t \in Seq(S) /\ Len(t) = n - 1
      /\ \A i \in 1..(n - 1) : t[i] = s[i]
  BY <1>1, SubSeqProperties, ElementOfSeq
<1>3. DOMAIN t = 1..(n - 1)
  BY <1>2, LenProperties
<1>4. Last(s) = s[n] /\ Front(s) = t
  BY DEF Last, Front
<1>5. s[n] \in S /\ s[n] \in ToSet(s)
  BY <1>1, ElementOfSeq DEF ToSet
<1>6. ToSet(s) = ToSet(t) \cup {s[n]}
  <2> HIDE DEF n
  <2>1. ASSUME NEW i \in 1..n PROVE i \in 1..(n - 1) \/ i = n
    <3>1. n \in Int
      BY <1>1
    <3> QED
      BY <3>1
  <2>2. ToSet(s) \subseteq ToSet(t) \cup {s[n]}
    BY <1>1, <1>2, <1>3, <2>1 DEF ToSet
  <2>3. ToSet(t) \subseteq ToSet(s)
    <3>1. \A i \in 1..(n - 1) : i \in 1..n /\ t[i] = s[i]
      BY <1>1, <1>2
    <3> QED
      BY <1>1, <1>3, <3>1 DEF ToSet
  <2> QED
    BY <1>5, <2>2, <2>3
<1>7. ASSUME IsInjective(s) PROVE IsInjective(t) /\ s[n] \notin ToSet(t)
  BY <1>1, <1>2, <1>3, <1>7 DEF ToSet, IsInjective
<1> QED
  BY <1>2, <1>4, <1>5, <1>6, <1>7

LEMMA PushOnList ==
  ASSUME NEW S, NEW s \in Seq(S), NEW e \in S
  PROVE  /\ <<e>> \o s \in Seq(S)
         /\ ToSet(<<e>> \o s) = ToSet(s) \cup {e}
         /\ IsInjective(s) /\ e \notin ToSet(s) => IsInjective(<<e>> \o s)
<1> DEFINE t == <<e>> \o s
<1>1. <<e>> \in Seq(S) /\ Len(<<e>>) = 1 /\ <<e>>[1] = e
  OBVIOUS
<1>2. /\ t \in Seq(S) /\ Len(t) = 1 + Len(s)
      /\ \A i \in 1..(1 + Len(s)) : t[i] = IF i <= 1 THEN e ELSE s[i - 1]
  <2>1. /\ t \in Seq(S) /\ Len(t) = 1 + Len(s)
        /\ \A i \in 1..(1 + Len(s)) : t[i] = IF i <= 1 THEN <<e>>[i] ELSE s[i - 1]
    BY <1>1, ConcatProperties, Zenon
  <2>2. Len(s) \in Nat
    BY LenProperties
  <2> QED
    BY <1>1, <2>1, <2>2
<1>3. DOMAIN s = 1..Len(s) /\ Len(s) \in Nat /\ DOMAIN t = 1..(1 + Len(s))
  BY <1>2, LenProperties
<1>4. t[1] = e /\ \A i \in 1..Len(s) : t[i + 1] = s[i]
  BY <1>2, <1>3
<1>5. ToSet(t) = ToSet(s) \cup {e}
  <2>1. ToSet(t) \subseteq ToSet(s) \cup {e}
    BY <1>2, <1>3 DEF ToSet
  <2>2. \A i \in 1..Len(s) : i + 1 \in 1..(1 + Len(s))
    BY <1>3
  <2>3. ToSet(s) \subseteq ToSet(t)
    <3>1. \A i \in 1..Len(s) : s[i] \in ToSet(t)
      BY <1>3, <1>4, <2>2 DEF ToSet
    <3> QED
      BY <1>3, <3>1 DEF ToSet
  <2>4. e \in ToSet(t)
    BY <1>3, <1>4 DEF ToSet
  <2> QED
    BY <2>1, <2>3, <2>4
<1>6. ASSUME IsInjective(s), e \notin ToSet(s) PROVE IsInjective(t)
  BY <1>2, <1>3, <1>6 DEF ToSet, IsInjective
<1> QED
  BY <1>2, <1>5, <1>6

-----------------------------------------------------------------------------
(***************************************************************************)
(* The bytes of the blocks H, when the batches E have an error message.    *)
(***************************************************************************)

Bytes(H, E) ==
    Cardinality(H \cap Batches) * BatchBytes + Cardinality(H \cap Replies) * ReplyBytes
    + Cardinality(H \cap Connections) * ConnectionBytes + Cardinality(E) * ErrorBytes

Errors == {b \in Batches : error[b]}

LEMMA OneMore ==
  ASSUME NEW n \in Nat, NEW size \in Nat
  PROVE  (n + 1) * size = n * size + size /\ n * size \in Nat
OBVIOUS

LEMMA CountOneMore ==
  ASSUME NEW H, IsFiniteSet(H), NEW x, x \notin H, NEW K
  PROVE  /\ Cardinality(H \cap K) \in Nat
         /\ Cardinality((H \cup {x}) \cap K) =
               Cardinality(H \cap K) + IF x \in K THEN 1 ELSE 0
<1>1. IsFiniteSet(H \cap K) /\ Cardinality(H \cap K) \in Nat
  <2>1. IsFiniteSet(H \cap K)
    BY FS_Subset
  <2> QED
    BY <2>1, FS_CardinalityType
<1>2. CASE x \in K
  <2>1. (H \cup {x}) \cap K = (H \cap K) \cup {x} /\ x \notin H \cap K
    BY <1>2
  <2> QED
    BY <1>1, <1>2, <2>1, FS_AddElement
<1>3. CASE x \notin K
  <2>1. (H \cup {x}) \cap K = H \cap K
    BY <1>3
  <2>2. Cardinality(H \cap K) + 0 = Cardinality(H \cap K)
    BY <1>1
  <2> QED
    BY <1>1, <1>3, <2>1, <2>2
<1> QED
  BY <1>2, <1>3

LEMMA BytesType ==
  ASSUME NEW H, IsFiniteSet(H), NEW E, IsFiniteSet(E)
  PROVE  Bytes(H, E) \in Nat
<1>1. /\ Cardinality(H \cap Batches) \in Nat /\ Cardinality(H \cap Replies) \in Nat
      /\ Cardinality(H \cap Connections) \in Nat /\ Cardinality(E) \in Nat
  BY FS_Subset, FS_CardinalityType
<1> QED
  BY <1>1, BytesAssumption DEF Bytes

\* malloc of one object adds its size.
LEMMA BytesOfMore ==
  ASSUME NEW H, IsFiniteSet(H), NEW E, IsFiniteSet(E), NEW x, x \notin H
  PROVE  /\ x \in Batches => Bytes(H \cup {x}, E) = Bytes(H, E) + BatchBytes
         /\ x \in Replies => Bytes(H \cup {x}, E) = Bytes(H, E) + ReplyBytes
         /\ x \in Connections => Bytes(H \cup {x}, E) = Bytes(H, E) + ConnectionBytes
<1> DEFINE G == H \cup {x}
           b == Cardinality(H \cap Batches)
           r == Cardinality(H \cap Replies)
           c == Cardinality(H \cap Connections)
           e == Cardinality(E)
<1>1. /\ b \in Nat /\ r \in Nat /\ c \in Nat /\ e \in Nat
      /\ Cardinality(G \cap Batches) = b + IF x \in Batches THEN 1 ELSE 0
      /\ Cardinality(G \cap Replies) = r + IF x \in Replies THEN 1 ELSE 0
      /\ Cardinality(G \cap Connections) = c + IF x \in Connections THEN 1 ELSE 0
  <2>1. e \in Nat
    BY FS_CardinalityType
  <2>2. /\ b \in Nat
        /\ Cardinality(G \cap Batches) = b + IF x \in Batches THEN 1 ELSE 0
    BY CountOneMore
  <2>3. /\ r \in Nat
        /\ Cardinality(G \cap Replies) = r + IF x \in Replies THEN 1 ELSE 0
    BY CountOneMore
  <2>4. /\ c \in Nat
        /\ Cardinality(G \cap Connections) = c + IF x \in Connections THEN 1 ELSE 0
    BY CountOneMore
  <2> QED
    BY <2>1, <2>2, <2>3, <2>4
<1>2. Bytes(H, E) = b * BatchBytes + r * ReplyBytes + c * ConnectionBytes + e * ErrorBytes
  BY DEF Bytes
<1>3. Bytes(G, E) = Cardinality(G \cap Batches) * BatchBytes
                    + Cardinality(G \cap Replies) * ReplyBytes
                    + Cardinality(G \cap Connections) * ConnectionBytes + e * ErrorBytes
  BY DEF Bytes
<1>4. /\ b * BatchBytes \in Nat /\ r * ReplyBytes \in Nat
      /\ c * ConnectionBytes \in Nat /\ e * ErrorBytes \in Nat
      /\ (b + 1) * BatchBytes = b * BatchBytes + BatchBytes
      /\ (r + 1) * ReplyBytes = r * ReplyBytes + ReplyBytes
      /\ (c + 1) * ConnectionBytes = c * ConnectionBytes + ConnectionBytes
      /\ {BatchBytes, ErrorBytes, ReplyBytes, ConnectionBytes} \subseteq Nat
  <2> HIDE DEF b, r, c, e
  <2> QED
    BY <1>1, OneMore, BytesAssumption
<1>5. b + 0 = b /\ r + 0 = r /\ c + 0 = c
  BY <1>1
<1> HIDE DEF G, b, r, c, e
<1>6. CASE x \in Batches
  <2>1. x \notin Replies /\ x \notin Connections
    BY <1>6, AddressAssumption
  <2>2. Bytes(G, E) = (b + 1) * BatchBytes + r * ReplyBytes + c * ConnectionBytes
                      + e * ErrorBytes
    BY <1>1, <1>3, <1>5, <1>6, <2>1
  <2>3. Bytes(G, E) = Bytes(H, E) + BatchBytes
    BY <1>2, <1>4, <2>2
  <2> QED
    BY <2>1, <2>3 DEF G
<1>7. CASE x \in Replies
  <2>1. x \notin Batches /\ x \notin Connections
    BY <1>7, AddressAssumption
  <2>2. Bytes(G, E) = b * BatchBytes + (r + 1) * ReplyBytes + c * ConnectionBytes
                      + e * ErrorBytes
    BY <1>1, <1>3, <1>5, <1>7, <2>1
  <2>3. Bytes(G, E) = Bytes(H, E) + ReplyBytes
    BY <1>2, <1>4, <2>2
  <2> QED
    BY <2>1, <2>3 DEF G
<1>8. CASE x \in Connections
  <2>1. x \notin Batches /\ x \notin Replies
    BY <1>8, AddressAssumption
  <2>2. Bytes(G, E) = b * BatchBytes + r * ReplyBytes + (c + 1) * ConnectionBytes
                      + e * ErrorBytes
    BY <1>1, <1>3, <1>5, <1>8, <2>1
  <2>3. Bytes(G, E) = Bytes(H, E) + ConnectionBytes
    BY <1>2, <1>4, <2>2
  <2> QED
    BY <2>1, <2>3 DEF G
<1> QED
  BY <1>6, <1>7, <1>8

\* free of one object takes its size off.
LEMMA BytesOfLess ==
  ASSUME NEW H, IsFiniteSet(H), NEW E, IsFiniteSet(E), NEW x \in H
  PROVE  /\ IsFiniteSet(H \ {x})
         /\ x \in Batches => Bytes(H \ {x}, E) = Bytes(H, E) - BatchBytes
         /\ x \in Replies => Bytes(H \ {x}, E) = Bytes(H, E) - ReplyBytes
         /\ x \in Connections => Bytes(H \ {x}, E) = Bytes(H, E) - ConnectionBytes
<1> DEFINE G == H \ {x}
<1>1. IsFiniteSet(G) /\ G \cup {x} = H /\ x \notin G
  BY FS_Subset
<1>2. Bytes(G, E) \in Nat /\ BatchBytes \in Nat /\ ReplyBytes \in Nat /\ ConnectionBytes \in Nat
  BY <1>1, BytesType, BytesAssumption
<1>3. /\ x \in Batches => Bytes(H, E) = Bytes(G, E) + BatchBytes
      /\ x \in Replies => Bytes(H, E) = Bytes(G, E) + ReplyBytes
      /\ x \in Connections => Bytes(H, E) = Bytes(G, E) + ConnectionBytes
  <2> HIDE DEF G
  <2> QED
    BY <1>1, BytesOfMore
<1> HIDE DEF G
<1>4. /\ x \in Batches => Bytes(G, E) = Bytes(H, E) - BatchBytes
      /\ x \in Replies => Bytes(G, E) = Bytes(H, E) - ReplyBytes
      /\ x \in Connections => Bytes(G, E) = Bytes(H, E) - ConnectionBytes
  BY <1>2, <1>3
<1> QED
  BY <1>1, <1>4 DEF G

LEMMA BytesOfError ==
  ASSUME NEW H, IsFiniteSet(H), NEW E, IsFiniteSet(E), NEW b, b \notin E
  PROVE  /\ IsFiniteSet(E \cup {b})
         /\ Bytes(H, E \cup {b}) = Bytes(H, E) + ErrorBytes
<1>1. IsFiniteSet(E \cup {b}) /\ Cardinality(E \cup {b}) = Cardinality(E) + 1
  BY FS_AddElement
<1>2. /\ Cardinality(H \cap Batches) \in Nat /\ Cardinality(H \cap Replies) \in Nat
      /\ Cardinality(H \cap Connections) \in Nat /\ Cardinality(E) \in Nat
  BY FS_Subset, FS_CardinalityType
<1>3. (Cardinality(E) + 1) * ErrorBytes = Cardinality(E) * ErrorBytes + ErrorBytes
  BY <1>2, OneMore, BytesAssumption
<1> QED
  BY <1>1, <1>2, <1>3, BytesAssumption DEF Bytes

LEMMA BytesOfLessErrors ==
  ASSUME NEW H, IsFiniteSet(H), NEW E, IsFiniteSet(E), NEW b \in E
  PROVE  /\ IsFiniteSet(E \ {b})
         /\ Bytes(H, E \ {b}) = Bytes(H, E) - ErrorBytes
<1> DEFINE D == E \ {b}
<1>1. IsFiniteSet(D) /\ D \cup {b} = E /\ b \notin D
  BY FS_Subset
<1> HIDE DEF D
<1>2. Bytes(H, E) = Bytes(H, D) + ErrorBytes
  BY <1>1, BytesOfError
<1>3. Bytes(H, D) \in Nat /\ ErrorBytes \in Nat
  BY <1>1, BytesType, BytesAssumption
<1>4. Bytes(H, D) = Bytes(H, E) - ErrorBytes
  BY <1>2, <1>3
<1> QED
  BY <1>1, <1>4 DEF D

-----------------------------------------------------------------------------
(***************************************************************************)
(* Holders.  An action moves a few replies from one holder to another; that *)
(* h is the holder of r says also that nothing else is.                     *)
(***************************************************************************)

Nobody == <<"nobody", None>>

LEMMA HoldersDiffer ==
  /\ \A a, b : Queue(a) = Queue(b) => a = b
  /\ \A a, b : Children(a) = Children(b) => a = b
  /\ \A a, b : Parser(a) = Parser(b) => a = b
  /\ \A a, b : Queue(a) # Children(b) /\ Queue(a) # Parser(b) /\ Children(a) # Parser(b)
  /\ \A a : Queue(a) \notin {FreeList, Hand, Nobody}
  /\ \A a : Children(a) \notin {FreeList, Hand, Nobody}
  /\ \A a : Parser(a) \notin {FreeList, Hand, Nobody}
  /\ FreeList # Hand /\ FreeList # Nobody /\ Hand # Nobody
BY DEF Queue, Children, Parser, FreeList, Hand, Nobody

IsHolder(h, r) ==
    /\ \A b \in Batches : r \in ToSet(reply_queue[b]) <=> h = Queue(b)
    /\ \A m \in Replies : r \in Elements(m) <=> h = Children(m)
    /\ \A c \in Connections : r = multibulk_reply[c] <=> h = Parser(c)
    /\ r \in ToSet(freeReplies) <=> h = FreeList
    /\ r = hand <=> h = Hand
    /\ h # Nobody => /\ r \in heap \ dropped
                     /\ \/ h \in {FreeList, Hand}
                        \/ \E b \in Batches : h = Queue(b)
                        \/ \E m \in Replies : h = Children(m)
                        \/ \E c \in Connections : h = Parser(c)
    /\ SINGLETHREADED /\ r \in heap \ dropped => h # Nobody

LEMMA HoldersFound ==
  ASSUME NEW r \in Replies
  PROVE  /\ \A b \in Batches : Queue(b) \in HoldersOf(r) <=> r \in ToSet(reply_queue[b])
         /\ \A m \in Replies : Children(m) \in HoldersOf(r) <=> r \in Elements(m)
         /\ \A c \in Connections : Parser(c) \in HoldersOf(r) <=> r = multibulk_reply[c]
         /\ FreeList \in HoldersOf(r) <=> r \in ToSet(freeReplies)
         /\ Hand \in HoldersOf(r) <=> r = hand
         /\ Nobody \notin HoldersOf(r)
BY HoldersDiffer DEF HoldersOf

LEMMA HolderExists ==
  ASSUME HoldersOK, NEW r \in Replies
  PROVE  \E h : IsHolder(h, r)
<1>1. PICK h : \/ HoldersOf(r) = {} /\ h = Nobody
               \/ HoldersOf(r) = {h}
  <2>1. CASE HoldersOf(r) = {}
    BY <2>1
  <2>2. CASE HoldersOf(r) # {}
    <3>1. PICK h : h \in HoldersOf(r)
      BY <2>2
    <3>2. \A g \in HoldersOf(r) : g = h
      BY <3>1 DEF HoldersOK
    <3>3. HoldersOf(r) = {h}
      BY <3>1, <3>2
    <3> QED
      BY <3>3
  <2> QED
    BY <2>1, <2>2
<1>2. /\ \A b \in Batches : r \in ToSet(reply_queue[b]) <=> h = Queue(b)
      /\ \A m \in Replies : r \in Elements(m) <=> h = Children(m)
      /\ \A c \in Connections : r = multibulk_reply[c] <=> h = Parser(c)
      /\ r \in ToSet(freeReplies) <=> h = FreeList
      /\ r = hand <=> h = Hand
  BY <1>1, HoldersFound, HoldersDiffer
<1>3. h \in HoldersOf(r) =>
           \/ h \in {FreeList, Hand}
           \/ \E b \in Batches : h = Queue(b)
           \/ \E m \in Replies : h = Children(m)
           \/ \E c \in Connections : h = Parser(c)
  BY DEF HoldersOf
<1>4. h # Nobody <=> HoldersOf(r) # {}
  BY <1>1, HoldersFound
<1> QED
  BY <1>1, <1>2, <1>3, <1>4 DEF IsHolder, HoldersOK

\* A reply that is seen at one place is at no other.
LEMMA HolderIs ==
  ASSUME HoldersOK, NEW r \in Replies
  PROVE  /\ \A b \in Batches : r \in ToSet(reply_queue[b]) => IsHolder(Queue(b), r)
         /\ \A m \in Replies : r \in Elements(m) => IsHolder(Children(m), r)
         /\ \A c \in Connections : r = multibulk_reply[c] => IsHolder(Parser(c), r)
         /\ r \in ToSet(freeReplies) => IsHolder(FreeList, r)
         /\ r = hand => IsHolder(Hand, r)
         /\ r \notin heap \/ r \in dropped => IsHolder(Nobody, r)
<1>1. PICK h : IsHolder(h, r)
  BY HolderExists
<1>2. /\ \A b \in Batches : r \in ToSet(reply_queue[b]) => h = Queue(b)
      /\ \A m \in Replies : r \in Elements(m) => h = Children(m)
      /\ \A c \in Connections : r = multibulk_reply[c] => h = Parser(c)
      /\ r \in ToSet(freeReplies) => h = FreeList
      /\ r = hand => h = Hand
      /\ r \notin heap \/ r \in dropped => h = Nobody
  BY <1>1 DEF IsHolder
<1> QED
  BY <1>1, <1>2

SameHolder(r) ==
    /\ \A b \in Batches : r \in ToSet(reply_queue'[b]) <=> r \in ToSet(reply_queue[b])
    /\ \A m \in Replies : r \in Elements(m)' <=> r \in Elements(m)
    /\ \A c \in Connections : r = multibulk_reply'[c] <=> r = multibulk_reply[c]
    /\ r \in ToSet(freeReplies') <=> r \in ToSet(freeReplies)
    /\ r = hand' <=> r = hand
    /\ r \in heap' \ dropped' <=> r \in heap \ dropped

LEMMA StaysHeld ==
  ASSUME HoldersOK, NEW r \in Replies, SameHolder(r)
  PROVE  \E h : IsHolder(h, r)'
<1>1. PICK h : IsHolder(h, r)
  BY HolderExists
<1>2. IsHolder(h, r)'
  BY <1>1 DEF IsHolder, SameHolder
<1> QED
  BY <1>2

LEMMA HoldersNext ==
  ASSUME IsFiniteSet(heap'), dropped' \subseteq heap',
         \A r \in Replies : \E h : IsHolder(h, r)'
  PROVE  HoldersOK'
<1>1. ASSUME NEW r \in Replies
      PROVE  /\ \A g, h \in HoldersOf(r)' : g = h
             /\ HoldersOf(r)' # {} => r \in heap' \ dropped'
             /\ SINGLETHREADED /\ r \in heap' \ dropped' => HoldersOf(r)' # {}
  <2>1. PICK h : IsHolder(h, r)'
    OBVIOUS
  <2>2. ASSUME NEW g \in HoldersOf(r)' PROVE g = h /\ h # Nobody
    <3>1. \/ \E b \in Batches : g = Queue(b) /\ r \in ToSet(reply_queue'[b])
          \/ \E m \in Replies : g = Children(m) /\ r \in Elements(m)'
          \/ \E c \in Connections : g = Parser(c) /\ r = multibulk_reply'[c]
          \/ g = FreeList /\ r \in ToSet(freeReplies')
          \/ g = Hand /\ r = hand'
      BY DEF HoldersOf
    <3> QED
      BY <2>1, <3>1, HoldersDiffer DEF IsHolder
  <2>3. ASSUME h # Nobody PROVE HoldersOf(r)' # {}
    <3>1. CASE h = FreeList
      BY <2>1, <3>1 DEF IsHolder, HoldersOf
    <3>2. CASE h = Hand
      BY <2>1, <3>2 DEF IsHolder, HoldersOf
    <3>3. ASSUME NEW b \in Batches, h = Queue(b) PROVE HoldersOf(r)' # {}
      BY <2>1, <3>3 DEF IsHolder, HoldersOf
    <3>4. ASSUME NEW m \in Replies, h = Children(m) PROVE HoldersOf(r)' # {}
      BY <2>1, <3>4 DEF IsHolder, HoldersOf
    <3>5. ASSUME NEW c \in Connections, h = Parser(c) PROVE HoldersOf(r)' # {}
      BY <2>1, <3>5 DEF IsHolder, HoldersOf
    <3> QED
      BY <2>1, <2>3, <3>1, <3>2, <3>3, <3>4, <3>5 DEF IsHolder
  <2> QED
    BY <2>1, <2>2, <2>3 DEF IsHolder
<1> QED
  BY <1>1 DEF HoldersOK

-----------------------------------------------------------------------------
(***************************************************************************)
(* Taking a reply from the free list or from malloc, and answering.        *)
(***************************************************************************)

ReplyRecord ==
    [type : {"none", "data", "error", "multibulk"}, buffer : Buffers \cup {None},
     children : Seq(Replies)]

LEMMA ErrorsAreBatches ==
  ASSUME IInv
  PROVE  Errors \subseteq heap /\ IsFiniteSet(Errors) /\ IsFiniteSet(heap)
<1>1. Errors \subseteq heap
  BY DEF IInv, BatchesOK, Errors
<1>2. IsFiniteSet(heap)
  BY DEF IInv, HoldersOK
<1> QED
  BY <1>1, <1>2, FS_Subset

LEMMA AccountedNext ==
  ASSUME IsFiniteSet(heap'), IsFiniteSet(Errors'), allocated' = Bytes(heap', Errors')
  PROVE  Accounted' /\ allocated' \in Nat
<1>1. allocated' \in Nat
  BY BytesType
<1> QED
  BY <1>1 DEF Accounted, Bytes, Errors

LEMMA ReplyAllocated ==
  ASSUME IInv, NEW r \in Replies, Reply_list_alloc(r)
  PROVE  /\ IsHolder(FreeList, r) \/ IsHolder(Nobody, r)
         /\ r \notin dropped /\ heap' = heap \cup {r} /\ IsFiniteSet(heap')
         /\ freeReplies' \in Seq(Replies) /\ IsInjective(freeReplies')
         /\ ToSet(freeReplies') = ToSet(freeReplies) \ {r}
         /\ allocated' = Bytes(heap', Errors)
         /\ reply[r].children = <<>>
<1>1. /\ HoldersOK /\ freeReplies \in Seq(Replies) /\ IsInjective(freeReplies)
      /\ allocated = Bytes(heap, Errors)
  BY DEF IInv, TypeOK, HeldOnce, Accounted, Bytes, Errors
<1>2. CASE SINGLETHREADED /\ freeReplies # <<>>
  <2>1. /\ r = Last(freeReplies) /\ freeReplies' = Front(freeReplies)
        /\ heap' = heap /\ allocated' = allocated
    BY <1>2 DEF Reply_list_alloc, heapVars
  <2>2. r \in ToSet(freeReplies)
    BY <1>1, <1>2, <2>1, PopFromList
  <2>3. IsHolder(FreeList, r)
    BY <1>1, <2>2, HolderIs
  <2>4. r \in heap \ dropped
    BY <2>3, HoldersDiffer DEF IsHolder
  <2>5. /\ freeReplies' \in Seq(Replies) /\ IsInjective(freeReplies')
        /\ ToSet(freeReplies) = ToSet(freeReplies') \cup {r}
        /\ r \notin ToSet(freeReplies')
    BY <1>1, <1>2, <2>1, PopFromList
  <2>6. reply[r].children = <<>>
    BY <2>2 DEF IInv, Flat
  <2> QED
    BY <1>1, <2>1, <2>3, <2>4, <2>5, <2>6, ErrorsAreBatches
<1>3. CASE ~(SINGLETHREADED /\ freeReplies # <<>>)
  <2>1. /\ r \notin heap /\ heap' = heap \cup {r} /\ allocated' = allocated + ReplyBytes
        /\ freeReplies' = freeReplies
    BY <1>3 DEF Reply_list_alloc, _Alloc_alloc
  <2>2. IsHolder(Nobody, r)
    BY <1>1, <2>1, HolderIs
  <2>3. r \notin ToSet(freeReplies)
    BY <2>2, HoldersDiffer DEF IsHolder
  <2>4. allocated' = Bytes(heap', Errors)
    BY <1>1, <2>1, BytesOfMore, ErrorsAreBatches
  <2>5. IsFiniteSet(heap')
    BY <2>1, ErrorsAreBatches, FS_AddElement
  <2>6. reply[r].children = <<>> /\ r \notin dropped
    BY <2>1 DEF IInv, Flat, HoldersOK
  <2> QED
    BY <1>1, <2>1, <2>2, <2>3, <2>4, <2>5, <2>6
<1> QED
  BY <1>2, <1>3

LEMMA Answered ==
  ASSUME IInv, NEW c \in Connections, NEW b, b = current_batch[c], b # None,
         NEW r \in Replies,
         num_commands' = [num_commands EXCEPT ![b] = @ - 1],
         reply_queue' = [reply_queue EXCEPT ![b] = Append(@, r)],
         current_batch' = [current_batch EXCEPT ![c] =
                             IF num_commands[b] = 1 THEN None ELSE @]
  PROVE  /\ b \in Batches /\ b \in held /\ c \in heap /\ phase = "open" /\ freeing = None
         /\ num_commands' \in [Batches -> Nat]
         /\ reply_queue' \in [Batches -> Seq(Replies)]
         /\ current_batch' \in [Connections -> Batches \cup {None}]
         /\ \A a \in Batches \ {b} : reply_queue'[a] = reply_queue[a]
         /\ ToSet(reply_queue'[b]) = ToSet(reply_queue[b]) \cup {r}
         /\ r \notin ToSet(reply_queue[b]) => IsInjective(reply_queue'[b])
         /\ \A d \in Connections : current_batch'[d] # None =>
               /\ current_batch'[d] = current_batch[d]
               /\ num_commands'[current_batch[d]] > 0
         /\ \A d \in Connections \ {c} : current_batch'[d] = current_batch[d]
<1>1. /\ num_commands' = [num_commands EXCEPT ![b] = @ - 1]
      /\ reply_queue' = [reply_queue EXCEPT ![b] = Append(@, r)]
      /\ current_batch' = [current_batch EXCEPT ![c] =
                             IF num_commands[b] = 1 THEN None ELSE @]
  OBVIOUS
<1>2. /\ num_commands \in [Batches -> Nat] /\ reply_queue \in [Batches -> Seq(Replies)]
      /\ current_batch \in [Connections -> Batches \cup {None}]
      /\ IsInjective(reply_queue[b])
  BY DEF IInv, TypeOK, HeldOnce, PairsOK, BatchesOK
<1>3. /\ b \in Batches /\ b \in held /\ c \in heap /\ phase = "open" /\ freeing = None
      /\ num_commands[b] \in Nat /\ num_commands[b] > 0
  BY <1>2 DEF IInv, PairsOK, RunsOK
<1>4. /\ Append(reply_queue[b], r) \in Seq(Replies)
      /\ ToSet(Append(reply_queue[b], r)) = ToSet(reply_queue[b]) \cup {r}
      /\ r \notin ToSet(reply_queue[b]) => IsInjective(Append(reply_queue[b], r))
  BY <1>2, <1>3, AppendToList
<1>5. num_commands' \in [Batches -> Nat]
  BY <1>1, <1>2, <1>3
<1>6. /\ reply_queue' \in [Batches -> Seq(Replies)]
      /\ reply_queue'[b] = Append(reply_queue[b], r)
      /\ \A a \in Batches \ {b} : reply_queue'[a] = reply_queue[a]
  BY <1>1, <1>2, <1>3, <1>4
<1>7. current_batch' \in [Connections -> Batches \cup {None}]
  BY <1>1, <1>2
<1>8. ASSUME NEW d \in Connections, current_batch'[d] # None
      PROVE  /\ current_batch'[d] = current_batch[d]
             /\ num_commands'[current_batch[d]] > 0
  <2>1. CASE d = c
    BY <1>1, <1>2, <1>3, <1>8, <2>1
  <2>2. CASE d # c
    <3>1. current_batch'[d] = current_batch[d] /\ current_batch[d] \in Batches
      BY <1>1, <1>2, <1>8, <2>2
    <3>2. current_batch[d] # b /\ num_commands[current_batch[d]] > 0
      BY <1>8, <2>2, <3>1 DEF IInv, PairsOK, RunsOK
    <3> QED
      BY <1>1, <1>2, <3>1, <3>2
  <2> QED
    BY <2>1, <2>2
<1>9. \A d \in Connections \ {c} : current_batch'[d] = current_batch[d]
  BY <1>1, <1>2
<1> QED
  BY <1>3, <1>4, <1>5, <1>6, <1>7, <1>8, <1>9

\* A reply without elements that goes into the batch of connection c.
LEMMA AnswerNext ==
  ASSUME IInv, NEW c \in Connections, NEW b, b = current_batch[c], b # None,
         NEW r \in Replies, Reply_list_alloc(r),
         NEW new \in ReplyRecord, new.children = <<>>,
         new.buffer \in {None, <<b, "read">>, <<b, "error">>},
         new.buffer = <<b, "error">> => error[b],
         reply' = [reply EXCEPT ![r] = new],
         Batch_add_reply(c, r),
         UNCHANGED <<phase, freeBatches, held, error, parserVars, freeVars, dropped>>
  PROVE  IInv'
<1>1. /\ \/ IsHolder(FreeList, r)
         \/ IsHolder(Nobody, r)
      /\ r \notin dropped /\ heap' = heap \cup {r} /\ IsFiniteSet(heap')
      /\ freeReplies' \in Seq(Replies) /\ IsInjective(freeReplies')
      /\ ToSet(freeReplies') = ToSet(freeReplies) \ {r}
      /\ allocated' = Bytes(heap', Errors)
      /\ reply[r].children = <<>>
  BY ReplyAllocated
<1>2. /\ b \in Batches /\ b \in held /\ c \in heap /\ phase = "open" /\ freeing = None
      /\ num_commands' \in [Batches -> Nat]
      /\ reply_queue' \in [Batches -> Seq(Replies)]
      /\ current_batch' \in [Connections -> Batches \cup {None}]
      /\ \A a \in Batches \ {b} : reply_queue'[a] = reply_queue[a]
      /\ ToSet(reply_queue'[b]) = ToSet(reply_queue[b]) \cup {r}
      /\ r \notin ToSet(reply_queue[b]) => IsInjective(reply_queue'[b])
      /\ \A d \in Connections : current_batch'[d] # None =>
            /\ current_batch'[d] = current_batch[d]
            /\ num_commands'[current_batch[d]] > 0
      /\ \A d \in Connections \ {c} : current_batch'[d] = current_batch[d]
  <2>1. /\ num_commands' = [num_commands EXCEPT ![b] = @ - 1]
        /\ reply_queue' = [reply_queue EXCEPT ![b] = Append(@, r)]
        /\ current_batch' = [current_batch EXCEPT ![c] =
                               IF num_commands[b] = 1 THEN None ELSE @]
    BY DEF Batch_add_reply
  <2> QED
    BY <2>1, Answered
<1>3. TypeOK /\ HeldOnce /\ HoldersOK /\ Flat /\ BatchesOK /\ PairsOK /\ PhasesOK /\ OwnData
  BY DEF IInv
<1>4. /\ phase' = phase /\ freeBatches' = freeBatches /\ held' = held /\ error' = error
      /\ multibulk_reply' = multibulk_reply /\ multibulk_count' = multibulk_count
      /\ freeing' = freeing /\ hand' = hand /\ dropped' = dropped
  BY DEF parserVars, freeVars
<1>5. /\ reply \in [Replies -> ReplyRecord] /\ reply' \in [Replies -> ReplyRecord]
      /\ reply'[r] = new
      /\ \A s \in Replies \ {r} : reply'[s] = reply[s]
  BY <1>3 DEF TypeOK, ReplyRecord
<1>6. \A m \in Replies : reply'[m].children = reply[m].children /\ Elements(m)' = Elements(m)
  BY <1>1, <1>5 DEF Elements
<1>7. /\ \A a \in Batches : r \notin ToSet(reply_queue[a])
      /\ \A m \in Replies : r \notin Elements(m)
      /\ \A d \in Connections : r # multibulk_reply[d]
      /\ r # hand
  BY <1>1, HoldersDiffer DEF IsHolder
<1>8. IsHolder(Queue(b), r)'
  <2>1. \A a \in Batches : r \in ToSet(reply_queue'[a]) <=> a = b
    BY <1>2, <1>7
  <2>2. \A m \in Replies : r \notin Elements(m)'
    BY <1>6, <1>7
  <2>3. /\ \A d \in Connections : r # multibulk_reply'[d]
        /\ r \notin ToSet(freeReplies') /\ r # hand' /\ r \in heap' \ dropped'
    BY <1>1, <1>4, <1>7
  <2> QED
    BY <1>2, <2>1, <2>2, <2>3, HoldersDiffer DEF IsHolder
<1>9. ASSUME NEW s \in Replies, s # r PROVE SameHolder(s)
  BY <1>1, <1>2, <1>4, <1>6, <1>9 DEF SameHolder
<1>10. HoldersOK'
  <2>1. ASSUME NEW s \in Replies PROVE \E h : IsHolder(h, s)'
    BY <1>3, <1>8, <1>9, StaysHeld
  <2>2. dropped' \subseteq heap'
    BY <1>1, <1>3, <1>4 DEF HoldersOK
  <2> QED
    BY <1>1, <2>1, <2>2, HoldersNext
<1>11. HeldOnce'
  <2>1. \A a \in Batches : IsInjective(reply_queue'[a])
    BY <1>2, <1>3, <1>7 DEF HeldOnce
  <2> QED
    BY <1>1, <1>3, <1>4, <1>6, <2>1 DEF HeldOnce
<1>12. Flat'
  BY <1>1, <1>3, <1>6 DEF Flat
<1>13. \A x \in Batches \cup Connections : x \in heap' <=> x \in heap
  BY <1>1, AddressAssumption
<1>14. BatchesOK'
  BY <1>2, <1>3, <1>4, <1>13 DEF BatchesOK
<1>15. \A s \in Replies : \A a : s # r /\ LooksInto(a, s) => LooksInto(a, s)'
  BY <1>4, <1>5 DEF LooksInto
<1>16. PairsOK'
  <2>1. ASSUME NEW d \in Connections PROVE RunsOK(d)'
    BY <1>2, <1>3, <1>4, <1>13 DEF PairsOK, RunsOK
  <2>2. ASSUME NEW d \in Connections, NEW e \in Connections,
               current_batch'[d] = current_batch'[e], current_batch'[d] # None
        PROVE  d = e
    <3>1. current_batch[d] = current_batch[e] /\ current_batch[d] # None
      BY <1>2, <2>2
    <3> QED
      BY <1>3, <3>1 DEF PairsOK
  <2>3. ASSUME NEW d \in Connections PROVE OpenOK(d)'
    <3> DEFINE m == multibulk_reply[d]
    <3>1. OpenOK(d) /\ m \in Replies \cup {None}
      BY <1>3 DEF PairsOK, TypeOK
    <3>2. ASSUME current_batch'[d] # None, m # None, NEW s \in {m} \cup Elements(m)
          PROVE  LooksInto(current_batch[d], s)' /\ current_batch'[d] = current_batch[d]
      <4>1. m \in Replies /\ Elements(m) \subseteq Replies
        BY <1>5, <3>1, <3>2, ListMembers DEF Elements, ReplyRecord
      <4>2. s # r /\ s \in Replies
        BY <1>7, <4>1
      <4>3. current_batch'[d] = current_batch[d] /\ LooksInto(current_batch[d], s)
        BY <1>2, <3>1, <3>2 DEF OpenOK
      <4> QED
        BY <1>4, <1>5, <4>2, <4>3 DEF LooksInto
    <3>3. m # None => reply'[m].children = reply[m].children
      BY <1>6, <3>1
    <3> QED
      BY <1>4, <1>13, <3>1, <3>2, <3>3 DEF OpenOK, LooksInto, Elements
  <2> QED
    BY <2>1, <2>2, <2>3 DEF PairsOK
<1>17. PhasesOK'
  BY <1>2, <1>3, <1>4 DEF PhasesOK
<1>18. Accounted' /\ allocated' \in Nat
  <2>1. Errors' = Errors
    BY <1>4 DEF Errors
  <2> QED
    BY <1>1, <2>1, ErrorsAreBatches, AccountedNext
<1>19. OwnData'
  <2>1. ASSUME NEW a \in held', NEW q \in ToSet(reply_queue'[a]),
               NEW s \in {q} \cup Elements(q)'
        PROVE  s \in heap' /\ LooksInto(a, s)'
    <3>1. a \in held /\ a \in Batches
      BY <1>3, <1>4 DEF TypeOK
    <3>2. CASE q = r
      <4>1. a = b
        BY <1>2, <1>7, <3>1, <3>2
      <4>2. s = r
        <5>1. Elements(r)' = {}
          BY <1>5, EmptyList DEF Elements
        <5> QED
          BY <3>2, <5>1
      <4> QED
        BY <1>1, <1>4, <1>5, <4>1, <4>2 DEF LooksInto
    <3>3. CASE q # r
      <4>1. q \in ToSet(reply_queue[a])
        BY <1>2, <3>1, <3>3
      <4>2. q \in Replies
        BY <1>3, <3>1, <4>1, ListMembers DEF TypeOK
      <4>3. Elements(q) \subseteq Replies
        BY <1>5, <4>2, ListMembers DEF Elements, ReplyRecord
      <4>4. s \in {q} \cup Elements(q) /\ s # r
        BY <1>6, <1>7, <3>3, <4>2
      <4>5. s \in heap /\ LooksInto(a, s)
        BY <1>3, <3>1, <4>1, <4>4 DEF OwnData, LooksInto
      <4> QED
        BY <1>1, <1>15, <4>2, <4>3, <4>4, <4>5
    <3> QED
      BY <3>2, <3>3
  <2> QED
    BY <2>1 DEF OwnData, LooksInto
<1>20. TypeOK'
  <2>1. heap' \subseteq Connections \cup Batches \cup Replies
    BY <1>1, <1>3 DEF TypeOK
  <2>2. error' \in [Batches -> BOOLEAN]
    BY <1>3, <1>4 DEF TypeOK
  <2> QED
    BY <1>1, <1>2, <1>3, <1>4, <1>5, <1>18, <2>1, <2>2 DEF TypeOK, ReplyRecord
<1> QED
  BY <1>10, <1>11, <1>12, <1>14, <1>16, <1>17, <1>18, <1>19, <1>20 DEF IInv

\* A reply that malloc or the free list returns is at no place.
LEMMA FreshReply ==
  ASSUME IInv, NEW r \in Replies, Reply_list_alloc(r)
  PROVE  /\ \A a \in Batches : r \notin ToSet(reply_queue[a])
         /\ \A m \in Replies : r \notin Elements(m)
         /\ \A d \in Connections : r # multibulk_reply[d]
         /\ r # hand
BY ReplyAllocated, HoldersDiffer DEF IsHolder

\* The open multibulk reply is at no place but in its parser.
LEMMA OpenReply ==
  ASSUME IInv, NEW c \in Connections, NEW m \in Replies, m = multibulk_reply[c]
  PROVE  /\ \A a \in Batches : m \notin ToSet(reply_queue[a])
         /\ \A q \in Replies : m \notin Elements(q)
         /\ \A d \in Connections \ {c} : m # multibulk_reply[d]
         /\ m \notin ToSet(freeReplies) /\ m # hand
         /\ m \in heap \ dropped
<1>1. IsHolder(Parser(c), m)
  BY HolderIs DEF IInv
<1> QED
  BY <1>1, HoldersDiffer DEF IsHolder

LEMMA ParseMultibulkNext ==
  ASSUME IInv, NEW c \in Connections, current_batch[c] # None, multibulk_reply[c] = None,
         NEW r \in Replies, NEW n \in Nat, Reply_list_alloc(r),
         reply' = [reply EXCEPT ![r] = New("multibulk", None)],
         multibulk_reply' = [multibulk_reply EXCEPT ![c] = r],
         multibulk_count' = [multibulk_count EXCEPT ![c] = n],
         UNCHANGED <<phase, freeBatches, held, batchVars, current_batch, freeVars, dropped>>
  PROVE  IInv'
<1> DEFINE new == New("multibulk", None)
<1>1. /\ r \notin dropped /\ heap' = heap \cup {r} /\ IsFiniteSet(heap')
      /\ freeReplies' \in Seq(Replies) /\ IsInjective(freeReplies')
      /\ ToSet(freeReplies') = ToSet(freeReplies) \ {r}
      /\ allocated' = Bytes(heap', Errors)
      /\ reply[r].children = <<>>
  BY ReplyAllocated
<1>2. /\ \A a \in Batches : r \notin ToSet(reply_queue[a])
      /\ \A m \in Replies : r \notin Elements(m)
      /\ \A d \in Connections : r # multibulk_reply[d]
      /\ r # hand
  BY FreshReply
<1>3. TypeOK /\ HeldOnce /\ HoldersOK /\ Flat /\ BatchesOK /\ PairsOK /\ PhasesOK /\ OwnData
  BY DEF IInv
<1>4. /\ phase' = phase /\ freeBatches' = freeBatches /\ held' = held /\ error' = error
      /\ num_commands' = num_commands /\ reply_queue' = reply_queue
      /\ current_batch' = current_batch
      /\ freeing' = freeing /\ hand' = hand /\ dropped' = dropped
  BY DEF batchVars, freeVars
<1>5. /\ new \in ReplyRecord /\ new.children = <<>> /\ new.buffer = None
      /\ reply \in [Replies -> ReplyRecord] /\ reply' \in [Replies -> ReplyRecord]
      /\ reply'[r] = new
      /\ \A s \in Replies \ {r} : reply'[s] = reply[s]
  <2>1. new \in ReplyRecord /\ new.children = <<>> /\ new.buffer = None
    BY EmptyList DEF New, ReplyRecord
  <2> HIDE DEF new
  <2>2. reply \in [Replies -> ReplyRecord] /\ reply' = [reply EXCEPT ![r] = new]
    BY <1>3 DEF TypeOK, ReplyRecord, new
  <2> QED
    BY <2>1, <2>2
<1> HIDE DEF new
<1>6. \A m \in Replies : reply'[m].children = reply[m].children /\ Elements(m)' = Elements(m)
  BY <1>1, <1>5 DEF Elements
<1>7. /\ multibulk_reply' \in [Connections -> Replies \cup {None}]
      /\ multibulk_count' \in [Connections -> Nat]
      /\ multibulk_reply'[c] = r
      /\ \A d \in Connections \ {c} : /\ multibulk_reply'[d] = multibulk_reply[d]
                                      /\ multibulk_count'[d] = multibulk_count[d]
  BY <1>3 DEF TypeOK
<1>8. c \in heap /\ r # None
  BY <1>3, NoneAssumption DEF PairsOK, RunsOK
<1>9. IsHolder(Parser(c), r)'
  <2>1. \A a \in Batches : r \notin ToSet(reply_queue'[a])
    BY <1>2, <1>4
  <2>2. \A m \in Replies : r \notin Elements(m)'
    BY <1>2, <1>6
  <2>3. \A d \in Connections : r = multibulk_reply'[d] <=> d = c
    BY <1>2, <1>7
  <2>4. r \notin ToSet(freeReplies') /\ r # hand' /\ r \in heap' \ dropped'
    BY <1>1, <1>2, <1>4
  <2> QED
    BY <2>1, <2>2, <2>3, <2>4, HoldersDiffer DEF IsHolder
<1>10. ASSUME NEW s \in Replies, s # r PROVE SameHolder(s)
  <2>1. \A d \in Connections : s = multibulk_reply'[d] <=> s = multibulk_reply[d]
    <3>1. s # None
      BY NoneAssumption
    <3> QED
      BY <1>7, <1>10, <3>1
  <2> QED
    BY <1>1, <1>4, <1>6, <1>10, <2>1 DEF SameHolder
<1>11. HoldersOK'
  <2>1. ASSUME NEW s \in Replies PROVE \E h : IsHolder(h, s)'
    BY <1>3, <1>9, <1>10, StaysHeld
  <2>2. dropped' \subseteq heap'
    BY <1>1, <1>3, <1>4 DEF HoldersOK
  <2> QED
    BY <1>1, <2>1, <2>2, HoldersNext
<1>12. HeldOnce'
  BY <1>1, <1>3, <1>4, <1>6 DEF HeldOnce
<1>13. Flat'
  BY <1>1, <1>3, <1>6 DEF Flat
<1>14. \A x \in Batches \cup Connections : x \in heap' <=> x \in heap
  BY <1>1, AddressAssumption
<1>15. BatchesOK'
  BY <1>3, <1>4, <1>14 DEF BatchesOK
<1>16. PairsOK'
  <2>1. ASSUME NEW d \in Connections PROVE RunsOK(d)'
    BY <1>3, <1>4, <1>14 DEF PairsOK, RunsOK
  <2>2. ASSUME NEW d \in Connections, d # c PROVE OpenOK(d)'
    <3> DEFINE m == multibulk_reply[d]
    <3>1. OpenOK(d) /\ m \in Replies \cup {None}
      BY <1>3 DEF PairsOK, TypeOK
    <3>2. ASSUME current_batch[d] # None, m # None, NEW s \in {m} \cup Elements(m)
          PROVE  LooksInto(current_batch[d], s)'
      <4>1. m \in Replies /\ Elements(m) \subseteq Replies
        BY <1>5, <3>1, <3>2, ListMembers DEF Elements, ReplyRecord
      <4>2. s # r /\ s \in Replies
        BY <1>2, <4>1
      <4>3. LooksInto(current_batch[d], s)
        BY <3>1, <3>2 DEF OpenOK
      <4> QED
        BY <1>4, <1>5, <4>2, <4>3 DEF LooksInto
    <3>3. m # None => reply'[m].children = reply[m].children
      BY <1>6, <3>1
    <3> QED
      BY <1>4, <1>7, <1>14, <2>2, <3>1, <3>2, <3>3 DEF OpenOK, LooksInto, Elements
  <2>3. OpenOK(c)'
    <3>1. ToSet(reply'[r].children) = {} /\ reply'[r].buffer = None
      BY <1>5, EmptyList
    <3>2. current_batch[c] \in Batches
      BY <1>3 DEF TypeOK
    <3>3. None # <<current_batch[c], "error">>
      BY <3>2, NoneAssumption DEF Buffers
    <3>4. c \in heap' /\ multibulk_reply'[c] = r /\ r # None
      BY <1>7, <1>8, <1>14
    <3>5. LooksInto(current_batch[c], r)'
      BY <1>4, <3>1, <3>3 DEF LooksInto
    <3> QED
      BY <1>4, <3>1, <3>4, <3>5 DEF OpenOK, LooksInto, Elements
  <2> QED
    BY <1>3, <1>4, <2>1, <2>2, <2>3 DEF PairsOK
<1>17. PhasesOK'
  BY <1>3, <1>4, <1>14, <1>1, AddressAssumption DEF PhasesOK, PairsOK, RunsOK
<1>18. Accounted' /\ allocated' \in Nat
  <2>1. Errors' = Errors
    BY <1>4 DEF Errors
  <2> QED
    BY <1>1, <2>1, ErrorsAreBatches, AccountedNext
<1>19. OwnData'
  <2>1. ASSUME NEW a \in held', NEW q \in ToSet(reply_queue'[a]),
               NEW s \in {q} \cup Elements(q)'
        PROVE  s \in heap' /\ LooksInto(a, s)'
    <3>1. a \in Batches /\ a \in held /\ q \in ToSet(reply_queue[a])
      BY <1>3, <1>4 DEF TypeOK
    <3>2. q \in Replies /\ q # r
      BY <1>2, <1>3, <3>1, ListMembers DEF TypeOK
    <3>3. Elements(q) \subseteq Replies
      BY <1>5, <3>2, ListMembers DEF Elements, ReplyRecord
    <3>4. s \in {q} \cup Elements(q) /\ s \in Replies /\ s # r
      BY <1>2, <1>6, <3>2, <3>3
    <3>5. s \in heap /\ LooksInto(a, s)
      BY <1>3, <3>1, <3>4 DEF OwnData, LooksInto
    <3> QED
      BY <1>1, <1>4, <1>5, <3>4, <3>5 DEF LooksInto
  <2> QED
    BY <2>1 DEF OwnData, LooksInto
<1>20. TypeOK'
  <2>1. heap' \subseteq Connections \cup Batches \cup Replies
    BY <1>1, <1>3 DEF TypeOK
  <2>2. error' \in [Batches -> BOOLEAN]
    BY <1>3, <1>4 DEF TypeOK
  <2> QED
    BY <1>1, <1>3, <1>4, <1>5, <1>7, <1>18, <2>1, <2>2 DEF TypeOK, ReplyRecord
<1> QED
  BY <1>11, <1>12, <1>13, <1>15, <1>16, <1>17, <1>18, <1>19, <1>20 DEF IInv

LEMMA ParseEmptyNext ==
  ASSUME IInv, NEW c \in Connections, NEW b, b = current_batch[c], b # None,
         NEW m \in Replies, m = multibulk_reply[c],
         multibulk_count[c] = 0, Batch_add_reply(c, m),
         multibulk_reply' = [multibulk_reply EXCEPT ![c] = None],
         UNCHANGED <<phase, heapVars, freeBatches, freeReplies, held, error, reply,
                     multibulk_count, freeVars, dropped>>
  PROVE  IInv'
<1>1. TypeOK /\ HeldOnce /\ HoldersOK /\ Flat /\ BatchesOK /\ PairsOK /\ PhasesOK /\ OwnData
  BY DEF IInv
<1>2. /\ phase' = phase /\ heap' = heap /\ allocated' = allocated
      /\ freeBatches' = freeBatches /\ freeReplies' = freeReplies
      /\ held' = held /\ error' = error /\ reply' = reply
      /\ multibulk_count' = multibulk_count
      /\ freeing' = freeing /\ hand' = hand /\ dropped' = dropped
  BY DEF heapVars, freeVars
<1>3. m # None
  BY NoneAssumption
<1>4. /\ b \in Batches /\ b \in held /\ c \in heap /\ phase = "open" /\ freeing = None
      /\ num_commands' \in [Batches -> Nat]
      /\ reply_queue' \in [Batches -> Seq(Replies)]
      /\ current_batch' \in [Connections -> Batches \cup {None}]
      /\ \A a \in Batches \ {b} : reply_queue'[a] = reply_queue[a]
      /\ ToSet(reply_queue'[b]) = ToSet(reply_queue[b]) \cup {m}
      /\ m \notin ToSet(reply_queue[b]) => IsInjective(reply_queue'[b])
      /\ \A d \in Connections : current_batch'[d] # None =>
            /\ current_batch'[d] = current_batch[d]
            /\ num_commands'[current_batch[d]] > 0
      /\ \A d \in Connections \ {c} : current_batch'[d] = current_batch[d]
  BY Answered DEF Batch_add_reply
<1>5. /\ \A a \in Batches : m \notin ToSet(reply_queue[a])
      /\ \A q \in Replies : m \notin Elements(q)
      /\ \A d \in Connections \ {c} : m # multibulk_reply[d]
      /\ m \notin ToSet(freeReplies) /\ m # hand /\ m \in heap \ dropped
  BY <1>3, OpenReply
<1>6. /\ multibulk_reply' \in [Connections -> Replies \cup {None}]
      /\ multibulk_reply'[c] = None
      /\ \A d \in Connections \ {c} : multibulk_reply'[d] = multibulk_reply[d]
  BY <1>1 DEF TypeOK
<1>7. OpenOK(c) /\ RunsOK(c)
  BY <1>1 DEF PairsOK
<1>8. \A s \in {m} \cup Elements(m) : LooksInto(b, s)
  BY <1>3, <1>7 DEF OpenOK
<1>9. \A q \in Replies : Elements(q)' = Elements(q)
  BY <1>2 DEF Elements
<1>10. IsHolder(Queue(b), m)'
  <2>1. \A a \in Batches : m \in ToSet(reply_queue'[a]) <=> a = b
    BY <1>4, <1>5
  <2>2. \A q \in Replies : m \notin Elements(q)'
    BY <1>5, <1>9
  <2>3. /\ \A d \in Connections : m # multibulk_reply'[d]
        /\ m \notin ToSet(freeReplies') /\ m # hand' /\ m \in heap' \ dropped'
    BY <1>2, <1>3, <1>5, <1>6
  <2> QED
    BY <1>4, <2>1, <2>2, <2>3, HoldersDiffer DEF IsHolder
<1>11. ASSUME NEW s \in Replies, s # m PROVE SameHolder(s)
  <2>1. \A d \in Connections : s = multibulk_reply'[d] <=> s = multibulk_reply[d]
    <3>1. s # None
      BY NoneAssumption
    <3> QED
      BY <1>6, <1>11, <3>1
  <2>2. \A a \in Batches : s \in ToSet(reply_queue'[a]) <=> s \in ToSet(reply_queue[a])
    BY <1>4, <1>11
  <2> QED
    BY <1>2, <1>9, <2>1, <2>2 DEF SameHolder
<1>12. HoldersOK'
  <2>1. ASSUME NEW s \in Replies PROVE \E h : IsHolder(h, s)'
    BY <1>1, <1>10, <1>11, StaysHeld
  <2>2. IsFiniteSet(heap') /\ dropped' \subseteq heap'
    BY <1>1, <1>2 DEF HoldersOK
  <2> QED
    BY <2>1, <2>2, HoldersNext
<1>13. HeldOnce'
  <2>1. \A a \in Batches : IsInjective(reply_queue'[a])
    BY <1>1, <1>4, <1>5 DEF HeldOnce
  <2> QED
    BY <1>1, <1>2, <2>1 DEF HeldOnce
<1>14. Flat'
  BY <1>1, <1>2, <1>9 DEF Flat
<1>15. BatchesOK'
  BY <1>1, <1>2, <1>4 DEF BatchesOK
<1>16. PairsOK'
  <2>1. ASSUME NEW d \in Connections PROVE RunsOK(d)'
    BY <1>1, <1>2, <1>4 DEF PairsOK, RunsOK
  <2>2. ASSUME NEW d \in Connections, NEW e \in Connections,
               current_batch'[d] = current_batch'[e], current_batch'[d] # None
        PROVE  d = e
    <3>1. current_batch[d] = current_batch[e] /\ current_batch[d] # None
      BY <1>4, <2>2
    <3> QED
      BY <1>1, <3>1 DEF PairsOK
  <2>3. ASSUME NEW d \in Connections PROVE OpenOK(d)'
    <3>1. CASE d = c
      BY <1>2, <1>3, <1>6, <3>1 DEF OpenOK
    <3>2. CASE d # c
      <4>1. multibulk_reply'[d] = multibulk_reply[d] /\ current_batch'[d] = current_batch[d]
        BY <1>4, <1>6, <3>2
      <4>2. OpenOK(d)
        BY <1>1 DEF PairsOK
      <4> QED
        BY <1>2, <4>1, <4>2 DEF OpenOK, LooksInto, Elements
    <3> QED
      BY <3>1, <3>2
  <2> QED
    BY <2>1, <2>2, <2>3 DEF PairsOK
<1>17. PhasesOK'
  BY <1>1, <1>2, <1>4 DEF PhasesOK
<1>18. Accounted'
  BY <1>2 DEF IInv, Accounted
<1>19. OwnData'
  <2>1. ASSUME NEW a \in held', NEW q \in ToSet(reply_queue'[a]),
               NEW s \in {q} \cup Elements(q)
        PROVE  s \in heap /\ LooksInto(a, s)
    <3>1. a \in held /\ a \in Batches
      BY <1>1, <1>2 DEF TypeOK
    <3>2. CASE q = m
      <4>1. a = b
        BY <1>4, <1>5, <3>1, <3>2
      <4>2. s \in heap
        <5>1. CASE s = m
          BY <1>5, <5>1
        <5>2. CASE s \in Elements(m)
          <6>1. s \in Replies
            BY <1>1, <1>3, <5>2, ListMembers DEF TypeOK, Elements
          <6>2. IsHolder(Children(m), s)
            BY <1>1, <1>3, <5>2, <6>1, HolderIs
          <6> QED
            BY <6>2, HoldersDiffer DEF IsHolder
        <5> QED
          BY <3>2, <5>1, <5>2
      <4> QED
        BY <1>8, <3>2, <4>1, <4>2
    <3>3. CASE q # m
      <4>1. q \in ToSet(reply_queue[a])
        BY <1>4, <3>1, <3>3
      <4> QED
        BY <1>1, <3>1, <4>1 DEF OwnData, LooksInto
    <3> QED
      BY <3>2, <3>3
  <2> QED
    BY <1>2, <2>1 DEF OwnData, LooksInto, Elements
<1>20. TypeOK'
  <2>1. error' \in [Batches -> BOOLEAN] /\ reply' \in [Replies -> ReplyRecord]
    BY <1>1, <1>2 DEF TypeOK, ReplyRecord
  <2> QED
    BY <1>1, <1>2, <1>4, <1>6, <2>1 DEF TypeOK, ReplyRecord
<1> QED
  BY <1>12, <1>13, <1>14, <1>15, <1>16, <1>17, <1>18, <1>19, <1>20 DEF IInv

\* Reply r becomes the last element of m.
LEMMA ElementAdded ==
  ASSUME IInv, NEW b \in Batches, NEW m \in Replies, NEW r \in Replies, m # r,
         r \notin Elements(m),
         reply' = [s \in Replies |-> reply'[s]],
         reply'[r] = New("data", <<b, "read">>),
         reply'[m] = [reply[m] EXCEPT !.children = Append(@, r)],
         \A s \in Replies \ {r, m} : reply'[s] = reply[s]
  PROVE  /\ reply' \in [Replies -> ReplyRecord]
         /\ reply'[r].children = <<>> /\ reply'[r].buffer = <<b, "read">>
         /\ reply'[m].buffer = reply[m].buffer
         /\ reply'[m].children = Append(reply[m].children, r)
         /\ IsInjective(reply'[m].children)
         /\ \A s \in Replies \ {r, m} : reply'[s] = reply[s]
<1> DEFINE new == New("data", <<b, "read">>)
<1>1. new \in ReplyRecord /\ new.children = <<>> /\ new.buffer = <<b, "read">>
  BY EmptyList DEF New, ReplyRecord, Buffers
<1>2. reply'[r] = new
  OBVIOUS
<1> HIDE DEF new
<1>3. reply \in [Replies -> ReplyRecord] /\ IsInjective(reply[m].children)
  BY DEF IInv, TypeOK, HeldOnce, ReplyRecord
<1>4. reply[m] \in ReplyRecord /\ reply[m].children \in Seq(Replies)
  BY <1>3 DEF ReplyRecord
<1>5. /\ Append(reply[m].children, r) \in Seq(Replies)
      /\ ToSet(Append(reply[m].children, r)) = ToSet(reply[m].children) \cup {r}
      /\ IsInjective(Append(reply[m].children, r))
  BY <1>3, <1>4, AppendToList DEF Elements
<1>7. /\ reply'[m] \in ReplyRecord
      /\ reply'[m].children = Append(reply[m].children, r)
      /\ reply'[m].buffer = reply[m].buffer
  BY <1>4, <1>5 DEF ReplyRecord
<1>8. reply' \in [Replies -> ReplyRecord]
  <2>1. \A s \in Replies : reply'[s] \in ReplyRecord
    BY <1>1, <1>2, <1>3, <1>7
  <2> QED
    BY <2>1
<1> QED
  BY <1>1, <1>2, <1>5, <1>7, <1>8

\* ParseElement(c) for the batch b, the multibulk m with n elements to come, and
\* the new reply r.
ElementStep(c, b, m, n, r) ==
    /\ b = current_batch[c] /\ m = multibulk_reply[c] /\ n = multibulk_count[c]
    /\ b # None /\ n > 0
    /\ Reply_list_alloc(r)
    /\ reply' = [s \in Replies |-> reply'[s]]
    /\ reply'[r] = New("data", <<b, "read">>)
    /\ reply'[m] = [reply[m] EXCEPT !.children = Append(@, r)]
    /\ \A s \in Replies \ {r, m} : reply'[s] = reply[s]
    /\ multibulk_count' = [multibulk_count EXCEPT ![c] = @ - 1]
    /\ IF n = 1
       THEN /\ Batch_add_reply(c, m)
            /\ multibulk_reply' = [multibulk_reply EXCEPT ![c] = None]
       ELSE UNCHANGED <<num_commands, reply_queue, current_batch, multibulk_reply>>
    /\ UNCHANGED <<phase, freeBatches, held, error, freeVars, dropped>>

LEMMA ElementStepNext ==
  ASSUME IInv, NEW c \in Connections, NEW b \in Batches, NEW m \in Replies,
         NEW n \in Nat, NEW r \in Replies, ElementStep(c, b, m, n, r)
  PROVE  IInv'
<1> /\ b = current_batch[c] /\ m = multibulk_reply[c] /\ n = multibulk_count[c]
    /\ b # None /\ n > 0
    /\ Reply_list_alloc(r)
    /\ reply' = [s \in Replies |-> reply'[s]]
    /\ reply'[r] = New("data", <<b, "read">>)
    /\ reply'[m] = [reply[m] EXCEPT !.children = Append(@, r)]
    /\ \A s \in Replies \ {r, m} : reply'[s] = reply[s]
    /\ multibulk_count' = [multibulk_count EXCEPT ![c] = @ - 1]
    /\ IF n = 1
       THEN /\ Batch_add_reply(c, m)
            /\ multibulk_reply' = [multibulk_reply EXCEPT ![c] = None]
       ELSE UNCHANGED <<num_commands, reply_queue, current_batch, multibulk_reply>>
    /\ UNCHANGED <<phase, freeBatches, held, error, freeVars, dropped>>
  BY DEF ElementStep
<1>1. TypeOK /\ HeldOnce /\ HoldersOK /\ Flat /\ BatchesOK /\ PairsOK /\ PhasesOK /\ OwnData
  BY DEF IInv
<1>2. /\ phase' = phase /\ freeBatches' = freeBatches
      /\ held' = held /\ error' = error
      /\ freeing' = freeing /\ hand' = hand /\ dropped' = dropped
  BY DEF freeVars
<1>3. OpenOK(c) /\ RunsOK(c) /\ m \in Replies \cup {None} /\ n \in Nat
  BY <1>1 DEF PairsOK, TypeOK
<1>4. m \in Replies /\ m # None /\ r # None
  BY <1>3, NoneAssumption DEF OpenOK
<1>5. /\ r \notin dropped /\ heap' = heap \cup {r} /\ IsFiniteSet(heap')
      /\ freeReplies' \in Seq(Replies) /\ IsInjective(freeReplies')
      /\ ToSet(freeReplies') = ToSet(freeReplies) \ {r}
      /\ allocated' = Bytes(heap', Errors)
      /\ reply[r].children = <<>>
  BY ReplyAllocated
<1>6. /\ \A a \in Batches : r \notin ToSet(reply_queue[a])
      /\ \A q \in Replies : r \notin Elements(q)
      /\ \A d \in Connections : r # multibulk_reply[d]
      /\ r # hand
  BY FreshReply
<1>7. /\ \A a \in Batches : m \notin ToSet(reply_queue[a])
      /\ \A q \in Replies : m \notin Elements(q)
      /\ \A d \in Connections \ {c} : m # multibulk_reply[d]
      /\ m \notin ToSet(freeReplies) /\ m # hand /\ m \in heap \ dropped
  BY <1>4, OpenReply
<1>8. m # r
  BY <1>6
<1>9. /\ b \in Batches /\ b \in held /\ c \in heap /\ phase = "open" /\ freeing = None
  BY <1>1, <1>3 DEF RunsOK, TypeOK
<1>10. /\ num_commands' \in [Batches -> Nat]
       /\ reply_queue' \in [Batches -> Seq(Replies)]
       /\ current_batch' \in [Connections -> Batches \cup {None}]
       /\ \A a \in Batches \ {b} : reply_queue'[a] = reply_queue[a]
       /\ n = 1 => ToSet(reply_queue'[b]) = ToSet(reply_queue[b]) \cup {m}
       /\ n # 1 => ToSet(reply_queue'[b]) = ToSet(reply_queue[b])
       /\ IsInjective(reply_queue'[b])
       /\ \A d \in Connections : current_batch'[d] # None =>
             /\ current_batch'[d] = current_batch[d]
             /\ num_commands'[current_batch[d]] > 0
       /\ \A d \in Connections \ {c} : current_batch'[d] = current_batch[d]
  <2>1. CASE n = 1
    <3>1. /\ num_commands' = [num_commands EXCEPT ![b] = @ - 1]
          /\ reply_queue' = [reply_queue EXCEPT ![b] = Append(@, m)]
          /\ current_batch' = [current_batch EXCEPT ![c] =
                                 IF num_commands[b] = 1 THEN None ELSE @]
      BY <2>1 DEF Batch_add_reply
    <3>2. m \notin ToSet(reply_queue[b])
      BY <1>7, <1>9
    <3> QED
      BY <1>4, <2>1, <3>1, <3>2, Answered
  <2>2. CASE n # 1
    <3>1. UNCHANGED <<num_commands, reply_queue, current_batch>>
      BY <2>2
    <3>2. IsInjective(reply_queue[b])
      BY <1>1, <1>9 DEF HeldOnce
    <3> QED
      BY <1>1, <2>2, <3>1, <3>2 DEF TypeOK, PairsOK, RunsOK
  <2> QED
    BY <2>1, <2>2
<1>11. /\ multibulk_reply' \in [Connections -> Replies \cup {None}]
       /\ multibulk_count' \in [Connections -> Nat]
       /\ multibulk_reply'[c] = (IF n = 1 THEN None ELSE m)
       /\ multibulk_count'[c] = n - 1
       /\ \A d \in Connections \ {c} : /\ multibulk_reply'[d] = multibulk_reply[d]
                                       /\ multibulk_count'[d] = multibulk_count[d]
  <2>1. multibulk_count' \in [Connections -> Nat] /\ multibulk_count'[c] = n - 1
    BY <1>1, <1>3 DEF TypeOK
  <2>2. CASE n = 1
    <3>1. multibulk_reply' = [multibulk_reply EXCEPT ![c] = None]
      BY <2>2
    <3> QED
      BY <1>1, <2>1, <2>2, <3>1 DEF TypeOK
  <2>3. CASE n # 1
    <3>1. multibulk_reply' = multibulk_reply
      BY <2>3
    <3> QED
      BY <1>1, <2>1, <2>3, <3>1 DEF TypeOK
  <2> QED
    BY <2>2, <2>3
<1>12. /\ reply' \in [Replies -> ReplyRecord]
       /\ reply'[r].children = <<>> /\ reply'[r].buffer = <<b, "read">>
       /\ reply'[m].buffer = reply[m].buffer
       /\ \A x : x \in ToSet(reply'[m].children) <=> x \in Elements(m) \/ x = r
       /\ IsInjective(reply'[m].children)
       /\ \A s \in Replies \ {r, m} : reply'[s] = reply[s]
  <2>1. r \notin Elements(m)
    BY <1>4, <1>6
  <2>2. reply' \in [Replies -> ReplyRecord]
    BY <1>8, <1>9, <2>1, ElementAdded, SMTT(40)
  <2>3. reply'[r].children = <<>>
    BY <1>8, <1>9, <2>1, ElementAdded, SMTT(40)
  <2>4. reply'[r].buffer = <<b, "read">>
    BY <1>8, <1>9, <2>1, ElementAdded, SMTT(40)
  <2>5. reply'[m].buffer = reply[m].buffer
    BY <1>8, <1>9, <2>1, ElementAdded, SMTT(40)
  <2>6. \A x : x \in ToSet(reply'[m].children) <=> x \in Elements(m) \/ x = r
    <3>1. reply'[m].children = Append(reply[m].children, r)
      BY <1>4, <1>8, <1>9, <2>1, ElementAdded, SMTT(40)
    <3>2. reply[m].children \in Seq(Replies)
      BY <1>1, <1>4 DEF TypeOK
    <3>3. ToSet(Append(reply[m].children, r)) = ToSet(reply[m].children) \cup {r}
      BY <3>2, AppendToList
    <3> QED
      BY <3>1, <3>3 DEF Elements
  <2>7. IsInjective(reply'[m].children)
    <3>1. reply'[m].children = Append(reply[m].children, r)
      BY <1>4, <1>8, <1>9, <2>1, ElementAdded, SMTT(40)
    <3>2. reply[m].children \in Seq(Replies) /\ IsInjective(reply[m].children)
      BY <1>1, <1>4 DEF TypeOK, HeldOnce
    <3>3. r \notin ToSet(reply[m].children)
      BY <2>1 DEF Elements
    <3> QED
      BY <3>1, <3>2, <3>3, AppendToList
  <2> QED
    BY <2>2, <2>3, <2>4, <2>5, <2>6, <2>7
<1>13. /\ Elements(r)' = {} /\ Elements(r) = {}
       /\ Elements(m)' = Elements(m) \cup {r}
       /\ \A q \in Replies \ {r, m} : Elements(q)' = Elements(q)
       /\ \A q \in Replies \ {m} : reply'[q].children = reply[q].children
       /\ \A q \in Replies : Elements(q) \subseteq Replies
  <2>1. Elements(r)' = {} /\ Elements(r) = {}
    BY <1>5, <1>12, EmptyList DEF Elements
  <2>2. \A q \in Replies : Elements(q) \subseteq Replies
    BY <1>1, ListMembers DEF TypeOK, Elements
  <2> QED
    BY <1>5, <1>12, <2>1, <2>2 DEF Elements
<1>14. \A s \in {m} \cup Elements(m) : LooksInto(b, s)
  BY <1>3, <1>4 DEF OpenOK
<1>15. IsHolder(Children(m), r)'
  <2>1. \A a \in Batches : r \notin ToSet(reply_queue'[a])
    BY <1>6, <1>8, <1>10
  <2>2. \A q \in Replies : r \in Elements(q)' <=> q = m
    BY <1>4, <1>6, <1>13
  <2>3. \A d \in Connections : r # multibulk_reply'[d]
    BY <1>4, <1>6, <1>8, <1>11
  <2>4. r \notin ToSet(freeReplies') /\ r # hand' /\ r \in heap' \ dropped'
    BY <1>2, <1>5, <1>6
  <2> QED
    BY <1>4, <2>1, <2>2, <2>3, <2>4, HoldersDiffer DEF IsHolder
<1>16. \E h : IsHolder(h, m)'
  <2>1. \A q \in Replies : m \notin Elements(q)'
    BY <1>4, <1>7, <1>8, <1>13
  <2>2. m \notin ToSet(freeReplies') /\ m # hand' /\ m \in heap' \ dropped'
    BY <1>2, <1>5, <1>7
  <2>3. CASE n = 1
    <3>1. \A a \in Batches : m \in ToSet(reply_queue'[a]) <=> a = b
      BY <1>7, <1>10, <2>3
    <3>2. \A d \in Connections : m # multibulk_reply'[d]
      BY <1>4, <1>7, <1>11, <2>3
    <3>3. IsHolder(Queue(b), m)'
      BY <1>9, <2>1, <2>2, <3>1, <3>2, HoldersDiffer DEF IsHolder
    <3> QED
      BY <3>3
  <2>4. CASE n # 1
    <3>1. \A a \in Batches : m \notin ToSet(reply_queue'[a])
      BY <1>7, <1>10, <2>4
    <3>2. \A d \in Connections : m = multibulk_reply'[d] <=> d = c
      BY <1>4, <1>7, <1>11, <2>4
    <3>3. IsHolder(Parser(c), m)'
      BY <1>9, <2>1, <2>2, <3>1, <3>2, HoldersDiffer DEF IsHolder
    <3> QED
      BY <3>3
  <2> QED
    BY <2>3, <2>4
<1>17. ASSUME NEW s \in Replies, s # r, s # m PROVE SameHolder(s)
  <2>1. \A d \in Connections : s = multibulk_reply'[d] <=> s = multibulk_reply[d]
    <3>1. s # None
      BY NoneAssumption
    <3> QED
      BY <1>11, <1>17, <3>1
  <2>2. \A a \in Batches : s \in ToSet(reply_queue'[a]) <=> s \in ToSet(reply_queue[a])
    BY <1>10, <1>17
  <2>3. \A q \in Replies : s \in Elements(q)' <=> s \in Elements(q)
    BY <1>13, <1>17
  <2> QED
    BY <1>2, <1>5, <1>17, <2>1, <2>2, <2>3 DEF SameHolder
<1>18. HoldersOK'
  <2>1. ASSUME NEW s \in Replies PROVE \E h : IsHolder(h, s)'
    BY <1>1, <1>15, <1>16, <1>17, StaysHeld
  <2>2. dropped' \subseteq heap'
    BY <1>1, <1>2, <1>5 DEF HoldersOK
  <2> QED
    BY <1>5, <2>1, <2>2, HoldersNext
<1>19. HeldOnce'
  <2>1. \A a \in Batches : IsInjective(reply_queue'[a])
    BY <1>1, <1>10 DEF HeldOnce
  <2>2. \A q \in Replies : IsInjective(reply'[q].children)
    BY <1>1, <1>12, <1>13 DEF HeldOnce
  <2> QED
    BY <1>1, <1>2, <1>5, <2>1, <2>2 DEF HeldOnce
<1>20. Flat'
  <2>1. ASSUME NEW s \in Replies,
               s \notin heap' \/ s \in ToSet(freeReplies')
                 \/ (\E q \in Replies : s \in Elements(q)')
        PROVE  reply'[s].children = <<>>
    <3>1. CASE s = r
      BY <1>12, <3>1
    <3>2. CASE s # r
      <4>1. s # m
        BY <1>4, <1>5, <1>7, <1>13, <2>1, <1>8
      <4>2. \/ s \notin heap \/ s \in ToSet(freeReplies)
            \/ \E q \in Replies : s \in Elements(q)
        BY <1>4, <1>5, <1>13, <2>1, <3>2
      <4> QED
        BY <1>1, <1>13, <4>1, <4>2 DEF Flat
    <3> QED
      BY <3>1, <3>2
  <2> QED
    BY <2>1 DEF Flat
<1>21. \A x \in Batches \cup Connections : x \in heap' <=> x \in heap
  BY <1>5, AddressAssumption
<1>22. BatchesOK'
  BY <1>1, <1>2, <1>9, <1>10, <1>21 DEF BatchesOK
<1>23. LooksInto(b, r)'
  BY <1>12 DEF LooksInto
<1>24. \A s \in Replies \ {r} : reply'[s].buffer = reply[s].buffer
  BY <1>12
<1>25. PairsOK'
  <2>1. ASSUME NEW d \in Connections PROVE RunsOK(d)'
    BY <1>1, <1>2, <1>10, <1>21 DEF PairsOK, RunsOK
  <2>2. ASSUME NEW d \in Connections, NEW e \in Connections,
               current_batch'[d] = current_batch'[e], current_batch'[d] # None
        PROVE  d = e
    <3>1. current_batch[d] = current_batch[e] /\ current_batch[d] # None
      BY <1>10, <2>2
    <3> QED
      BY <1>1, <3>1 DEF PairsOK
  <2>3. ASSUME NEW d \in Connections PROVE OpenOK(d)'
    <3>1. CASE d = c /\ n = 1
      BY <1>3, <1>11, <3>1 DEF OpenOK
    <3>2. CASE d = c /\ n # 1
      <4>1. current_batch'[c] = b
        BY <3>2
      <4>2. \A s \in {m} \cup ToSet(reply'[m].children) :
               /\ reply'[s].buffer \in {None, <<b, "read">>, <<b, "error">>}
               /\ reply'[s].buffer = <<b, "error">> => error'[b]
        BY <1>2, <1>4, <1>12, <1>13, <1>14, <1>23, <1>24 DEF LooksInto, Elements
      <4> QED
        BY <1>4, <1>9, <1>11, <1>21, <3>2, <4>1, <4>2 DEF OpenOK, LooksInto, Elements
    <3>3. CASE d # c
      <4> DEFINE q == multibulk_reply[d]
      <4>1. OpenOK(d) /\ q \in Replies \cup {None} /\ q # m /\ q # r
        BY <1>1, <1>6, <1>7, <3>3 DEF PairsOK, TypeOK
      <4>2. ASSUME q # None PROVE reply'[q].children = reply[q].children
        BY <1>13, <4>1, <4>2
      <4>3. ASSUME current_batch[d] # None, q # None, NEW s \in {q} \cup Elements(q)
            PROVE  reply'[s].buffer = reply[s].buffer /\ LooksInto(current_batch[d], s)
        <5>1. s \in Replies \ {r}
          BY <1>6, <1>13, <4>1, <4>3
        <5> QED
          BY <1>24, <4>1, <4>3, <5>1 DEF OpenOK
      <4> QED
        BY <1>2, <1>10, <1>11, <1>21, <3>3, <4>1, <4>2, <4>3 DEF OpenOK, LooksInto, Elements
    <3> QED
      BY <3>1, <3>2, <3>3
  <2> QED
    BY <2>1, <2>2, <2>3 DEF PairsOK
<1>26. PhasesOK'
  BY <1>1, <1>2, <1>9 DEF PhasesOK
<1>27. Accounted' /\ allocated' \in Nat
  <2>1. Errors' = Errors
    BY <1>2 DEF Errors
  <2> QED
    BY <1>5, <2>1, ErrorsAreBatches, AccountedNext
<1>28. OwnData'
  <2>1. ASSUME NEW a \in held', NEW q \in ToSet(reply_queue'[a]),
               NEW s \in {q} \cup Elements(q)'
        PROVE  s \in heap' /\ LooksInto(a, s)'
    <3>1. a \in held /\ a \in Batches
      BY <1>1, <1>2 DEF TypeOK
    <3>2. CASE q = m
      <4>1. a = b
        BY <1>7, <1>10, <3>1, <3>2
      <4>2. CASE s = r
        BY <1>5, <1>23, <4>1, <4>2
      <4>3. CASE s # r
        <5>1. s \in {m} \cup Elements(m) /\ s \in Replies
          BY <1>4, <1>13, <3>2, <4>3
        <5>2. s \in heap
          <6>1. s \in Elements(m) => IsHolder(Children(m), s)
            BY <1>1, <1>4, <5>1, HolderIs
          <6> QED
            BY <1>7, <5>1, <6>1, HoldersDiffer DEF IsHolder
        <5> QED
          BY <1>2, <1>5, <1>14, <1>24, <4>1, <4>3, <5>1, <5>2 DEF LooksInto
      <4> QED
        BY <4>2, <4>3
    <3>3. CASE q # m
      <4>1. q \in ToSet(reply_queue[a]) /\ q \in Replies /\ q # r
        <5>1. q \in ToSet(reply_queue[a])
          BY <1>10, <3>1, <3>3
        <5> QED
          BY <1>1, <1>6, <3>1, <5>1, ListMembers DEF TypeOK
      <4>2. s \in {q} \cup Elements(q) /\ s \in Replies /\ s # r
        BY <1>6, <1>13, <3>3, <4>1
      <4>3. s \in heap /\ LooksInto(a, s)
        BY <1>1, <3>1, <4>1, <4>2 DEF OwnData, LooksInto
      <4> QED
        BY <1>2, <1>5, <1>24, <4>2, <4>3 DEF LooksInto
    <3> QED
      BY <3>2, <3>3
  <2> QED
    BY <2>1 DEF OwnData, LooksInto
<1>29. TypeOK'
  <2>1. heap' \subseteq Connections \cup Batches \cup Replies
    BY <1>1, <1>5 DEF TypeOK
  <2>2. error' \in [Batches -> BOOLEAN]
    BY <1>1, <1>2 DEF TypeOK
  <2> QED
    BY <1>1, <1>2, <1>5, <1>10, <1>11, <1>12, <1>27, <2>1, <2>2 DEF TypeOK, ReplyRecord
<1> QED
  BY <1>18, <1>19, <1>20, <1>22, <1>25, <1>26, <1>27, <1>28, <1>29 DEF IInv

-----------------------------------------------------------------------------
(***************************************************************************)
(* The actions that move no reply.                                         *)
(***************************************************************************)

LEMMA RepliesStay ==
  ASSUME IInv, IsFiniteSet(heap'), \A r \in Replies : r \in heap' <=> r \in heap,
         UNCHANGED <<reply_queue, reply, multibulk_reply, freeReplies, hand, dropped>>
  PROVE  HoldersOK' /\ Flat'
<1>1. HoldersOK /\ Flat /\ dropped \subseteq Replies
  BY DEF IInv, TypeOK
<1>2. ASSUME NEW r \in Replies PROVE \E h : IsHolder(h, r)'
  <2>1. SameHolder(r)
    BY DEF SameHolder, Elements
  <2> QED
    BY <1>1, <2>1, StaysHeld
<1>3. dropped' \subseteq heap'
  BY <1>1 DEF HoldersOK
<1>4. HoldersOK'
  BY <1>2, <1>3, HoldersNext
<1>5. Flat'
  BY <1>1 DEF Flat, Elements
<1> QED
  BY <1>4, <1>5

LEMMA AbortNext ==
  ASSUME IInv, NEW c \in Connections, Batch_abort(c)
  PROVE  IInv'
<1> DEFINE b == current_batch[c]
<1>1. TypeOK /\ HeldOnce /\ HoldersOK /\ BatchesOK /\ PairsOK /\ PhasesOK /\ OwnData
  BY DEF IInv
<1>2. /\ phase' = phase /\ heap' = heap /\ freeBatches' = freeBatches
      /\ freeReplies' = freeReplies /\ held' = held /\ num_commands' = num_commands
      /\ reply_queue' = reply_queue /\ reply' = reply /\ current_batch' = current_batch
      /\ multibulk_reply' = multibulk_reply /\ multibulk_count' = multibulk_count
      /\ freeing' = freeing /\ hand' = hand /\ dropped' = dropped
      /\ error' = [error EXCEPT ![b] = TRUE] /\ allocated' = allocated + ErrorBytes
  BY DEF Batch_abort, parserVars, freeVars
<1>3. b # None /\ b \in Batches /\ b \in held /\ num_commands[b] > 0 /\ ~error[b]
  BY <1>1 DEF Batch_abort, Running, Aborting, TypeOK, PairsOK, RunsOK
<1>4. /\ error' \in [Batches -> BOOLEAN] /\ error'[b] = TRUE
      /\ \A a \in Batches \ {b} : error'[a] = error[a]
  <2>1. error \in [Batches -> BOOLEAN]
    BY <1>1 DEF TypeOK
  <2> QED
    BY <1>2, <1>3, <2>1
<1>5. Accounted' /\ allocated' \in Nat
  <2>1. Errors' = Errors \cup {b} /\ b \notin Errors
    BY <1>3, <1>4 DEF Errors
  <2>2. IsFiniteSet(Errors) /\ IsFiniteSet(heap)
    BY ErrorsAreBatches
  <2>3. allocated = Bytes(heap, Errors)
    BY DEF IInv, Accounted, Bytes, Errors
  <2>4. allocated' = Bytes(heap', Errors') /\ IsFiniteSet(Errors')
    <3> HIDE DEF b
    <3> QED
      BY <1>2, <2>1, <2>2, <2>3, BytesOfError
  <2> QED
    BY <1>2, <2>2, <2>4, AccountedNext
<1>6. HoldersOK' /\ Flat'
  BY <1>1, <1>2, RepliesStay DEF HoldersOK
<1>7. HeldOnce'
  BY <1>1, <1>2 DEF HeldOnce
<1>8. BatchesOK'
  BY <1>1, <1>2, <1>3, <1>4 DEF BatchesOK
<1>9. \A a \in Batches : error[a] => error'[a]
  BY <1>3, <1>4
<1>10. PairsOK'
  <2>1. \A d \in Connections : current_batch[d] # None => current_batch[d] \in Batches
    BY <1>1 DEF TypeOK
  <2>2. ASSUME NEW d \in Connections PROVE RunsOK(d)' /\ OpenOK(d)'
    BY <1>1, <1>2, <1>9, <2>1 DEF PairsOK, RunsOK, OpenOK, LooksInto, Elements
  <2> QED
    BY <1>1, <1>2, <2>2 DEF PairsOK
<1>11. PhasesOK'
  BY <1>1, <1>2 DEF PhasesOK
<1>12. OwnData'
  <2>1. held \subseteq Batches
    BY <1>1 DEF TypeOK
  <2> QED
    BY <1>1, <1>2, <1>9, <2>1 DEF OwnData, Elements
<1>13. TypeOK'
  BY <1>1, <1>2, <1>4, <1>5 DEF TypeOK
<1> QED
  BY <1>5, <1>6, <1>7, <1>8, <1>10, <1>11, <1>12, <1>13 DEF IInv

LEMMA ConnectionNewNext ==
  ASSUME IInv, NEW c \in Connections, Connection_new(c)
  PROVE  IInv'
<1>1. TypeOK /\ HeldOnce /\ HoldersOK /\ BatchesOK /\ PairsOK /\ PhasesOK /\ OwnData
  BY DEF IInv
<1>2. /\ phase' = phase /\ freeBatches' = freeBatches
      /\ freeReplies' = freeReplies /\ held' = held /\ num_commands' = num_commands
      /\ reply_queue' = reply_queue /\ error' = error
      /\ reply' = reply /\ current_batch' = current_batch
      /\ multibulk_reply' = multibulk_reply /\ multibulk_count' = multibulk_count
      /\ freeing' = freeing /\ hand' = hand /\ dropped' = dropped
  BY DEF Connection_new, batchVars, parserVars, freeVars
<1>3. /\ c \notin heap /\ heap' = heap \cup {c} /\ allocated' = allocated + ConnectionBytes
      /\ phase = "open"
  BY DEF Connection_new, _Alloc_alloc, Free
<1>4. \A x \in Batches \cup Replies : x \in heap' <=> x \in heap
  BY <1>3, AddressAssumption
<1>5. IsFiniteSet(heap')
  BY <1>3, ErrorsAreBatches, FS_AddElement
<1>6. Accounted' /\ allocated' \in Nat
  <2>1. Errors' = Errors
    BY <1>2 DEF Errors
  <2>2. IsFiniteSet(Errors) /\ IsFiniteSet(heap)
    BY ErrorsAreBatches
  <2>3. allocated = Bytes(heap, Errors)
    BY DEF IInv, Accounted, Bytes, Errors
  <2>4. allocated' = Bytes(heap', Errors)
    BY <1>3, <2>2, <2>3, BytesOfMore
  <2> QED
    BY <1>5, <2>1, <2>2, <2>4, AccountedNext
<1>7. HoldersOK' /\ Flat'
  BY <1>2, <1>4, <1>5, RepliesStay
<1>8. HeldOnce'
  BY <1>1, <1>2 DEF HeldOnce
<1>9. BatchesOK'
  BY <1>1, <1>2, <1>4 DEF BatchesOK
<1>10. PairsOK'
  <2>1. ASSUME NEW d \in Connections PROVE RunsOK(d)' /\ OpenOK(d)'
    BY <1>1, <1>2, <1>3 DEF PairsOK, RunsOK, OpenOK, LooksInto, Elements
  <2> QED
    BY <1>1, <1>2, <2>1 DEF PairsOK
<1>11. PhasesOK'
  BY <1>1, <1>2, <1>3 DEF PhasesOK
<1>12. OwnData'
  BY <1>1, <1>2, <1>3 DEF OwnData, Elements
<1>13. TypeOK'
  <2>1. heap' \subseteq Connections \cup Batches \cup Replies
    BY <1>1, <1>3 DEF TypeOK
  <2>2. error' \in [Batches -> BOOLEAN]
    BY <1>1, <1>2 DEF TypeOK
  <2> QED
    BY <1>1, <1>2, <1>6, <2>1, <2>2 DEF TypeOK
<1> QED
  BY <1>6, <1>7, <1>8, <1>9, <1>10, <1>11, <1>12, <1>13 DEF IInv

LEMMA BatchNewNext ==
  ASSUME IInv, NEW b \in Batches, Batch_new(b)
  PROVE  IInv'
<1>1. TypeOK /\ HeldOnce /\ HoldersOK /\ BatchesOK /\ PairsOK /\ PhasesOK /\ OwnData
  BY DEF IInv
<1>2. /\ phase' = phase /\ freeReplies' = freeReplies
      /\ reply' = reply /\ current_batch' = current_batch
      /\ multibulk_reply' = multibulk_reply /\ multibulk_count' = multibulk_count
      /\ freeing' = freeing /\ hand' = hand /\ dropped' = dropped
      /\ held' = held \cup {b} /\ num_commands' = [num_commands EXCEPT ![b] = 0]
  BY DEF Batch_new, parserVars, freeVars
<1>3. /\ phase = "open" /\ freeing = None
      /\ \A c \in Connections : current_batch[c] = None
  BY DEF Batch_new, Free, Executing
<1>4. b # None
  BY NoneAssumption
<1>5. /\ b \notin held
      /\ heap' = heap \cup {b} /\ IsFiniteSet(heap') /\ allocated' = Bytes(heap', Errors)
      /\ freeBatches' \in Seq(Batches) /\ IsInjective(freeBatches')
      /\ ToSet(freeBatches') = ToSet(freeBatches) \ {b}
  <2>1. /\ freeBatches \in Seq(Batches) /\ IsInjective(freeBatches)
        /\ IsFiniteSet(Errors) /\ IsFiniteSet(heap)
    BY <1>1, ErrorsAreBatches DEF TypeOK, HeldOnce
  <2>2. allocated = Bytes(heap, Errors)
    BY DEF IInv, Accounted, Bytes, Errors
  <2>3. CASE SINGLETHREADED /\ freeBatches # <<>>
    <3>1. /\ b = Last(freeBatches) /\ freeBatches' = Front(freeBatches)
          /\ heap' = heap /\ allocated' = allocated
      BY <2>3 DEF Batch_new, Batch_list_alloc, heapVars
    <3>2. /\ b \in ToSet(freeBatches) /\ freeBatches' \in Seq(Batches)
          /\ IsInjective(freeBatches') /\ b \notin ToSet(freeBatches')
          /\ ToSet(freeBatches) = ToSet(freeBatches') \cup {b}
      BY <2>1, <2>3, <3>1, PopFromList
    <3>3. b \notin held /\ b \in heap
      BY <1>1, <3>2 DEF BatchesOK
    <3> QED
      BY <2>1, <2>2, <3>1, <3>2, <3>3
  <2>4. CASE ~(SINGLETHREADED /\ freeBatches # <<>>)
    <3>1. /\ b \notin heap /\ heap' = heap \cup {b} /\ allocated' = allocated + BatchBytes
          /\ freeBatches' = freeBatches
      BY <2>4 DEF Batch_new, Batch_list_alloc, _Alloc_alloc
    <3>2. b \notin held /\ b \notin ToSet(freeBatches)
      BY <1>1, <3>1 DEF BatchesOK
    <3>3. allocated' = Bytes(heap', Errors) /\ IsFiniteSet(heap')
      BY <2>1, <2>2, <3>1, BytesOfMore, FS_AddElement
    <3> QED
      BY <2>1, <3>1, <3>2, <3>3
  <2> QED
    BY <2>3, <2>4
<1>6. reply_queue' = reply_queue /\ error' = error
  <2>1. reply_queue[b] = <<>> /\ error[b] = FALSE
    BY <1>1, <1>3, <1>4, <1>5 DEF BatchesOK, TypeOK
  <2> QED
    BY <1>1, <2>1 DEF Batch_new, TypeOK
<1>7. \A x \in Replies \cup Connections : x \in heap' <=> x \in heap
  BY <1>5, AddressAssumption
<1>8. Accounted' /\ allocated' \in Nat
  <2>1. Errors' = Errors
    BY <1>6 DEF Errors
  <2> QED
    BY <1>5, <2>1, ErrorsAreBatches, AccountedNext
<1>9. HoldersOK' /\ Flat'
  BY <1>2, <1>5, <1>6, <1>7, RepliesStay
<1>10. HeldOnce'
  BY <1>1, <1>2, <1>5, <1>6 DEF HeldOnce
<1>11. BatchesOK'
  BY <1>1, <1>2, <1>3, <1>4, <1>5, <1>6 DEF BatchesOK
<1>12. PairsOK'
  <2>1. ASSUME NEW d \in Connections PROVE RunsOK(d)' /\ OpenOK(d)'
    BY <1>1, <1>2, <1>3, <1>7 DEF PairsOK, RunsOK, OpenOK
  <2> QED
    BY <1>1, <1>2, <1>3, <2>1 DEF PairsOK
<1>13. PhasesOK'
  BY <1>1, <1>2, <1>3 DEF PhasesOK
<1>14. OwnData'
  <2>1. ToSet(reply_queue[b]) = {}
    BY <1>1, <1>3, <1>4, <1>5, EmptyList DEF BatchesOK
  <2> QED
    BY <1>1, <1>2, <1>5, <1>6, <2>1 DEF OwnData, Elements
<1>15. TypeOK'
  <2>1. heap' \subseteq Connections \cup Batches \cup Replies /\ held' \subseteq Batches
    BY <1>1, <1>2, <1>5 DEF TypeOK
  <2>2. error' \in [Batches -> BOOLEAN]
    BY <1>1, <1>6 DEF TypeOK
  <2>3. num_commands' \in [Batches -> Nat]
    BY <1>1, <1>2 DEF TypeOK
  <2> QED
    BY <1>1, <1>2, <1>5, <1>6, <1>8, <2>1, <2>2, <2>3 DEF TypeOK
<1> QED
  BY <1>8, <1>9, <1>10, <1>11, <1>12, <1>13, <1>14, <1>15 DEF IInv

LEMMA BatchWriteNext ==
  ASSUME IInv, NEW b \in Batches, Batch_write(b)
  PROVE  IInv'
<1>1. TypeOK /\ HeldOnce /\ HoldersOK /\ BatchesOK /\ PairsOK /\ PhasesOK /\ OwnData
  BY DEF IInv
<1>2. /\ phase' = phase /\ heap' = heap /\ allocated' = allocated
      /\ freeBatches' = freeBatches /\ freeReplies' = freeReplies
      /\ held' = held /\ reply_queue' = reply_queue /\ error' = error
      /\ reply' = reply /\ current_batch' = current_batch
      /\ multibulk_reply' = multibulk_reply /\ multibulk_count' = multibulk_count
      /\ freeing' = freeing /\ hand' = hand /\ dropped' = dropped
      /\ num_commands' = [num_commands EXCEPT ![b] = @ + 1]
  BY DEF Batch_write, heapVars, parserVars, freeVars
<1>3. \A c \in Connections : current_batch[c] = None
  BY DEF Batch_write, Free, Executing
<1>4. num_commands' \in [Batches -> Nat]
  BY <1>1, <1>2 DEF TypeOK
<1>5. HoldersOK' /\ Flat'
  BY <1>1, <1>2, RepliesStay DEF HoldersOK
<1>6. HeldOnce' /\ BatchesOK' /\ PhasesOK'
  BY <1>1, <1>2 DEF HeldOnce, BatchesOK, PhasesOK
<1>7. PairsOK'
  <2>1. ASSUME NEW d \in Connections PROVE RunsOK(d)' /\ OpenOK(d)'
    BY <1>1, <1>2, <1>3 DEF PairsOK, RunsOK, OpenOK
  <2> QED
    BY <1>1, <1>2, <2>1 DEF PairsOK
<1>8. Accounted' /\ OwnData'
  BY <1>1, <1>2 DEF IInv, Accounted, OwnData, Elements
<1>9. TypeOK'
  BY <1>1, <1>2, <1>4 DEF TypeOK
<1> QED
  BY <1>5, <1>6, <1>7, <1>8, <1>9 DEF IInv

LEMMA BatchFreeNext ==
  ASSUME IInv, NEW b \in Batches, Batch_free(b)
  PROVE  IInv'
<1>1. TypeOK /\ HeldOnce /\ HoldersOK /\ BatchesOK /\ PairsOK /\ PhasesOK /\ OwnData
  BY DEF IInv
<1>2. /\ phase' = phase /\ heap' = heap /\ allocated' = allocated
      /\ freeBatches' = freeBatches /\ freeReplies' = freeReplies
      /\ num_commands' = num_commands /\ reply_queue' = reply_queue /\ error' = error
      /\ reply' = reply /\ current_batch' = current_batch
      /\ multibulk_reply' = multibulk_reply /\ multibulk_count' = multibulk_count
      /\ hand' = hand /\ dropped' = dropped
      /\ freeing' = b /\ held' = held \ {b}
  BY DEF Batch_free, heapVars, batchVars, parserVars
<1>3. /\ \A c \in Connections : current_batch[c] = None
      /\ freeing = None /\ b \in held /\ phase = "open"
  BY DEF Batch_free, Free, Executing
<1>4. b # None
  BY NoneAssumption
<1>5. HoldersOK' /\ Flat'
  BY <1>1, <1>2, RepliesStay DEF HoldersOK
<1>6. HeldOnce' /\ PhasesOK'
  BY <1>1, <1>2, <1>3, <1>4 DEF HeldOnce, PhasesOK
<1>7. BatchesOK'
  <2>1. \A a \in Batches : a # None
    BY NoneAssumption
  <2> QED
    BY <1>1, <1>2, <1>3, <2>1 DEF BatchesOK
<1>8. PairsOK'
  <2>1. ASSUME NEW d \in Connections PROVE RunsOK(d)' /\ OpenOK(d)'
    BY <1>1, <1>2, <1>3 DEF PairsOK, RunsOK, OpenOK
  <2> QED
    BY <1>1, <1>2, <2>1 DEF PairsOK
<1>9. Accounted' /\ OwnData'
  BY <1>1, <1>2 DEF IInv, Accounted, OwnData, Elements
<1>10. TypeOK'
  <2>1. error' \in [Batches -> BOOLEAN] /\ held' \subseteq Batches
    BY <1>1, <1>2 DEF TypeOK
  <2> QED
    BY <1>1, <1>2, <2>1 DEF TypeOK
<1> QED
  BY <1>5, <1>6, <1>7, <1>8, <1>9, <1>10 DEF IInv

LEMMA FreeBatchNext ==
  ASSUME IInv, NEW b, b = freeing, FreeBatch
  PROVE  IInv'
<1> DEFINE final == Final \/ phase = "closing"
<1>1. TypeOK /\ HeldOnce /\ HoldersOK /\ BatchesOK /\ PairsOK /\ PhasesOK /\ OwnData
  BY DEF IInv
<1>2. /\ phase' = phase /\ freeReplies' = freeReplies
      /\ held' = held /\ num_commands' = num_commands /\ reply_queue' = reply_queue
      /\ reply' = reply /\ current_batch' = current_batch
      /\ multibulk_reply' = multibulk_reply /\ multibulk_count' = multibulk_count
      /\ hand' = hand /\ dropped' = dropped
      /\ freeing' = None /\ error' = [error EXCEPT ![b] = FALSE]
  BY DEF FreeBatch, parserVars
<1>3. /\ b # None /\ b \in Batches /\ b \in heap /\ b \notin held
      /\ b \notin ToSet(freeBatches) /\ reply_queue[b] = <<>> /\ hand = None
      /\ phase # "closed"
  BY <1>1 DEF FreeBatch, TypeOK, BatchesOK, PhasesOK
<1>4. \A c \in Connections : current_batch[c] = None
  BY <1>1, <1>3 DEF PairsOK, RunsOK
<1>5. /\ error \in [Batches -> BOOLEAN] /\ error' \in [Batches -> BOOLEAN]
      /\ error'[b] = FALSE /\ \A a \in Batches \ {b} : error'[a] = error[a]
  <2>1. error \in [Batches -> BOOLEAN]
    BY <1>1 DEF TypeOK
  <2> QED
    BY <1>2, <1>3, <2>1
<1>6. /\ heap' = IF final THEN heap \ {b} ELSE heap
      /\ freeBatches' = IF final THEN freeBatches ELSE <<b>> \o freeBatches
      /\ allocated' = allocated - ((IF error[b] THEN ErrorBytes ELSE 0)
                                   + (IF final THEN BatchBytes ELSE 0))
  BY DEF FreeBatch
<1> HIDE DEF final
<1>7. /\ IsFiniteSet(Errors) /\ IsFiniteSet(heap) /\ allocated = Bytes(heap, Errors)
  BY ErrorsAreBatches DEF IInv, Accounted, Bytes, Errors
<1>8. /\ IsFiniteSet(Errors')
      /\ Bytes(heap, Errors') = Bytes(heap, Errors) - (IF error[b] THEN ErrorBytes ELSE 0)
  <2>1. Errors' = Errors \ {b} /\ (b \in Errors <=> error[b])
    BY <1>3, <1>5 DEF Errors
  <2>2. CASE error[b]
    BY <1>7, <2>1, <2>2, BytesOfLessErrors
  <2>3. CASE ~error[b]
    <3>1. Errors' = Errors
      BY <2>1, <2>3
    <3>2. Bytes(heap, Errors) \in Nat
      BY <1>7, BytesType
    <3> QED
      BY <1>7, <2>3, <3>1, <3>2
  <2> QED
    BY <2>2, <2>3
<1>9. /\ IsFiniteSet(heap')
      /\ Bytes(heap', Errors') = Bytes(heap, Errors') - (IF final THEN BatchBytes ELSE 0)
  <2>1. CASE final
    BY <1>3, <1>6, <1>7, <1>8, <2>1, BytesOfLess
  <2>2. CASE ~final
    <3>1. Bytes(heap, Errors') \in Nat
      BY <1>7, <1>8, BytesType
    <3> QED
      BY <1>6, <1>7, <2>2, <3>1
  <2> QED
    BY <2>1, <2>2
<1>10. allocated' = Bytes(heap', Errors')
  <2>1. Bytes(heap, Errors) \in Nat /\ BatchBytes \in Nat /\ ErrorBytes \in Nat
    BY <1>7, BytesType, BytesAssumption
  <2> QED
    BY <1>6, <1>7, <1>8, <1>9, <2>1
<1>11. Accounted' /\ allocated' \in Nat
  BY <1>8, <1>9, <1>10, AccountedNext
<1>12. \A x \in Replies \cup Connections : x \in heap' <=> x \in heap
  BY <1>3, <1>6, AddressAssumption
<1>13. HoldersOK' /\ Flat'
  BY <1>2, <1>9, <1>12, RepliesStay
<1>14. /\ freeBatches' \in Seq(Batches) /\ IsInjective(freeBatches')
       /\ final => ToSet(freeBatches') = ToSet(freeBatches)
       /\ ~final => ToSet(freeBatches') = ToSet(freeBatches) \cup {b}
  <2>1. freeBatches \in Seq(Batches) /\ IsInjective(freeBatches)
    BY <1>1 DEF TypeOK, HeldOnce
  <2> QED
    BY <1>3, <1>6, <2>1, PushOnList
<1>15. HeldOnce'
  BY <1>1, <1>2, <1>14 DEF HeldOnce
<1>16. BatchesOK'
  <2>1. \A a \in Batches : a # None
    BY NoneAssumption
  <2>2. ASSUME NEW a \in Batches, a # b
        PROVE  /\ a \in heap' <=> a \in heap
               /\ a \in ToSet(freeBatches') <=> a \in ToSet(freeBatches)
               /\ error'[a] = error[a]
    BY <1>5, <1>6, <1>14, <2>2
  <2>3. /\ b \in heap' <=> ~final
        /\ b \in ToSet(freeBatches') <=> ~final
    BY <1>3, <1>6, <1>14
  <2> QED
    BY <1>1, <1>2, <1>3, <1>5, <2>1, <2>2, <2>3 DEF BatchesOK
<1>17. PairsOK'
  <2>1. ASSUME NEW d \in Connections PROVE RunsOK(d)' /\ OpenOK(d)'
    BY <1>1, <1>2, <1>4, <1>12 DEF PairsOK, RunsOK, OpenOK
  <2> QED
    BY <1>1, <1>2, <2>1 DEF PairsOK
<1>18. PhasesOK'
  BY <1>1, <1>2, <1>3, <1>12 DEF PhasesOK
<1>19. OwnData'
  <2>1. held \subseteq Batches
    BY <1>1 DEF TypeOK
  <2>2. \A a \in held : error'[a] = error[a]
    BY <1>3, <1>5, <2>1
  <2>3. \A a \in held : ToSet(reply_queue[a]) \subseteq Replies
    BY <1>1, <2>1, ListMembers DEF TypeOK
  <2>4. \A q \in Replies : Elements(q) \subseteq Replies
    BY <1>1, ListMembers DEF TypeOK, Elements
  <2> QED
    BY <1>1, <1>2, <1>12, <2>1, <2>2, <2>3, <2>4 DEF OwnData, Elements
<1>20. TypeOK'
  <2>1. heap' \subseteq Connections \cup Batches \cup Replies
    BY <1>1, <1>6 DEF TypeOK
  <2> QED
    BY <1>1, <1>2, <1>5, <1>11, <1>14, <2>1 DEF TypeOK
<1> QED
  BY <1>11, <1>13, <1>15, <1>16, <1>17, <1>18, <1>19, <1>20 DEF IInv

LEMMA BatchFreeFinalNext ==
  ASSUME IInv, NEW b \in Batches, b = Last(freeBatches), Batch_free_final
  PROVE  IInv'
<1>1. TypeOK /\ HeldOnce /\ HoldersOK /\ BatchesOK /\ PairsOK /\ PhasesOK /\ OwnData
  BY DEF IInv
<1>2. /\ phase' = phase /\ heap' = heap /\ allocated' = allocated
      /\ freeReplies' = freeReplies /\ held' = held
      /\ num_commands' = num_commands /\ reply_queue' = reply_queue /\ error' = error
      /\ reply' = reply /\ current_batch' = current_batch
      /\ multibulk_reply' = multibulk_reply /\ multibulk_count' = multibulk_count
      /\ hand' = hand /\ dropped' = dropped
      /\ freeing' = b /\ freeBatches' = Front(freeBatches)
  BY DEF Batch_free_final, heapVars, batchVars, parserVars
<1>3. phase = "closing" /\ freeing = None /\ freeBatches # <<>> /\ b # None
  BY NoneAssumption DEF Batch_free_final
<1>4. \A c \in Connections : current_batch[c] = None
  BY <1>1, <1>3 DEF PairsOK, RunsOK
<1>5. /\ freeBatches' \in Seq(Batches) /\ IsInjective(freeBatches')
      /\ b \in ToSet(freeBatches) /\ b \notin ToSet(freeBatches')
      /\ \A a : a \in ToSet(freeBatches) <=> a \in ToSet(freeBatches') \/ a = b
  <2>1. freeBatches \in Seq(Batches) /\ IsInjective(freeBatches)
    BY <1>1 DEF TypeOK, HeldOnce
  <2>2. ToSet(freeBatches) = ToSet(freeBatches') \cup {b}
    BY <1>2, <1>3, <2>1, PopFromList
  <2> QED
    BY <1>2, <1>3, <2>1, <2>2, PopFromList
<1>6. HoldersOK' /\ Flat'
  BY <1>1, <1>2, RepliesStay DEF HoldersOK
<1>7. HeldOnce' /\ PhasesOK'
  BY <1>1, <1>2, <1>3, <1>5 DEF HeldOnce, PhasesOK
<1>8. BatchesOK'
  <2>1. \A a \in Batches : a # None
    BY NoneAssumption
  <2> QED
    BY <1>1, <1>2, <1>3, <1>5, <2>1 DEF BatchesOK
<1>9. PairsOK'
  <2>1. ASSUME NEW d \in Connections PROVE RunsOK(d)' /\ OpenOK(d)'
    BY <1>1, <1>2, <1>4 DEF PairsOK, RunsOK, OpenOK
  <2> QED
    BY <1>1, <1>2, <2>1 DEF PairsOK
<1>10. Accounted' /\ OwnData'
  BY <1>1, <1>2 DEF IInv, Accounted, OwnData, Elements
<1>11. TypeOK'
  <2>1. error' \in [Batches -> BOOLEAN] /\ reply' \in [Replies -> ReplyRecord]
    BY <1>1, <1>2 DEF TypeOK, ReplyRecord
  <2> QED
    BY <1>1, <1>2, <1>5, <2>1 DEF TypeOK, ReplyRecord
<1> QED
  BY <1>6, <1>7, <1>8, <1>9, <1>10, <1>11 DEF IInv

LEMMA PhaseNext ==
  ASSUME IInv, phase' \in {"open", "closing", "closed"},
         UNCHANGED <<heapVars, freeBatches, freeReplies, held, batchVars, reply,
                     current_batch, parserVars, freeVars, dropped>>,
         phase' # phase => \A c \in Connections : current_batch[c] = None,
         PhasesOK'
  PROVE  IInv'
<1>1. TypeOK /\ HeldOnce /\ HoldersOK /\ BatchesOK /\ PairsOK /\ OwnData
  BY DEF IInv
<1>2. /\ heap' = heap /\ allocated' = allocated
      /\ freeBatches' = freeBatches /\ freeReplies' = freeReplies /\ held' = held
      /\ num_commands' = num_commands /\ reply_queue' = reply_queue /\ error' = error
      /\ reply' = reply /\ current_batch' = current_batch
      /\ multibulk_reply' = multibulk_reply /\ multibulk_count' = multibulk_count
      /\ freeing' = freeing /\ hand' = hand /\ dropped' = dropped
  BY DEF heapVars, batchVars, parserVars, freeVars
<1>3. HoldersOK' /\ Flat'
  BY <1>1, <1>2, RepliesStay DEF HoldersOK
<1>4. HeldOnce' /\ BatchesOK'
  BY <1>1, <1>2 DEF HeldOnce, BatchesOK
<1>5. PairsOK'
  <2>1. ASSUME NEW d \in Connections PROVE RunsOK(d)' /\ OpenOK(d)'
    BY <1>1, <1>2 DEF PairsOK, RunsOK, OpenOK, LooksInto, Elements
  <2> QED
    BY <1>1, <1>2, <2>1 DEF PairsOK
<1>6. Accounted' /\ OwnData'
  BY <1>1, <1>2 DEF IInv, Accounted, OwnData, Elements
<1>7. TypeOK'
  <2>1. error' \in [Batches -> BOOLEAN] /\ reply' \in [Replies -> ReplyRecord]
    BY <1>1, <1>2 DEF TypeOK, ReplyRecord
  <2> QED
    BY <1>1, <1>2, <2>1 DEF TypeOK, ReplyRecord
<1> QED
  BY <1>3, <1>4, <1>5, <1>6, <1>7 DEF IInv

LEMMA ModuleFreeNext ==
  ASSUME IInv, Module_free
  PROVE  IInv'
<1>1. /\ BatchesOK /\ PhasesOK
  BY DEF IInv
<1>2. /\ phase' = "closing" /\ phase = "open" /\ freeing = None /\ held = {}
      /\ heap \cap Connections = {}
      /\ \A c \in Connections : current_batch[c] = None
  BY DEF Module_free, Free, Executing
<1>3. \A b \in Batches : reply_queue[b] = <<>>
  BY <1>1, <1>2, NoneAssumption DEF BatchesOK
<1>4. UNCHANGED <<heapVars, freeBatches, freeReplies, held, batchVars, reply,
                  current_batch, parserVars, freeVars, dropped>>
  BY DEF Module_free
<1>5. PhasesOK'
  BY <1>1, <1>2, <1>3, <1>4 DEF PhasesOK, heapVars, batchVars, freeVars
<1> QED
  BY <1>2, <1>4, <1>5, PhaseNext

LEMMA ClosedNext ==
  ASSUME IInv, Closed
  PROVE  IInv'
<1>1. /\ PairsOK /\ PhasesOK
  BY DEF IInv
<1>2. /\ phase' = "closed" /\ phase = "closing" /\ freeing = None
      /\ freeReplies = <<>> /\ freeBatches = <<>>
  BY DEF Closed
<1>3. \A c \in Connections : current_batch[c] = None
  BY <1>1, <1>2 DEF PairsOK, RunsOK
<1>4. UNCHANGED <<heapVars, freeBatches, freeReplies, held, batchVars, reply,
                  current_batch, parserVars, freeVars, dropped>>
  BY DEF Closed
<1>5. PhasesOK'
  BY <1>1, <1>2, <1>4 DEF PhasesOK, heapVars, batchVars, freeVars
<1> QED
  BY <1>2, <1>3, <1>4, <1>5, PhaseNext

LEMMA StutterNext ==
  ASSUME IInv, UNCHANGED vars
  PROVE  IInv'
<1>1. PhasesOK /\ phase \in {"open", "closing", "closed"}
  BY DEF IInv, TypeOK
<1>2. /\ phase' = phase
      /\ UNCHANGED <<heapVars, freeBatches, freeReplies, held, batchVars, reply,
                     current_batch, parserVars, freeVars, dropped>>
  BY DEF vars
<1>3. PhasesOK'
  BY <1>1, <1>2 DEF PhasesOK, heapVars, batchVars, freeVars
<1> QED
  BY <1>1, <1>2, <1>3, PhaseNext

-----------------------------------------------------------------------------
(***************************************************************************)
(* The actions of _Batch_free and Module_free that move or free replies.   *)
(***************************************************************************)

LEMMA PopReplyNext ==
  ASSUME IInv, NEW b \in Batches, b = freeing, NEW r \in Replies,
         r = Last(reply_queue[b]), PopReply
  PROVE  IInv'
<1>1. TypeOK /\ HeldOnce /\ HoldersOK /\ Flat /\ BatchesOK /\ PairsOK /\ PhasesOK /\ OwnData
  BY DEF IInv
<1>2. /\ phase' = phase /\ heap' = heap /\ allocated' = allocated
      /\ freeBatches' = freeBatches /\ freeReplies' = freeReplies /\ held' = held
      /\ num_commands' = num_commands /\ error' = error
      /\ reply' = reply /\ current_batch' = current_batch
      /\ multibulk_reply' = multibulk_reply /\ multibulk_count' = multibulk_count
      /\ freeing' = freeing /\ dropped' = dropped
      /\ hand' = r /\ reply_queue' = [reply_queue EXCEPT ![b] = Front(@)]
  BY DEF PopReply, heapVars, parserVars
<1>3. /\ freeing # None /\ hand = None /\ reply_queue[b] # <<>>
      /\ b # None /\ r # None
  BY NoneAssumption DEF PopReply
<1>4. /\ Front(reply_queue[b]) \in Seq(Replies)
      /\ IsInjective(Front(reply_queue[b]))
      /\ r \notin ToSet(Front(reply_queue[b])) /\ r \in ToSet(reply_queue[b])
      /\ \A s : s \in ToSet(reply_queue[b]) <=> s \in ToSet(Front(reply_queue[b])) \/ s = r
  <2>1. reply_queue[b] \in Seq(Replies) /\ IsInjective(reply_queue[b])
    BY <1>1 DEF TypeOK, HeldOnce
  <2>2. ToSet(reply_queue[b]) = ToSet(Front(reply_queue[b])) \cup {r}
    BY <1>3, <2>1, PopFromList
  <2> QED
    BY <1>3, <2>1, <2>2, PopFromList
<1>5. /\ reply_queue' \in [Batches -> Seq(Replies)]
      /\ reply_queue'[b] = Front(reply_queue[b])
      /\ \A a \in Batches \ {b} : reply_queue'[a] = reply_queue[a]
  BY <1>1, <1>2, <1>4 DEF TypeOK
<1>6. /\ b \notin held /\ phase = "open"
  BY <1>1, <1>3 DEF BatchesOK, PhasesOK
<1>7. \A q \in Replies : Elements(q)' = Elements(q)
  BY <1>2 DEF Elements
<1>8. /\ \A a \in Batches : r \in ToSet(reply_queue[a]) <=> a = b
      /\ \A m \in Replies : r \notin Elements(m)
      /\ \A d \in Connections : r # multibulk_reply[d]
      /\ r \notin ToSet(freeReplies) /\ r \in heap \ dropped
  <2>1. IsHolder(Queue(b), r)
    BY <1>1, <1>4, HolderIs
  <2> QED
    BY <2>1, HoldersDiffer DEF IsHolder
<1>9. IsHolder(Hand, r)'
  <2>1. \A a \in Batches : r \notin ToSet(reply_queue'[a])
    BY <1>4, <1>5, <1>8
  <2>2. \A q \in Replies : r \notin Elements(q)'
    BY <1>7, <1>8
  <2> QED
    BY <1>2, <1>8, <2>1, <2>2, HoldersDiffer DEF IsHolder
<1>10. ASSUME NEW s \in Replies, s # r PROVE SameHolder(s)
  <2>1. \A a \in Batches : s \in ToSet(reply_queue'[a]) <=> s \in ToSet(reply_queue[a])
    BY <1>4, <1>5, <1>10
  <2>2. s # None
    BY NoneAssumption
  <2> QED
    BY <1>2, <1>3, <1>7, <1>10, <2>1, <2>2 DEF SameHolder
<1>11. HoldersOK'
  <2>1. ASSUME NEW s \in Replies PROVE \E h : IsHolder(h, s)'
    BY <1>1, <1>9, <1>10, StaysHeld
  <2>2. IsFiniteSet(heap') /\ dropped' \subseteq heap'
    BY <1>1, <1>2 DEF HoldersOK
  <2> QED
    BY <2>1, <2>2, HoldersNext
<1>12. HeldOnce'
  <2>1. \A a \in Batches : IsInjective(reply_queue'[a])
    BY <1>1, <1>4, <1>5 DEF HeldOnce
  <2> QED
    BY <1>1, <1>2, <2>1 DEF HeldOnce
<1>13. Flat'
  BY <1>1, <1>2, <1>7 DEF Flat
<1>14. BatchesOK'
  BY <1>1, <1>2, <1>5 DEF BatchesOK
<1>15. PairsOK'
  <2>1. ASSUME NEW d \in Connections PROVE RunsOK(d)' /\ OpenOK(d)'
    BY <1>1, <1>2 DEF PairsOK, RunsOK, OpenOK, LooksInto, Elements
  <2> QED
    BY <1>1, <1>2, <2>1 DEF PairsOK
<1>16. PhasesOK'
  BY <1>1, <1>2, <1>3, <1>6 DEF PhasesOK
<1>17. Accounted'
  BY <1>2 DEF IInv, Accounted
<1>18. OwnData'
  <2>1. \A a \in held : reply_queue'[a] = reply_queue[a]
    BY <1>1, <1>5, <1>6 DEF TypeOK
  <2> QED
    BY <1>1, <1>2, <2>1 DEF OwnData, Elements
<1>19. TypeOK'
  <2>1. error' \in [Batches -> BOOLEAN] /\ reply' \in [Replies -> ReplyRecord]
    BY <1>1, <1>2 DEF TypeOK, ReplyRecord
  <2> QED
    BY <1>1, <1>2, <1>5, <2>1 DEF TypeOK, ReplyRecord
<1> QED
  BY <1>11, <1>12, <1>13, <1>14, <1>15, <1>16, <1>17, <1>18, <1>19 DEF IInv

\* Reply_free of an element: from the hand's children to the free list.
LEMMA FreeChildNext ==
  ASSUME IInv, NEW m \in Replies, m = hand, NEW r \in Replies,
         r = Last(reply[m].children), FreeChild
  PROVE  IInv'
<1>1. TypeOK /\ HeldOnce /\ HoldersOK /\ Flat /\ BatchesOK /\ PairsOK /\ PhasesOK /\ OwnData
  BY DEF IInv
<1>2. /\ phase' = phase /\ heap' = heap /\ allocated' = allocated
      /\ freeBatches' = freeBatches /\ held' = held
      /\ num_commands' = num_commands /\ reply_queue' = reply_queue /\ error' = error
      /\ current_batch' = current_batch
      /\ multibulk_reply' = multibulk_reply /\ multibulk_count' = multibulk_count
      /\ freeing' = freeing /\ hand' = hand /\ dropped' = dropped
      /\ freeReplies' = <<r>> \o freeReplies
      /\ reply' = [reply EXCEPT ![m].children = Front(@)]
  BY DEF FreeChild, Reply_list_free, heapVars, batchVars, parserVars, freeVars
<1>3. reply[m].children # <<>> /\ hand # None
  BY DEF FreeChild
<1>4. /\ reply \in [Replies -> ReplyRecord] /\ reply[m] \in ReplyRecord
      /\ reply[m].children \in Seq(Replies) /\ IsInjective(reply[m].children)
      /\ freeReplies \in Seq(Replies) /\ IsInjective(freeReplies)
  BY <1>1 DEF TypeOK, HeldOnce, ReplyRecord
<1>5. /\ Front(reply[m].children) \in Seq(Replies)
      /\ IsInjective(Front(reply[m].children))
      /\ r \notin ToSet(Front(reply[m].children)) /\ r \in Elements(m)
      /\ \A s : s \in Elements(m) <=> s \in ToSet(Front(reply[m].children)) \/ s = r
  <2>1. ToSet(reply[m].children) = ToSet(Front(reply[m].children)) \cup {r}
    BY <1>3, <1>4, PopFromList
  <2> QED
    BY <1>3, <1>4, <2>1, PopFromList DEF Elements
<1>6. /\ reply' \in [Replies -> ReplyRecord]
      /\ reply'[m].children = Front(reply[m].children)
      /\ reply'[m].buffer = reply[m].buffer
      /\ \A s \in Replies \ {m} : reply'[s] = reply[s]
  BY <1>2, <1>4, <1>5 DEF ReplyRecord
<1>7. /\ \A a \in Batches : r \notin ToSet(reply_queue[a])
      /\ \A q \in Replies : r \in Elements(q) <=> q = m
      /\ \A d \in Connections : r # multibulk_reply[d]
      /\ r \notin ToSet(freeReplies) /\ r # hand /\ r \in heap \ dropped
  <2>1. IsHolder(Children(m), r)
    BY <1>1, <1>5, HolderIs
  <2> QED
    BY <2>1, HoldersDiffer DEF IsHolder
<1>8. /\ \A a \in Batches : m \notin ToSet(reply_queue[a])
      /\ \A q \in Replies : m \notin Elements(q)
      /\ \A d \in Connections : m # multibulk_reply[d]
      /\ m \notin ToSet(freeReplies) /\ m \in heap \ dropped
  <2>1. IsHolder(Hand, m)
    BY <1>1, HolderIs
  <2> QED
    BY <2>1, HoldersDiffer DEF IsHolder
<1>9. /\ freeReplies' \in Seq(Replies) /\ IsInjective(freeReplies')
      /\ \A s : s \in ToSet(freeReplies') <=> s \in ToSet(freeReplies) \/ s = r
  <2>1. ToSet(freeReplies') = ToSet(freeReplies) \cup {r}
    BY <1>2, <1>4, PushOnList
  <2> QED
    BY <1>2, <1>4, <1>7, <2>1, PushOnList
<1>10. /\ \A s : s \in ToSet(reply'[m].children) <=> s \in Elements(m) /\ s # r
       /\ \A q \in Replies \ {m} : ToSet(reply'[q].children) = Elements(q)
       /\ \A q \in Replies : reply'[q].buffer = reply[q].buffer
  BY <1>5, <1>6 DEF Elements
<1>11. IsHolder(FreeList, r)'
  <2>1. \A q \in Replies : r \notin Elements(q)'
    BY <1>7, <1>10 DEF Elements
  <2> QED
    BY <1>2, <1>7, <1>9, <2>1, HoldersDiffer DEF IsHolder
<1>12. ASSUME NEW s \in Replies, s # r PROVE SameHolder(s)
  <2>1. \A q \in Replies : s \in Elements(q)' <=> s \in Elements(q)
    BY <1>10, <1>12 DEF Elements
  <2> QED
    BY <1>2, <1>9, <1>12, <2>1 DEF SameHolder
<1>13. HoldersOK'
  <2>1. ASSUME NEW s \in Replies PROVE \E h : IsHolder(h, s)'
    BY <1>1, <1>11, <1>12, StaysHeld
  <2>2. IsFiniteSet(heap') /\ dropped' \subseteq heap'
    BY <1>1, <1>2 DEF HoldersOK
  <2> QED
    BY <2>1, <2>2, HoldersNext
<1>14. HeldOnce'
  <2>1. \A q \in Replies : IsInjective(reply'[q].children)
    BY <1>1, <1>5, <1>6 DEF HeldOnce
  <2> QED
    BY <1>1, <1>2, <1>9, <2>1 DEF HeldOnce
<1>15. Flat'
  <2>1. reply[r].children = <<>> /\ r # m
    BY <1>1, <1>5, <1>7 DEF Flat
  <2>2. ASSUME NEW s \in Replies,
               s \notin heap \/ s \in ToSet(freeReplies')
                 \/ (\E q \in Replies : s \in ToSet(reply'[q].children))
        PROVE  reply'[s].children = <<>>
    <3>1. CASE s = r
      BY <1>6, <2>1, <3>1
    <3>2. CASE s # r
      <4>1. \/ s \notin heap \/ s \in ToSet(freeReplies)
            \/ \E q \in Replies : s \in Elements(q)
        BY <1>9, <1>10, <2>2, <3>2
      <4>2. s # m
        BY <1>8, <4>1
      <4> QED
        BY <1>1, <1>6, <4>1, <4>2 DEF Flat
    <3> QED
      BY <3>1, <3>2
  <2> QED
    BY <1>2, <2>2 DEF Flat, Elements
<1>16. BatchesOK'
  BY <1>1, <1>2 DEF BatchesOK
<1>17. freeing # None /\ phase = "open" /\ \A d \in Connections : current_batch[d] = None
  BY <1>1, <1>3 DEF PhasesOK, PairsOK, RunsOK
<1>18. PairsOK'
  <2>1. ASSUME NEW d \in Connections PROVE RunsOK(d)' /\ OpenOK(d)'
    BY <1>1, <1>2, <1>17 DEF PairsOK, RunsOK, OpenOK
  <2> QED
    BY <1>1, <1>2, <2>1 DEF PairsOK
<1>19. PhasesOK'
  BY <1>1, <1>2, <1>17 DEF PhasesOK
<1>20. Accounted'
  BY <1>2 DEF IInv, Accounted
<1>21. OwnData'
  <2>1. ASSUME NEW a \in held', NEW q \in ToSet(reply_queue'[a]),
               NEW s \in {q} \cup Elements(q)'
        PROVE  s \in heap' /\ LooksInto(a, s)'
    <3>1. a \in held /\ a \in Batches /\ q \in ToSet(reply_queue[a])
      BY <1>1, <1>2 DEF TypeOK
    <3>2. q \in Replies /\ q # m
      BY <1>1, <1>8, <3>1, ListMembers DEF TypeOK
    <3>3. s \in {q} \cup Elements(q) /\ s \in Replies
      <4>1. Elements(q)' = Elements(q)
        BY <1>10, <3>2 DEF Elements
      <4> QED
        BY <1>1, <3>2, <4>1, ListMembers DEF TypeOK, Elements
    <3>4. s \in heap /\ LooksInto(a, s)
      BY <1>1, <3>1, <3>3 DEF OwnData, LooksInto
    <3> QED
      BY <1>2, <1>10, <3>3, <3>4 DEF LooksInto
  <2> QED
    BY <2>1 DEF OwnData, LooksInto
<1>22. TypeOK'
  <2>1. error' \in [Batches -> BOOLEAN]
    BY <1>1, <1>2 DEF TypeOK
  <2> QED
    BY <1>1, <1>2, <1>6, <1>9, <2>1 DEF TypeOK, ReplyRecord
<1> QED
  BY <1>13, <1>14, <1>15, <1>16, <1>18, <1>19, <1>20, <1>21, <1>22 DEF IInv

\* The memory of a reply goes back to malloc, from the hand or the free list.
LEMMA ReplyReleased ==
  ASSUME IInv, NEW r \in Replies, NEW h, IsHolder(h, r), h \in {Hand, FreeList},
         SINGLETHREADED => Elements(r) = {},
         \A c \in Connections : current_batch[c] = None,
         heap' = heap \ {r}, allocated' = allocated - ReplyBytes,
         reply' = [reply EXCEPT ![r] = Blank],
         freeReplies' \in Seq(Replies), IsInjective(freeReplies'),
         \A s : s \in ToSet(freeReplies') <=> s \in ToSet(freeReplies) /\ s # r,
         hand' \in Replies \cup {None}, hand' # r,
         \A s \in Replies \ {r} : s = hand' <=> s = hand,
         hand' # None => freeing # None,
         UNCHANGED <<phase, freeBatches, held, batchVars, current_batch, parserVars,
                     freeing, dropped>>
  PROVE  TypeOK' /\ HeldOnce' /\ HoldersOK' /\ Flat' /\ BatchesOK' /\ PairsOK'
         /\ Accounted' /\ OwnData'
<1>1. TypeOK /\ HeldOnce /\ HoldersOK /\ Flat /\ BatchesOK /\ PairsOK /\ OwnData
  BY DEF IInv
<1>2. /\ phase' = phase /\ freeBatches' = freeBatches /\ held' = held
      /\ num_commands' = num_commands /\ reply_queue' = reply_queue /\ error' = error
      /\ current_batch' = current_batch
      /\ multibulk_reply' = multibulk_reply /\ multibulk_count' = multibulk_count
      /\ freeing' = freeing /\ dropped' = dropped
  BY DEF batchVars, parserVars
<1>3. /\ \A a \in Batches : r \notin ToSet(reply_queue[a])
      /\ \A q \in Replies : r \notin Elements(q)
      /\ \A d \in Connections : r # multibulk_reply[d]
      /\ r \in heap /\ r \notin dropped
  BY HoldersDiffer DEF IsHolder
<1>4. /\ reply' \in [Replies -> ReplyRecord]
      /\ reply'[r].children = <<>>
      /\ \A s \in Replies \ {r} : reply'[s] = reply[s]
  <2>1. reply \in [Replies -> ReplyRecord] /\ Blank \in ReplyRecord /\ Blank.children = <<>>
    BY <1>1, EmptyList DEF TypeOK, ReplyRecord, Blank
  <2> QED
    BY <2>1
<1>5. /\ Elements(r)' = {} /\ IsInjective(reply'[r].children)
      /\ \A q \in Replies \ {r} : Elements(q)' = Elements(q)
  BY <1>4, EmptyList DEF Elements
<1>6. IsHolder(Nobody, r)'
  <2>1. \A q \in Replies : r \notin Elements(q)'
    BY <1>3, <1>5
  <2>2. /\ \A a \in Batches : r \notin ToSet(reply_queue'[a])
        /\ \A d \in Connections : r # multibulk_reply'[d]
        /\ r \notin ToSet(freeReplies') /\ r # hand' /\ r \notin heap'
    BY <1>2, <1>3
  <2> QED
    BY <2>1, <2>2, HoldersDiffer DEF IsHolder
<1>7. ASSUME NEW s \in Replies, s # r, s \notin Elements(r) PROVE SameHolder(s)
  <2>1. \A q \in Replies : s \in Elements(q)' <=> s \in Elements(q)
    BY <1>5, <1>7
  <2>2. s = hand' <=> s = hand
    BY <1>7
  <2>3. s \in ToSet(freeReplies') <=> s \in ToSet(freeReplies)
    BY <1>7
  <2>4. s \in heap' \ dropped' <=> s \in heap \ dropped
    BY <1>2, <1>7
  <2> QED
    BY <1>2, <2>1, <2>2, <2>3, <2>4 DEF SameHolder
<1>8. ASSUME NEW s \in Replies, s \in Elements(r) PROVE IsHolder(Nobody, s)'
  <2>1. IsHolder(Children(r), s) /\ s # r /\ ~SINGLETHREADED
    BY <1>1, <1>3, <1>8, HolderIs
  <2>2. /\ \A a \in Batches : s \notin ToSet(reply_queue[a])
        /\ \A q \in Replies : s \in Elements(q) <=> q = r
        /\ \A d \in Connections : s # multibulk_reply[d]
        /\ s \notin ToSet(freeReplies) /\ s # hand
    BY <2>1, HoldersDiffer DEF IsHolder
  <2>3. \A q \in Replies : s \notin Elements(q)'
    BY <1>5, <2>2
  <2>4. s # hand' /\ s \notin ToSet(freeReplies')
    BY <2>1, <2>2
  <2> QED
    BY <1>2, <2>1, <2>2, <2>3, <2>4, HoldersDiffer DEF IsHolder
<1>9. /\ IsFiniteSet(heap') /\ dropped' \subseteq heap'
      /\ allocated' = Bytes(heap', Errors')
  <2>1. IsFiniteSet(Errors) /\ IsFiniteSet(heap) /\ allocated = Bytes(heap, Errors)
    BY ErrorsAreBatches DEF IInv, Accounted, Bytes, Errors
  <2>2. IsFiniteSet(heap') /\ allocated' = Bytes(heap', Errors)
    BY <1>3, <2>1, BytesOfLess
  <2>3. Errors' = Errors
    BY <1>2 DEF Errors
  <2>4. dropped' \subseteq heap'
    BY <1>1, <1>2, <1>3 DEF HoldersOK
  <2> QED
    BY <2>2, <2>3, <2>4
<1>10. HoldersOK'
  <2>1. ASSUME NEW s \in Replies PROVE \E g : IsHolder(g, s)'
    <3>1. CASE s = r
      BY <1>6, <3>1
    <3>2. CASE s \in Elements(r)
      BY <1>8, <3>2
    <3>3. CASE s # r /\ s \notin Elements(r)
      BY <1>1, <1>7, <3>3, StaysHeld
    <3> QED
      BY <3>1, <3>2, <3>3
  <2> QED
    BY <1>9, <2>1, HoldersNext
<1>11. HeldOnce'
  <2>1. \A q \in Replies : IsInjective(reply'[q].children)
    BY <1>1, <1>4, <1>5 DEF HeldOnce
  <2> QED
    BY <1>1, <1>2, <2>1 DEF HeldOnce
<1>12. Flat'
  <2>1. ASSUME NEW s \in Replies,
               s \notin heap' \/ s \in ToSet(freeReplies')
                 \/ (\E q \in Replies : s \in Elements(q)')
        PROVE  reply'[s].children = <<>>
    <3>1. CASE s = r
      BY <1>4, <3>1
    <3>2. CASE s # r
      <4>1. \/ s \notin heap \/ s \in ToSet(freeReplies)
            \/ \E q \in Replies : s \in Elements(q)
        BY <1>5, <2>1, <3>2
      <4> QED
        BY <1>1, <1>4, <3>2, <4>1 DEF Flat
    <3> QED
      BY <3>1, <3>2
  <2> QED
    BY <2>1 DEF Flat
<1>13. \A x \in Batches \cup Connections : x \in heap' <=> x \in heap
  BY AddressAssumption
<1>14. BatchesOK'
  BY <1>1, <1>2, <1>13 DEF BatchesOK
<1>15. PairsOK'
  <2>1. ASSUME NEW d \in Connections PROVE RunsOK(d)' /\ OpenOK(d)'
    BY <1>1, <1>2, <1>13 DEF PairsOK, RunsOK, OpenOK
  <2> QED
    BY <1>1, <1>2, <2>1 DEF PairsOK
<1>16. Accounted' /\ allocated' \in Nat
  <2>1. IsFiniteSet(Errors')
    <3>1. Errors' = Errors
      BY <1>2 DEF Errors
    <3> QED
      BY <3>1, ErrorsAreBatches
  <2> QED
    BY <1>9, <2>1, AccountedNext
<1>17. OwnData'
  <2>1. ASSUME NEW a \in held', NEW q \in ToSet(reply_queue'[a]),
               NEW s \in {q} \cup Elements(q)'
        PROVE  s \in heap' /\ LooksInto(a, s)'
    <3>1. a \in held /\ a \in Batches /\ q \in ToSet(reply_queue[a])
      BY <1>1, <1>2 DEF TypeOK
    <3>2. q \in Replies /\ q # r
      BY <1>1, <1>3, <3>1, ListMembers DEF TypeOK
    <3>3. s \in {q} \cup Elements(q)
      BY <1>5, <3>2
    <3>4. s \in Replies /\ s # r
      BY <1>1, <1>3, <3>2, <3>3, ListMembers DEF TypeOK, Elements
    <3>5. s \in heap /\ LooksInto(a, s)
      BY <1>1, <3>1, <3>3 DEF OwnData, LooksInto
    <3> QED
      BY <1>2, <1>4, <3>4, <3>5 DEF LooksInto
  <2> QED
    BY <2>1 DEF OwnData, LooksInto
<1>18. TypeOK'
  <2>1. heap' \subseteq Connections \cup Batches \cup Replies
    BY <1>1 DEF TypeOK
  <2>2. error' \in [Batches -> BOOLEAN]
    BY <1>1, <1>2 DEF TypeOK
  <2> QED
    BY <1>1, <1>2, <1>4, <1>16, <2>1, <2>2 DEF TypeOK, ReplyRecord
<1> QED
  BY <1>10, <1>11, <1>12, <1>14, <1>15, <1>16, <1>17, <1>18

LEMMA ReplyFreeFinalNext ==
  ASSUME IInv, NEW r \in Replies, r = Last(freeReplies), Reply_free_final
  PROVE  IInv'
<1>1. TypeOK /\ HeldOnce /\ HoldersOK /\ Flat /\ PairsOK /\ PhasesOK
  BY DEF IInv
<1>2. /\ phase = "closing" /\ freeReplies # <<>>
      /\ heap' = heap \ {r} /\ allocated' = allocated - ReplyBytes
      /\ reply' = [reply EXCEPT ![r] = Blank]
      /\ freeReplies' = Front(freeReplies) /\ hand' = hand
      /\ UNCHANGED <<phase, freeBatches, held, batchVars, current_batch, parserVars,
                     freeing, dropped>>
  BY DEF Reply_free_final, _Alloc_free, freeVars
<1>3. /\ freeReplies' \in Seq(Replies) /\ IsInjective(freeReplies')
      /\ r \in ToSet(freeReplies)
      /\ \A s : s \in ToSet(freeReplies') <=> s \in ToSet(freeReplies) /\ s # r
  <2>1. freeReplies \in Seq(Replies) /\ IsInjective(freeReplies)
    BY <1>1 DEF TypeOK, HeldOnce
  <2>2. ToSet(freeReplies) = ToSet(freeReplies') \cup {r}
    BY <1>2, <2>1, PopFromList
  <2>3. r \notin ToSet(freeReplies')
    BY <1>2, <2>1, PopFromList
  <2> QED
    BY <1>2, <2>1, <2>2, <2>3, PopFromList
<1>4. IsHolder(FreeList, r) /\ reply[r].children = <<>>
  BY <1>1, <1>3, HolderIs DEF Flat
<1>5. Elements(r) = {} /\ hand' # r /\ hand' \in Replies \cup {None}
  BY <1>1, <1>2, <1>4, EmptyList, HoldersDiffer DEF Elements, IsHolder, TypeOK
<1>6. /\ \A c \in Connections : current_batch[c] = None
      /\ hand' # None => freeing # None
  BY <1>1, <1>2 DEF PairsOK, RunsOK, PhasesOK
<1>7. PhasesOK'
  BY <1>1, <1>2 DEF PhasesOK, batchVars
<1>8. TypeOK' /\ HeldOnce' /\ HoldersOK' /\ Flat' /\ BatchesOK' /\ PairsOK'
      /\ Accounted' /\ OwnData'
  BY <1>2, <1>3, <1>4, <1>5, <1>6, ReplyReleased
<1> QED
  BY <1>7, <1>8 DEF IInv

LEMMA FreeReplyNext ==
  ASSUME IInv, NEW r \in Replies, r = hand, FreeReply
  PROVE  IInv'
<1>1. TypeOK /\ HeldOnce /\ HoldersOK /\ Flat /\ BatchesOK /\ PairsOK /\ PhasesOK /\ OwnData
  BY DEF IInv
<1>2. /\ UNCHANGED <<phase, freeBatches, held, batchVars, current_batch, parserVars,
                     freeing, dropped>>
      /\ hand' = None /\ hand # None
  BY DEF FreeReply
<1>3. /\ freeing # None /\ phase = "open" /\ phase' = "open"
      /\ \A c \in Connections : current_batch[c] = None
  BY <1>1, <1>2 DEF PhasesOK, PairsOK, RunsOK
<1>4. PhasesOK'
  BY <1>2, <1>3 DEF PhasesOK
<1>5. IsHolder(Hand, r)
  BY <1>1, HolderIs
<1>6. /\ \A a \in Batches : r \notin ToSet(reply_queue[a])
      /\ \A q \in Replies : r \notin Elements(q)
      /\ \A d \in Connections : r # multibulk_reply[d]
      /\ r \notin ToSet(freeReplies) /\ r \in heap \ dropped
  BY <1>5, HoldersDiffer DEF IsHolder
<1>7. freeReplies \in Seq(Replies) /\ IsInjective(freeReplies) /\ r # None
  BY <1>1, NoneAssumption DEF TypeOK, HeldOnce
<1>8. CASE Final
  <2>1. /\ heap' = heap \ {r} /\ allocated' = allocated - ReplyBytes
        /\ freeReplies' = freeReplies /\ reply' = [reply EXCEPT ![r] = Blank]
    BY <1>8 DEF FreeReply, Reply_list_free, _Alloc_free
  <2>2. SINGLETHREADED => Elements(r) = {}
    BY <1>8 DEF Final
  <2>3. /\ freeReplies' \in Seq(Replies) /\ IsInjective(freeReplies')
        /\ \A s : s \in ToSet(freeReplies') <=> s \in ToSet(freeReplies) /\ s # r
    BY <1>6, <1>7, <2>1
  <2>4. /\ hand' \in Replies \cup {None} /\ hand' # r
        /\ \A s \in Replies \ {r} : s = hand' <=> s = hand
        /\ hand' # None => freeing # None
    BY <1>2, <1>7, NoneAssumption
  <2>5. TypeOK' /\ HeldOnce' /\ HoldersOK' /\ Flat' /\ BatchesOK' /\ PairsOK'
        /\ Accounted' /\ OwnData'
    BY <1>2, <1>3, <1>5, <2>1, <2>2, <2>3, <2>4, ReplyReleased
  <2> QED
    BY <1>4, <2>5 DEF IInv
<1>9. CASE ~Final
  <2>1. /\ heap' = heap /\ allocated' = allocated /\ reply' = reply
        /\ freeReplies' = <<r>> \o freeReplies /\ reply[r].children = <<>>
    BY <1>9 DEF FreeReply, Reply_list_free, heapVars
  <2>2. /\ phase' = phase /\ freeBatches' = freeBatches /\ held' = held
        /\ num_commands' = num_commands /\ reply_queue' = reply_queue /\ error' = error
        /\ current_batch' = current_batch
        /\ multibulk_reply' = multibulk_reply /\ multibulk_count' = multibulk_count
        /\ freeing' = freeing /\ dropped' = dropped
    BY <1>2 DEF batchVars, parserVars
  <2>3. /\ freeReplies' \in Seq(Replies) /\ IsInjective(freeReplies')
        /\ \A s : s \in ToSet(freeReplies') <=> s \in ToSet(freeReplies) \/ s = r
    <3>1. ToSet(freeReplies') = ToSet(freeReplies) \cup {r}
      BY <1>7, <2>1, PushOnList
    <3> QED
      BY <1>6, <1>7, <2>1, <3>1, PushOnList
  <2>4. \A q \in Replies : Elements(q)' = Elements(q)
    BY <2>1 DEF Elements
  <2>5. IsHolder(FreeList, r)'
    <3>1. \A q \in Replies : r \notin Elements(q)'
      BY <1>6, <2>4
    <3> QED
      BY <1>2, <1>6, <1>7, <2>1, <2>2, <2>3, <3>1, HoldersDiffer DEF IsHolder
  <2>6. ASSUME NEW s \in Replies, s # r PROVE SameHolder(s)
    <3>1. s # None
      BY NoneAssumption
    <3> QED
      BY <1>2, <2>1, <2>2, <2>3, <2>4, <2>6, <3>1 DEF SameHolder
  <2>7. HoldersOK'
    <3>1. ASSUME NEW s \in Replies PROVE \E h : IsHolder(h, s)'
      BY <1>1, <2>5, <2>6, StaysHeld
    <3>2. IsFiniteSet(heap') /\ dropped' \subseteq heap'
      BY <1>1, <2>1, <2>2 DEF HoldersOK
    <3> QED
      BY <3>1, <3>2, HoldersNext
  <2>8. HeldOnce' /\ BatchesOK'
    BY <1>1, <2>1, <2>2, <2>3 DEF HeldOnce, BatchesOK
  <2>9. Flat'
    <3>1. ASSUME NEW s \in Replies,
                 s \notin heap \/ s \in ToSet(freeReplies')
                   \/ (\E q \in Replies : s \in Elements(q)')
          PROVE  reply[s].children = <<>>
      <4>1. \/ s = r \/ s \notin heap \/ s \in ToSet(freeReplies)
            \/ \E q \in Replies : s \in Elements(q)
        BY <2>3, <2>4, <3>1
      <4> QED
        BY <1>1, <2>1, <4>1 DEF Flat
    <3> QED
      BY <2>1, <3>1 DEF Flat
  <2>10. PairsOK'
    <3>1. ASSUME NEW d \in Connections PROVE RunsOK(d)' /\ OpenOK(d)'
      BY <1>1, <1>3, <2>1, <2>2 DEF PairsOK, RunsOK, OpenOK
    <3> QED
      BY <1>1, <2>2, <3>1 DEF PairsOK
  <2>11. Accounted' /\ OwnData'
    BY <1>1, <2>1, <2>2 DEF IInv, Accounted, OwnData, Elements
  <2>12. TypeOK'
    <3>1. error' \in [Batches -> BOOLEAN] /\ reply' \in [Replies -> ReplyRecord]
      BY <1>1, <2>1, <2>2 DEF TypeOK, ReplyRecord
    <3> QED
      BY <1>1, <1>2, <2>1, <2>2, <2>3, <3>1 DEF TypeOK, ReplyRecord
  <2> QED
    BY <1>4, <2>7, <2>8, <2>9, <2>10, <2>11, <2>12 DEF IInv
<1> QED
  BY <1>8, <1>9

-----------------------------------------------------------------------------
(***************************************************************************)
(* Connection_free and Executor_execute forget the parsers' replies.       *)
(***************************************************************************)

LEMMA RepliesForgotten ==
  ASSUME IInv, NEW cs \in SUBSET Connections, Forget(cs), IsFiniteSet(heap'),
         \A r \in Replies : r \in heap' <=> r \in heap,
         UNCHANGED <<reply_queue, reply, freeReplies, hand>>
  PROVE  /\ HoldersOK' /\ Flat'
         /\ multibulk_reply' \in [Connections -> Replies \cup {None}]
         /\ multibulk_count' \in [Connections -> Nat]
         /\ dropped' \subseteq Replies
         /\ \A c \in cs : multibulk_reply'[c] = None /\ multibulk_count'[c] = 0
         /\ \A c \in Connections \ cs : /\ multibulk_reply'[c] = multibulk_reply[c]
                                        /\ multibulk_count'[c] = multibulk_count[c]
<1>1. /\ HoldersOK /\ Flat /\ dropped \subseteq Replies
      /\ multibulk_reply \in [Connections -> Replies \cup {None}]
      /\ multibulk_count \in [Connections -> Nat]
  BY DEF IInv, TypeOK
<1>2. /\ multibulk_reply' \in [Connections -> Replies \cup {None}]
      /\ multibulk_count' \in [Connections -> Nat]
      /\ \A c \in cs : multibulk_reply'[c] = None /\ multibulk_count'[c] = 0
      /\ \A c \in Connections \ cs : /\ multibulk_reply'[c] = multibulk_reply[c]
                                     /\ multibulk_count'[c] = multibulk_count[c]
  BY <1>1 DEF Forget
<1>3. /\ dropped' \subseteq Replies
      /\ \A r \in Replies : r \in dropped' <=>
            r \in dropped \/ \E c \in cs : r = multibulk_reply[c]
  <2>1. \A r \in Replies : r # None
    BY NoneAssumption
  <2> QED
    BY <1>1, <2>1 DEF Forget
<1>4. \A q \in Replies : Elements(q)' = Elements(q)
  BY DEF Elements
<1>5. ASSUME NEW r \in Replies, NEW c \in cs, r = multibulk_reply[c]
      PROVE  IsHolder(Nobody, r)' /\ r \in heap'
  <2>1. /\ \A a \in Batches : r \notin ToSet(reply_queue[a])
        /\ \A q \in Replies : r \notin Elements(q)
        /\ \A d \in Connections \ {c} : r # multibulk_reply[d]
        /\ r \notin ToSet(freeReplies) /\ r # hand
        /\ r \in heap \ dropped
    BY <1>5, OpenReply
  <2>2. \A d \in Connections : r # multibulk_reply'[d]
    BY <1>2, <2>1, NoneAssumption
  <2>3. r \in dropped' /\ r \in heap'
    BY <1>3, <1>5, <2>1
  <2>4. \A q \in Replies : r \notin Elements(q)'
    BY <1>4, <2>1
  <2> QED
    BY <2>1, <2>2, <2>3, <2>4, HoldersDiffer DEF IsHolder
<1>6. ASSUME NEW r \in Replies, \A c \in cs : r # multibulk_reply[c]
      PROVE  SameHolder(r)
  <2>1. r # None /\ (r \in dropped' <=> r \in dropped)
    BY <1>3, <1>6, NoneAssumption
  <2>2. \A d \in Connections : r = multibulk_reply'[d] <=> r = multibulk_reply[d]
    BY <1>2, <1>6, <2>1
  <2> QED
    BY <1>4, <2>1, <2>2 DEF SameHolder
<1>7. dropped' \subseteq heap'
  <2>1. ASSUME NEW r \in dropped' PROVE r \in heap'
    <3>1. r \in Replies
      BY <1>3
    <3>2. r \in dropped => r \in heap
      BY <1>1 DEF HoldersOK
    <3> QED
      BY <1>3, <1>5, <3>1, <3>2
  <2> QED
    BY <2>1
<1>8. HoldersOK'
  <2>1. ASSUME NEW r \in Replies PROVE \E h : IsHolder(h, r)'
    <3>1. CASE \A c \in cs : r # multibulk_reply[c]
      BY <1>1, <1>6, <3>1, StaysHeld
    <3>2. CASE \E c \in cs : r = multibulk_reply[c]
      BY <1>5, <3>2
    <3> QED
      BY <3>1, <3>2
  <2> QED
    BY <1>7, <2>1, HoldersNext
<1>9. Flat'
  BY <1>1, <1>4 DEF Flat
<1> QED
  BY <1>2, <1>3, <1>8, <1>9

LEMMA ConnectionFreeNext ==
  ASSUME IInv, NEW c \in Connections, Connection_free(c)
  PROVE  IInv'
<1>1. TypeOK /\ HeldOnce /\ HoldersOK /\ BatchesOK /\ PairsOK /\ PhasesOK /\ OwnData
  BY DEF IInv
<1>2. /\ phase' = phase /\ freeBatches' = freeBatches
      /\ freeReplies' = freeReplies /\ held' = held /\ num_commands' = num_commands
      /\ reply_queue' = reply_queue /\ error' = error
      /\ reply' = reply /\ current_batch' = current_batch
      /\ freeing' = freeing /\ hand' = hand
  BY DEF Connection_free, batchVars, freeVars
<1>3. /\ c \in heap /\ heap' = heap \ {c} /\ allocated' = allocated - ConnectionBytes
      /\ phase = "open" /\ \A d \in Connections : current_batch[d] = None
      /\ Forget({c})
  BY DEF Connection_free, _Alloc_free, Free, Executing
<1>4. \A x \in Batches \cup Replies : x \in heap' <=> x \in heap
  BY <1>3, AddressAssumption
<1>5. IsFiniteSet(Errors) /\ IsFiniteSet(heap) /\ allocated = Bytes(heap, Errors)
  BY ErrorsAreBatches DEF IInv, Accounted, Bytes, Errors
<1>6. IsFiniteSet(heap') /\ allocated' = Bytes(heap', Errors)
  BY <1>3, <1>5, BytesOfLess
<1>7. Accounted' /\ allocated' \in Nat
  <2>1. Errors' = Errors
    BY <1>2 DEF Errors
  <2> QED
    BY <1>5, <1>6, <2>1, AccountedNext
<1>8. /\ HoldersOK' /\ Flat'
      /\ multibulk_reply' \in [Connections -> Replies \cup {None}]
      /\ multibulk_count' \in [Connections -> Nat]
      /\ dropped' \subseteq Replies
      /\ \A d \in {c} : multibulk_reply'[d] = None /\ multibulk_count'[d] = 0
      /\ \A d \in Connections \ {c} : /\ multibulk_reply'[d] = multibulk_reply[d]
                                      /\ multibulk_count'[d] = multibulk_count[d]
  BY <1>2, <1>3, <1>4, <1>6, RepliesForgotten
<1>9. HeldOnce' /\ BatchesOK'
  BY <1>1, <1>2, <1>4 DEF HeldOnce, BatchesOK
<1>10. PairsOK'
  <2>1. ASSUME NEW d \in Connections PROVE RunsOK(d)' /\ OpenOK(d)'
    BY <1>1, <1>2, <1>3, <1>8 DEF PairsOK, RunsOK, OpenOK
  <2> QED
    BY <1>1, <1>2, <2>1 DEF PairsOK
<1>11. PhasesOK'
  BY <1>1, <1>2, <1>3 DEF PhasesOK
<1>12. OwnData'
  <2>1. \A r \in held : r \in Batches
    BY <1>1 DEF TypeOK
  <2>2. \A b \in held : \A r \in ToSet(reply_queue[b]) : \A s \in {r} \cup Elements(r) :
           s \in Replies
    BY <1>1, <2>1, ListMembers DEF TypeOK, Elements
  <2> QED
    BY <1>1, <1>2, <1>4, <2>1, <2>2 DEF OwnData, Elements
<1>13. TypeOK'
  <2>1. heap' \subseteq Connections \cup Batches \cup Replies
    BY <1>1, <1>3 DEF TypeOK
  <2>2. error' \in [Batches -> BOOLEAN]
    BY <1>1, <1>2 DEF TypeOK
  <2> QED
    BY <1>1, <1>2, <1>7, <1>8, <2>1, <2>2 DEF TypeOK
<1> QED
  BY <1>7, <1>8, <1>9, <1>10, <1>11, <1>12, <1>13 DEF IInv

LEMMA ExecuteStartNext ==
  ASSUME IInv, NEW pairs \in Pairings, ExecuteStart(pairs)
  PROVE  IInv'
<1>1. TypeOK /\ HeldOnce /\ HoldersOK /\ BatchesOK /\ PairsOK /\ PhasesOK /\ OwnData
  BY DEF IInv
<1>2. /\ phase' = phase /\ heap' = heap /\ allocated' = allocated
      /\ freeBatches' = freeBatches /\ freeReplies' = freeReplies /\ held' = held
      /\ num_commands' = num_commands /\ reply_queue' = reply_queue /\ error' = error
      /\ reply' = reply /\ freeing' = freeing /\ hand' = hand
  BY DEF ExecuteStart, heapVars, batchVars, freeVars
<1>3. /\ DOMAIN pairs \in SUBSET Connections
      /\ \A c \in DOMAIN pairs : pairs[c] \in Batches /\ pairs[c] # None
  BY NoneAssumption DEF Pairings
<1>4. /\ phase = "open" /\ freeing = None /\ Forget(DOMAIN pairs)
      /\ \A c \in DOMAIN pairs : c \in heap /\ Fresh(pairs[c]) /\ num_commands[pairs[c]] > 0
      /\ \A c, d \in DOMAIN pairs : pairs[c] = pairs[d] => c = d
  BY DEF ExecuteStart, Free, IsInjective
<1>5. /\ current_batch' \in [Connections -> Batches \cup {None}]
      /\ \A c \in DOMAIN pairs : current_batch'[c] = pairs[c]
      /\ \A c \in Connections \ DOMAIN pairs : current_batch'[c] = None
  BY <1>3 DEF ExecuteStart
<1>6. /\ HoldersOK' /\ Flat'
      /\ multibulk_reply' \in [Connections -> Replies \cup {None}]
      /\ multibulk_count' \in [Connections -> Nat]
      /\ dropped' \subseteq Replies
      /\ \A c \in DOMAIN pairs : multibulk_reply'[c] = None /\ multibulk_count'[c] = 0
      /\ \A c \in Connections \ DOMAIN pairs :
            /\ multibulk_reply'[c] = multibulk_reply[c]
            /\ multibulk_count'[c] = multibulk_count[c]
  <2>1. IsFiniteSet(heap')
    BY <1>1, <1>2 DEF HoldersOK
  <2> QED
    BY <1>2, <1>3, <1>4, <2>1, RepliesForgotten
<1>7. HeldOnce' /\ BatchesOK' /\ PhasesOK'
  BY <1>1, <1>2 DEF HeldOnce, BatchesOK, PhasesOK
<1>8. PairsOK'
  <2>1. ASSUME NEW d \in Connections PROVE RunsOK(d)' /\ OpenOK(d)'
    <3>1. RunsOK(d) /\ OpenOK(d)
      BY <1>1 DEF PairsOK
    <3>2. CASE d \in DOMAIN pairs
      BY <1>2, <1>3, <1>4, <1>5, <1>6, <3>2 DEF RunsOK, OpenOK, Fresh
    <3>3. CASE d \notin DOMAIN pairs
      BY <1>2, <1>5, <1>6, <3>1, <3>3 DEF RunsOK, OpenOK
    <3> QED
      BY <3>2, <3>3
  <2>2. ASSUME NEW c \in Connections, NEW d \in Connections,
               current_batch'[c] = current_batch'[d], current_batch'[c] # None
        PROVE  c = d
    <3>1. c \in DOMAIN pairs /\ d \in DOMAIN pairs
      BY <1>5, <2>2
    <3> QED
      BY <1>4, <1>5, <2>2, <3>1
  <2> QED
    BY <2>1, <2>2 DEF PairsOK
<1>9. Accounted' /\ OwnData'
  BY <1>1, <1>2 DEF IInv, Accounted, OwnData, Elements
<1>10. TypeOK'
  <2>1. error' \in [Batches -> BOOLEAN] /\ reply' \in [Replies -> ReplyRecord]
    BY <1>1, <1>2 DEF TypeOK, ReplyRecord
  <2> QED
    BY <1>1, <1>2, <1>5, <1>6, <2>1 DEF TypeOK, ReplyRecord
<1> QED
  BY <1>6, <1>7, <1>8, <1>9, <1>10 DEF IInv

-----------------------------------------------------------------------------
(***************************************************************************)
(* The replies of Executor_execute.                                        *)
(***************************************************************************)

LEMMA ParseReplyNext ==
  ASSUME IInv, NEW c \in Connections, ParseReply(c)
  PROVE  IInv'
<1>1. PICK r \in Replies, buffer \in {None, <<current_batch[c], "read">>} :
         /\ Reply_list_alloc(r)
         /\ reply' = [reply EXCEPT ![r] = New("data", buffer)]
         /\ Batch_add_reply(c, r)
  BY DEF ParseReply
<1>2. /\ current_batch[c] # None
      /\ UNCHANGED <<phase, freeBatches, held, error, parserVars, freeVars, dropped>>
  BY DEF ParseReply, Running
<1>3. current_batch[c] \in Batches
  BY <1>2 DEF IInv, TypeOK
<1> DEFINE new == New("data", buffer)
<1>4. /\ new \in ReplyRecord /\ new.children = <<>> /\ new.buffer = buffer
  BY <1>3, EmptyList DEF New, ReplyRecord, Buffers
<1>5. reply' = [reply EXCEPT ![r] = new]
  BY <1>1
<1> HIDE DEF new
<1>6. None # <<current_batch[c], "error">>
  BY <1>3, NoneAssumption DEF Buffers
<1>7. /\ new.buffer \in {None, <<current_batch[c], "read">>, <<current_batch[c], "error">>}
      /\ new.buffer = <<current_batch[c], "error">> => error[current_batch[c]]
  BY <1>4, <1>6
<1> QED
  BY <1>1, <1>2, <1>4, <1>5, <1>7, AnswerNext

LEMMA AddErrorReplyNext ==
  ASSUME IInv, NEW c \in Connections, AddErrorReply(c)
  PROVE  IInv'
<1>1. PICK r \in Replies :
         /\ Reply_list_alloc(r)
         /\ reply' = [reply EXCEPT ![r] = New("error", <<current_batch[c], "error">>)]
         /\ Batch_add_reply(c, r)
  BY DEF AddErrorReply
<1>2. /\ current_batch[c] # None /\ error[current_batch[c]]
      /\ UNCHANGED <<phase, freeBatches, held, error, parserVars, freeVars, dropped>>
  BY DEF AddErrorReply, Aborting
<1>3. current_batch[c] \in Batches
  BY <1>2 DEF IInv, TypeOK
<1> DEFINE new == New("error", <<current_batch[c], "error">>)
<1>4. /\ new \in ReplyRecord /\ new.children = <<>>
      /\ new.buffer = <<current_batch[c], "error">>
  BY <1>3, EmptyList DEF New, ReplyRecord, Buffers
<1>5. reply' = [reply EXCEPT ![r] = new]
  BY <1>1
<1> HIDE DEF new
<1> QED
  BY <1>1, <1>2, <1>4, <1>5, AnswerNext

LEMMA OpenMultibulkNext ==
  ASSUME IInv, NEW c \in Connections, ParseMultibulk(c)
  PROVE  IInv'
<1>1. PICK r \in Replies, n \in 0..MaxCount :
         /\ Reply_list_alloc(r)
         /\ reply' = [reply EXCEPT ![r] = New("multibulk", None)]
         /\ multibulk_reply' = [multibulk_reply EXCEPT ![c] = r]
         /\ multibulk_count' = [multibulk_count EXCEPT ![c] = n]
  BY DEF ParseMultibulk
<1>2. /\ current_batch[c] # None /\ multibulk_reply[c] = None
      /\ UNCHANGED <<phase, freeBatches, held, batchVars, current_batch, freeVars, dropped>>
  BY DEF ParseMultibulk, Running
<1>3. n \in Nat
  OBVIOUS
<1> QED
  BY <1>1, <1>2, <1>3, ParseMultibulkNext

LEMMA EmptyMultibulkNext ==
  ASSUME IInv, NEW c \in Connections, ParseEmpty(c)
  PROVE  IInv'
<1>1. /\ current_batch[c] # None /\ multibulk_reply[c] # None /\ multibulk_count[c] = 0
      /\ Batch_add_reply(c, multibulk_reply[c])
      /\ multibulk_reply' = [multibulk_reply EXCEPT ![c] = None]
      /\ UNCHANGED <<phase, heapVars, freeBatches, freeReplies, held, error, reply,
                     multibulk_count, freeVars, dropped>>
  BY DEF ParseEmpty, Running
<1>2. multibulk_reply[c] \in Replies
  BY <1>1 DEF IInv, TypeOK
<1> QED
  BY <1>1, <1>2, ParseEmptyNext

LEMMA ParseElementNext ==
  ASSUME IInv, NEW c \in Connections, ParseElement(c)
  PROVE  IInv'
<1>1. PICK r \in Replies :
         /\ Reply_list_alloc(r)
         /\ reply' = [reply EXCEPT
                        ![r] = New("data", <<current_batch[c], "read">>),
                        ![multibulk_reply[c]].children = Append(@, r)]
  BY DEF ParseElement
<1>2. /\ current_batch[c] # None /\ multibulk_count[c] > 0
      /\ multibulk_count' = [multibulk_count EXCEPT ![c] = @ - 1]
      /\ IF multibulk_count[c] = 1
         THEN /\ Batch_add_reply(c, multibulk_reply[c])
              /\ multibulk_reply' = [multibulk_reply EXCEPT ![c] = None]
         ELSE UNCHANGED <<num_commands, reply_queue, current_batch, multibulk_reply>>
      /\ UNCHANGED <<phase, freeBatches, held, error, freeVars, dropped>>
  BY DEF ParseElement, Running
<1>3. /\ multibulk_reply[c] \in Replies /\ multibulk_count[c] \in Nat
      /\ current_batch[c] \in Batches
      /\ reply \in [Replies -> ReplyRecord]
  BY <1>2 DEF IInv, TypeOK, PairsOK, OpenOK, ReplyRecord
<1>4. multibulk_reply[c] # r
  BY <1>1, FreshReply
<1>5. /\ reply' = [s \in Replies |-> reply'[s]]
      /\ reply'[r] = New("data", <<current_batch[c], "read">>)
      /\ reply'[multibulk_reply[c]] =
            [reply[multibulk_reply[c]] EXCEPT !.children = Append(@, r)]
      /\ \A s \in Replies \ {r, multibulk_reply[c]} : reply'[s] = reply[s]
  BY <1>1, <1>3, <1>4
<1>6. PICK b \in Batches, m \in Replies, n \in Nat :
         b = current_batch[c] /\ m = multibulk_reply[c] /\ n = multibulk_count[c]
  BY <1>3
<1>7. b # None /\ n > 0
  BY <1>2, <1>6
<1>8. ElementStep(c, b, m, n, r)
  <2>1. /\ reply'[r] = New("data", <<b, "read">>)
        /\ reply'[m] = [reply[m] EXCEPT !.children = Append(@, r)]
        /\ \A s \in Replies \ {r, m} : reply'[s] = reply[s]
    BY <1>5, <1>6
  <2>2. IF n = 1
        THEN /\ Batch_add_reply(c, m)
             /\ multibulk_reply' = [multibulk_reply EXCEPT ![c] = None]
        ELSE UNCHANGED <<num_commands, reply_queue, current_batch, multibulk_reply>>
    BY <1>2, <1>6
  <2> QED
    BY <1>1, <1>2, <1>5, <1>6, <1>7, <2>1, <2>2 DEF ElementStep
<1> QED
  BY <1>8, ElementStepNext

-----------------------------------------------------------------------------
(***************************************************************************)
(* The invariant.                                                          *)
(***************************************************************************)

LEMMA InvInit == Init => IInv
<1> SUFFICES ASSUME Init PROVE IInv
  OBVIOUS
<1>1. /\ \A b \in Batches : ToSet(reply_queue[b]) = {} /\ reply_queue[b] = <<>>
      /\ \A m \in Replies : Elements(m) = {} /\ reply[m].children = <<>>
      /\ \A c \in Connections : multibulk_reply[c] = None /\ current_batch[c] = None
      /\ ToSet(freeReplies) = {} /\ ToSet(freeBatches) = {}
  BY EmptyList DEF Init, Blank, Elements
<1>2. TypeOK
  <2>1. Blank \in ReplyRecord
    BY EmptyList DEF Blank, ReplyRecord
  <2>2. reply \in [Replies -> ReplyRecord]
    BY <2>1 DEF Init
  <2> QED
    BY <2>2, EmptyList DEF Init, TypeOK, ReplyRecord
<1>3. HeldOnce
  BY <1>1, EmptyList DEF HeldOnce, Init
<1>4. HoldersOK
  <2>1. IsFiniteSet(heap) /\ heap = {} /\ dropped = {} /\ hand = None
    BY FS_EmptySet DEF Init
  <2>2. \A r \in Replies : HoldersOf(r) = {}
    BY <1>1, <2>1, NoneAssumption DEF HoldersOf
  <2> QED
    BY <2>1, <2>2 DEF HoldersOK
<1>5. Flat /\ OwnData
  BY <1>1 DEF Flat, OwnData, Init
<1>6. BatchesOK
  BY <1>1, NoneAssumption DEF BatchesOK, Init
<1>7. PairsOK
  BY <1>1 DEF PairsOK, RunsOK, OpenOK, Init
<1>8. PhasesOK
  BY DEF PhasesOK, Init
<1>9. Accounted
  <2>1. /\ heap \cap Batches = {} /\ heap \cap Replies = {} /\ heap \cap Connections = {}
        /\ {b \in Batches : error[b]} = {} /\ allocated = 0
    BY DEF Init
  <2>2. Cardinality({}) = 0
    BY FS_EmptySet
  <2>3. 0 * BatchBytes = 0 /\ 0 * ReplyBytes = 0 /\ 0 * ConnectionBytes = 0
        /\ 0 * ErrorBytes = 0
    BY BytesAssumption
  <2>4. /\ Cardinality(heap \cap Batches) * BatchBytes = 0
        /\ Cardinality(heap \cap Replies) * ReplyBytes = 0
        /\ Cardinality(heap \cap Connections) * ConnectionBytes = 0
        /\ Cardinality({b \in Batches : error[b]}) * ErrorBytes = 0
    BY <2>1, <2>2, <2>3
  <2> QED
    BY <2>1, <2>4 DEF Accounted
<1> QED
  BY <1>2, <1>3, <1>4, <1>5, <1>6, <1>7, <1>8, <1>9 DEF IInv

LEMMA InvNext == IInv /\ [Next]_vars => IInv'
<1> SUFFICES ASSUME IInv, [Next]_vars PROVE IInv'
  OBVIOUS
<1>1. ASSUME NEW b \in Batches, Batch_new(b) \/ Batch_write(b) \/ Batch_free(b)
      PROVE  IInv'
  BY <1>1, BatchNewNext, BatchWriteNext, BatchFreeNext
<1>2. ASSUME NEW c \in Connections, Connection_new(c) \/ Connection_free(c)
      PROVE  IInv'
  BY <1>2, ConnectionNewNext, ConnectionFreeNext
<1>3. ASSUME NEW pairs \in Pairings, ExecuteStart(pairs) PROVE IInv'
  BY <1>3, ExecuteStartNext
<1>4. ASSUME NEW c \in Connections,
             \/ ParseReply(c) \/ ParseMultibulk(c) \/ ParseEmpty(c) \/ ParseElement(c)
             \/ Batch_abort(c) \/ AddErrorReply(c)
      PROVE  IInv'
  BY <1>4, ParseReplyNext, OpenMultibulkNext, EmptyMultibulkNext, ParseElementNext,
     AbortNext, AddErrorReplyNext
<1>5. CASE PopReply
  <2>1. freeing \in Batches
    BY <1>5 DEF PopReply, IInv, TypeOK
  <2>2. Last(reply_queue[freeing]) \in Replies
    BY <1>5, <2>1, PopFromList DEF PopReply, IInv, TypeOK
  <2> QED
    BY <1>5, <2>1, <2>2, PopReplyNext
<1>6. CASE FreeChild
  <2>1. hand \in Replies
    BY <1>6 DEF FreeChild, IInv, TypeOK
  <2>2. Last(reply[hand].children) \in Replies
    BY <1>6, <2>1, PopFromList DEF FreeChild, IInv, TypeOK
  <2> QED
    BY <1>6, <2>1, <2>2, FreeChildNext
<1>7. CASE FreeReply
  <2>1. hand \in Replies
    BY <1>7 DEF FreeReply, IInv, TypeOK
  <2> QED
    BY <1>7, <2>1, FreeReplyNext
<1>8. CASE FreeBatch
  BY <1>8, FreeBatchNext
<1>9. CASE Module_free
  BY <1>9, ModuleFreeNext
<1>10. CASE Reply_free_final
  <2>1. Last(freeReplies) \in Replies
    BY <1>10, PopFromList DEF Reply_free_final, IInv, TypeOK
  <2> QED
    BY <1>10, <2>1, ReplyFreeFinalNext
<1>11. CASE Batch_free_final
  <2>1. Last(freeBatches) \in Batches
    BY <1>11, PopFromList DEF Batch_free_final, IInv, TypeOK
  <2> QED
    BY <1>11, <2>1, BatchFreeFinalNext
<1>12. CASE Closed
  BY <1>12, ClosedNext
<1>13. CASE UNCHANGED vars
  BY <1>13, StutterNext
<1> QED
  BY <1>1, <1>2, <1>3, <1>4, <1>5, <1>6, <1>7, <1>8, <1>9, <1>10, <1>11, <1>12, <1>13
  DEF Next

\* The inductive invariant, from which the others follow.
THEOREM Invariance == Spec => []IInv
<1>1. Init => IInv
  BY InvInit
<1>2. IInv /\ [Next]_vars => IInv'
  BY InvNext
<1> QED
  BY <1>1, <1>2, PTL DEF Spec

\* Module.allocated (alloc.h:20) is always the sum of the sizes of the objects
\* and error messages that exist, whatever is taken from and put on free lists.
THEOREM MemoryIsAccounted == Spec => []Accounted
<1>1. IInv => Accounted
  BY DEF IInv
<1> QED
  BY <1>1, Invariance, PTL

\* What a batch that the caller has was answered points only into that batch's
\* own buffers, for as long as the caller has it (redis.h:176).
THEOREM RepliesAreInTheirBatch == Spec => []OwnData
<1>1. IInv => OwnData
  BY DEF IInv
<1> QED
  BY <1>1, Invariance, PTL

\* Batch_new and Reply_new find nothing of the last use in what a free list
\* gives them.
THEOREM FreeListsHoldNothing == Spec => []FreeListsClean
<1>1. IInv => FreeListsClean
  <2> SUFFICES ASSUME IInv PROVE FreeListsClean
    OBVIOUS
  <2>1. TypeOK /\ HoldersOK /\ Flat /\ BatchesOK
    BY DEF IInv
  <2>2. ASSUME NEW b \in ToSet(freeBatches)
        PROVE  b \in heap /\ b \notin held /\ reply_queue[b] = <<>> /\ ~error[b]
    <3>1. b \in Batches
      BY <2>1, ListMembers DEF TypeOK
    <3> QED
      BY <2>1, <3>1 DEF BatchesOK
  <2>3. ASSUME NEW r \in ToSet(freeReplies)
        PROVE  r \in heap /\ reply[r].children = <<>>
    <3>1. r \in Replies
      BY <2>1, ListMembers DEF TypeOK
    <3>2. IsHolder(FreeList, r)
      BY <2>1, <3>1, HolderIs
    <3> QED
      BY <2>1, <3>1, <3>2, HoldersDiffer DEF IsHolder, Flat
  <2> QED
    BY <2>2, <2>3 DEF FreeListsClean
<1> QED
  BY <1>1, Invariance, PTL

-----------------------------------------------------------------------------
(***************************************************************************)
(* The single-threaded build loses nothing: the places of a reply, and     *)
(* what is left after Module_free.                                         *)
(***************************************************************************)

LEMMA InListOnce ==
  ASSUME NEW k, NEW s, NEW r
  PROVE  /\ r \notin ToSet(s) => InList(k, s, r) = {}
         /\ r \in ToSet(s) /\ IsInjective(s) => \E p : InList(k, s, r) = {p}
<1>1. ASSUME r \notin ToSet(s) PROVE InList(k, s, r) = {}
  BY <1>1 DEF InList, ToSet
<1>2. ASSUME r \in ToSet(s), IsInjective(s) PROVE \E p : InList(k, s, r) = {p}
  <2>1. PICK i \in DOMAIN s : s[i] = r
    BY <1>2 DEF ToSet
  <2>2. \A j \in DOMAIN s : s[j] = r => j = i
    BY <1>2, <2>1 DEF IsInjective
  <2>3. InList(k, s, r) = {<<k, i>>}
    BY <2>1, <2>2 DEF InList
  <2> QED
    BY <2>3
<1> QED
  BY <1>1, <1>2

LEMMA PlacesAre ==
  ASSUME NEW r \in Replies, NEW x
  PROVE  x \in Places(r) <=>
           \/ \E b \in Batches : x \in InList(b, reply_queue[b], r)
           \/ \E m \in Replies : x \in InList(m, reply[m].children, r)
           \/ \E c \in Connections : r = multibulk_reply[c] /\ x = <<c, 0>>
           \/ x \in InList(None, freeReplies, r)
           \/ r = hand /\ x = <<None, 0>>
<1>1. x \in Places(r) <=>
        \/ x \in InQueues(r) \/ x \in InMultibulks(r) \/ x \in InParsers(r)
        \/ x \in InList(None, freeReplies, r) \/ x \in InHand(r)
  BY DEF Places
<1>2. x \in InQueues(r) <=> \E b \in Batches : x \in InList(b, reply_queue[b], r)
  BY DEF InQueues
<1>3. x \in InMultibulks(r) <=> \E m \in Replies : x \in InList(m, reply[m].children, r)
  BY DEF InMultibulks
<1>4. x \in InParsers(r) <=> \E c \in Connections : r = multibulk_reply[c] /\ x = <<c, 0>>
  BY DEF InParsers
<1>5. x \in InHand(r) <=> r = hand /\ x = <<None, 0>>
  BY DEF InHand
<1> QED
  BY <1>1, <1>2, <1>3, <1>4, <1>5

\* A reply with a holder has one place, a reply without has none.
LEMMA OnePlace ==
  ASSUME HoldersOK, HeldOnce, NEW r \in Replies, NEW h, IsHolder(h, r)
  PROVE  /\ h = Nobody => Places(r) = {}
         /\ h # Nobody => \E p : Places(r) = {p}
<1>1. /\ \A b \in Batches : h # Queue(b) => InList(b, reply_queue[b], r) = {}
      /\ \A m \in Replies : h # Children(m) => InList(m, reply[m].children, r) = {}
      /\ h # FreeList => InList(None, freeReplies, r) = {}
      /\ \A c \in Connections : r = multibulk_reply[c] <=> h = Parser(c)
      /\ r = hand <=> h = Hand
  BY InListOnce DEF IsHolder, Elements
<1>2. CASE h = Nobody
  <2>1. \A x : x \notin Places(r)
    BY <1>1, <1>2, PlacesAre, HoldersDiffer
  <2> QED
    BY <1>2, <2>1
<1>3. ASSUME NEW b \in Batches, h = Queue(b) PROVE \E p : Places(r) = {p}
  <2>1. r \in ToSet(reply_queue[b]) /\ IsInjective(reply_queue[b])
    BY <1>3 DEF IsHolder, HeldOnce
  <2>2. PICK p : InList(b, reply_queue[b], r) = {p}
    BY <2>1, InListOnce
  <2>3. /\ \A a \in Batches : a # b => InList(a, reply_queue[a], r) = {}
        /\ \A m \in Replies : InList(m, reply[m].children, r) = {}
        /\ InList(None, freeReplies, r) = {}
        /\ \A c \in Connections : r # multibulk_reply[c]
        /\ r # hand
    BY <1>1, <1>3, HoldersDiffer
  <2>5. ASSUME NEW x PROVE x \in Places(r) <=> x = p
    <3>1. x \in Places(r) <=> x \in InList(b, reply_queue[b], r)
      BY <2>3, PlacesAre
    <3> QED
      BY <2>2, <3>1
  <2>6. Places(r) = {p}
    BY <2>5
  <2> QED
    BY <2>6
<1>4. ASSUME NEW m \in Replies, h = Children(m) PROVE \E p : Places(r) = {p}
  <2>1. r \in ToSet(reply[m].children) /\ IsInjective(reply[m].children)
    BY <1>4 DEF IsHolder, HeldOnce, Elements
  <2>2. PICK p : InList(m, reply[m].children, r) = {p}
    BY <2>1, InListOnce
  <2>3. /\ \A b \in Batches : InList(b, reply_queue[b], r) = {}
        /\ \A q \in Replies : q # m => InList(q, reply[q].children, r) = {}
        /\ InList(None, freeReplies, r) = {}
        /\ \A c \in Connections : r # multibulk_reply[c]
        /\ r # hand
    BY <1>1, <1>4, HoldersDiffer
  <2>5. ASSUME NEW x PROVE x \in Places(r) <=> x = p
    <3>1. x \in Places(r) <=> x \in InList(m, reply[m].children, r)
      BY <2>3, PlacesAre
    <3> QED
      BY <2>2, <3>1
  <2>6. Places(r) = {p}
    BY <2>5
  <2> QED
    BY <2>6
<1>5. ASSUME NEW c \in Connections, h = Parser(c) PROVE \E p : Places(r) = {p}
  <2>0. /\ \A b \in Batches : InList(b, reply_queue[b], r) = {}
        /\ \A m \in Replies : InList(m, reply[m].children, r) = {}
        /\ InList(None, freeReplies, r) = {}
        /\ \A d \in Connections : r = multibulk_reply[d] <=> d = c
        /\ r # hand
    BY <1>1, <1>5, HoldersDiffer
  <2>1. ASSUME NEW x PROVE x \in Places(r) <=> x = <<c, 0>>
    BY <2>0, PlacesAre
  <2>2. Places(r) = {<<c, 0>>}
    BY <2>1
  <2> QED
    BY <2>2
<1>6. ASSUME h = FreeList PROVE \E p : Places(r) = {p}
  <2>1. r \in ToSet(freeReplies) /\ IsInjective(freeReplies)
    BY <1>6 DEF IsHolder, HeldOnce
  <2>2. PICK p : InList(None, freeReplies, r) = {p}
    BY <2>1, InListOnce
  <2>3. /\ \A b \in Batches : InList(b, reply_queue[b], r) = {}
        /\ \A m \in Replies : InList(m, reply[m].children, r) = {}
        /\ \A c \in Connections : r # multibulk_reply[c]
        /\ r # hand
    BY <1>1, <1>6, HoldersDiffer
  <2>5. ASSUME NEW x PROVE x \in Places(r) <=> x = p
    <3>1. x \in Places(r) <=> x \in InList(None, freeReplies, r)
      BY <2>3, PlacesAre
    <3> QED
      BY <2>2, <3>1
  <2>6. Places(r) = {p}
    BY <2>5
  <2> QED
    BY <2>6
<1>7. ASSUME h = Hand PROVE \E p : Places(r) = {p}
  <2>0. /\ \A b \in Batches : InList(b, reply_queue[b], r) = {}
        /\ \A m \in Replies : InList(m, reply[m].children, r) = {}
        /\ InList(None, freeReplies, r) = {}
        /\ \A d \in Connections : r # multibulk_reply[d]
        /\ r = hand
    BY <1>1, <1>7, HoldersDiffer
  <2>1. ASSUME NEW x PROVE x \in Places(r) <=> x = <<None, 0>>
    BY <2>0, PlacesAre
  <2>2. Places(r) = {<<None, 0>>}
    BY <2>1
  <2> QED
    BY <2>2
<1>8. h = Nobody \/ h \in {FreeList, Hand} \/ (\E b \in Batches : h = Queue(b))
      \/ (\E m \in Replies : h = Children(m)) \/ (\E c \in Connections : h = Parser(c))
  BY DEF IsHolder
<1>9. h # Nobody => \E p : Places(r) = {p}
  BY <1>3, <1>4, <1>5, <1>6, <1>7, <1>8
<1> QED
  BY <1>2, <1>9

\* In the single-threaded build every allocated reply can be freed from exactly
\* one place, except what the parsers forget (parser.c:41).
THEOREM EveryReplyHasOneOwner ==
  ASSUME SINGLETHREADED
  PROVE  Spec => []OneOwner
<1>1. IInv => OneOwner
  <2> SUFFICES ASSUME IInv, NEW r \in Replies
               PROVE  Cardinality(Places(r)) = IF r \in heap \ dropped THEN 1 ELSE 0
    BY DEF OneOwner
  <2>1. HoldersOK /\ HeldOnce
    BY DEF IInv
  <2>2. PICK h : IsHolder(h, r)
    BY <2>1, HolderExists
  <2>3. h # Nobody <=> r \in heap \ dropped
    BY <2>2 DEF IsHolder
  <2>4. CASE h = Nobody
    <3>1. Places(r) = {}
      BY <2>1, <2>2, <2>4, OnePlace
    <3> QED
      BY <2>3, <2>4, <3>1, FS_EmptySet
  <2>5. CASE h # Nobody
    <3>1. PICK p : Places(r) = {p}
      BY <2>1, <2>2, <2>5, OnePlace
    <3>2. Cardinality({p}) = 1
      BY FS_Singleton
    <3> QED
      BY <2>3, <2>5, <3>1, <3>2
  <2> QED
    BY <2>4, <2>5
<1> QED
  BY <1>1, Invariance, PTL

\* In the single-threaded build nothing but the replies that parsers forgot is
\* left after Module_free (redis.h:94).
THEOREM EverythingIsReleased ==
  ASSUME SINGLETHREADED
  PROVE  Spec => []ReleasesAll
<1>1. IInv => ReleasesAll
  <2> SUFFICES ASSUME IInv, phase = "closed"
               PROVE  heap = dropped \cup UNION {Elements(m) : m \in dropped}
    BY DEF ReleasesAll
  <2>1. TypeOK /\ HoldersOK /\ Flat /\ BatchesOK /\ PairsOK /\ PhasesOK
    BY DEF IInv
  <2>2. /\ held = {} /\ heap \cap Connections = {} /\ hand = None
        /\ freeing = None /\ freeBatches = <<>> /\ freeReplies = <<>>
        /\ \A b \in Batches : reply_queue[b] = <<>>
    BY <2>1 DEF PhasesOK
  <2>3. heap \subseteq Replies /\ dropped \subseteq heap
    <3>1. \A b \in Batches : b \notin heap
      BY <2>1, <2>2, EmptyList, NoneAssumption DEF BatchesOK
    <3> QED
      BY <2>1, <2>2, <3>1 DEF TypeOK, HoldersOK
  <2>4. ASSUME NEW r \in heap \ dropped PROVE \E m \in Replies : r \in Elements(m)
    <3>1. PICK h : IsHolder(h, r)
      BY <2>1, <2>3, HolderExists
    <3>2. h # Nobody
      BY <3>1 DEF IsHolder
    <3>3. /\ \A b \in Batches : h # Queue(b)
          /\ h # FreeList
      BY <2>2, <3>1, EmptyList DEF IsHolder
    <3>4. h # Hand
      <4>1. r # hand
        BY <2>2, <2>3, NoneAssumption
      <4> QED
        BY <3>1, <4>1 DEF IsHolder
    <3>5. \A c \in Connections : h # Parser(c)
      <4>1. \A c \in Connections : multibulk_reply[c] = None
        BY <2>1, <2>2 DEF PairsOK, OpenOK
      <4>2. r # None
        BY <2>3, NoneAssumption
      <4> QED
        BY <3>1, <4>1, <4>2 DEF IsHolder
    <3> QED
      BY <3>1, <3>2, <3>3, <3>4, <3>5 DEF IsHolder
  <2>5. ASSUME NEW r \in heap \ dropped PROVE \E m \in dropped : r \in Elements(m)
    <3>1. PICK m \in Replies : r \in Elements(m)
      BY <2>4
    <3>2. reply[m].children # <<>>
      BY <3>1, EmptyList DEF Elements
    <3>3. m \in heap /\ \A q \in Replies : m \notin Elements(q)
      BY <2>1, <3>2 DEF Flat
    <3> QED
      BY <2>4, <3>1, <3>3
  <2>6. ASSUME NEW m \in dropped, NEW r \in Elements(m) PROVE r \in heap
    <3>1. m \in Replies /\ r \in Replies
      BY <2>1, ListMembers DEF TypeOK, Elements
    <3>2. IsHolder(Children(m), r)
      BY <2>1, <3>1, HolderIs
    <3> QED
      BY <3>2, HoldersDiffer DEF IsHolder
  <2> QED
    BY <2>3, <2>5, <2>6
<1> QED
  BY <1>1, Invariance, PTL

=============================================================================
