-------------------------- MODULE BatchReplyProofs --------------------------
(***************************************************************************)
(* The stack of Batch_next_reply always points into the lists it is meant  *)
(* for, whatever the replies are and whenever commands are added; and the  *)
(* iterator is a cursor over the replies of a batch that was executed.     *)
(***************************************************************************)
EXTENDS BatchReplies, TLAPS

LEMMA NodeAtType ==
  ASSUME NEW l \in Nat, NEW a \in Nat
  PROVE  /\ NodeAt(l, a) \in Node
         /\ NodeAt(l, a).list = l /\ NodeAt(l, a).at = a
BY DEF NodeAt, Node

LEMMA ListLenType ==
  ASSUME TypeOK, NEW l \in 0..Len(reply_queue)
  PROVE  ListLen(l) \in Nat
BY DEF TypeOK, ListLen, Replies

LEMMA NextNodeType ==
  ASSUME TypeOK, NEW n \in Node, n.list \in 0..Len(reply_queue),
         n.at <= ListLen(n.list)
  PROVE  /\ NextNode(n) \in Node
         /\ NextNode(n).list = n.list
         /\ NextNode(n).at <= ListLen(n.list)
         /\ NextNode(n).at \in {0, n.at + 1}
<1>1. ListLen(n.list) \in Nat
  BY ListLenType
<1>2. n.at \in Nat /\ n.list \in Nat
  BY DEF Node
<1> DEFINE a == IF n.at = ListLen(n.list) THEN 0 ELSE n.at + 1
<1>3. a \in Nat /\ a <= ListLen(n.list) /\ a \in {0, n.at + 1}
  BY <1>1, <1>2
<1>4. NextNode(n) = NodeAt(n.list, a)
  BY DEF NextNode
<1> HIDE DEF a
<1> QED
  BY <1>2, <1>3, <1>4, NodeAtType

LEMMA NodesWithEqualFields ==
  ASSUME NEW m \in Node, NEW n \in Node, m.list = n.list, m.at = n.at
  PROVE  m = n
BY DEF Node

\* Where the call looks, and that it finds a reply there unless it is done.
LEMMA CurrentFacts ==
  ASSUME StackInv
  PROVE  /\ sp \in {0, 2} /\ sp <= current_reply_sp
         /\ Advanced \in Node /\ Current \in Node
         /\ Advanced.list = current_reply[current_reply_sp].list
         /\ Advanced.list \in 0..Len(reply_queue)
         /\ Advanced.at <= ListLen(Advanced.list)
         /\ Current.list = current_reply[sp].list
         /\ Current.list \in 0..Len(reply_queue)
         /\ sp = 0 <=> Current.list = 0
         /\ EntriesAreReplies
         /\ sp = 0 /\ current_reply_sp = 2 => Current = current_reply[0]
         /\ sp = 2 => current_reply_sp = 2 /\ Current = Advanced
         /\ sp = 0 /\ current_reply_sp = 0 => Current = Advanced
<1>1. /\ current_reply \in [0..3 -> Node] /\ current_reply_sp \in {0, 2}
      /\ Len(reply_queue) \in Nat
  BY DEF StackInv, TypeOK, StackSize
<1>2. /\ current_reply[0] \in Node /\ current_reply[2] \in Node
      /\ current_reply[3] \in Node /\ current_reply[1] = NodeAt(0, 0)
      /\ current_reply[0].list = 0
      /\ current_reply[0].at \in 0..Len(reply_queue)
  BY <1>1 DEF StackInv, IteratorInv, Node
<1>3. ListLen(0) = Len(reply_queue)
  BY DEF ListLen
<1>4. CASE current_reply_sp = 0
  <2>1. ~Pops /\ sp = 0 /\ Current = Advanced /\ Advanced = NextNode(current_reply[0])
    BY <1>4 DEF Pops, sp, Current, Advanced
  <2>2. /\ Advanced \in Node /\ Advanced.list = 0
        /\ Advanced.at <= Len(reply_queue) /\ Advanced.at \in Nat
    BY <1>1, <1>2, <1>3, <2>1, NextNodeType DEF StackInv, Node
  <2>3. Advanced.at = 0 => NoMoreReplies
    <3>1. NodeAt(0, 0) \in Node /\ NodeAt(0, 0).list = 0 /\ NodeAt(0, 0).at = 0
      BY NodeAtType
    <3> QED
      BY <1>2, <2>1, <2>2, <3>1, NodesWithEqualFields DEF NoMoreReplies
  <2> QED
    BY <1>1, <1>2, <1>3, <1>4, <2>1, <2>2, <2>3 DEF EntriesAreReplies
<1>5. CASE current_reply_sp = 2
  <2> DEFINE h == current_reply[3].list
  <2>1. /\ current_reply[3].at = 0 /\ h \in 1..Len(reply_queue)
        /\ current_reply[2].list = h /\ current_reply[2].at <= ListLen(h)
    BY <1>5 DEF StackInv, IteratorInv
  <2>2. /\ Advanced = NextNode(current_reply[2]) /\ Advanced \in Node
        /\ Advanced.list = h /\ Advanced.at <= ListLen(h) /\ Advanced.at \in Nat
    BY <1>1, <1>2, <1>5, <2>1, NextNodeType DEF StackInv, Advanced, Node
  <2>3. CASE Pops
    <3>1. sp = 0 /\ Current = current_reply[0]
      BY <1>5, <2>3 DEF sp, Current
    <3>2. current_reply[0].at = 0 => NoMoreReplies
      <4>1. NodeAt(0, 0) \in Node /\ NodeAt(0, 0).list = 0 /\ NodeAt(0, 0).at = 0
        BY NodeAtType
      <4> QED
        BY <1>2, <3>1, <4>1, NodesWithEqualFields DEF NoMoreReplies
    <3> QED
      BY <1>1, <1>2, <1>3, <1>5, <2>1, <2>2, <3>1, <3>2 DEF EntriesAreReplies
  <2>4. CASE ~Pops
    <3>1. sp = 2 /\ Current = Advanced
      BY <1>5, <2>4 DEF sp, Current
    <3>2. Advanced # current_reply[3]
      BY <1>5, <2>4 DEF Pops
    <3>3. Advanced.at # 0
      BY <1>2, <2>1, <2>2, <3>2, NodesWithEqualFields
    <3> QED
      BY <1>1, <1>2, <1>5, <2>1, <2>2, <3>1, <3>3 DEF EntriesAreReplies
  <2> QED
    BY <2>3, <2>4
<1> QED
  BY <1>1, <1>4, <1>5

LEMMA InitStack == Init => StackInv
<1> SUFFICES ASSUME Init PROVE StackInv
  OBVIOUS
<1>1. NodeAt(0, 0) \in Node /\ NodeAt(0, 0).list = 0 /\ NodeAt(0, 0).at = 0
  BY NodeAtType
<1>2. TypeOK
  <2>1. error \in BOOLEAN
    BY DEF Init
  <2>2. /\ reply_queue \in Seq(Replies) /\ reply \in Node
        /\ current_reply \in [0..2 * StackSize - 1 -> Node]
    BY <1>1 DEF Init
  <2> QED
    BY <2>1, <2>2 DEF Init, TypeOK, StackSize
<1>3. /\ current_reply[0] = NodeAt(0, 0) /\ current_reply[1] = NodeAt(0, 0)
      /\ current_reply_sp = 0 /\ Len(reply_queue) = 0
  BY DEF Init, StackSize
<1>4. IteratorInv
  BY <1>1, <1>3 DEF IteratorInv
<1> QED
  BY <1>2, <1>4 DEF StackInv

\* More replies at the end of the queue leave the iterator where it was.
LEMMA GrowingKeeps ==
  ASSUME StackInv, UNCHANGED <<iteratorVars, level, reply>>,
         num_commands' \in Nat, error' \in BOOLEAN,
         NEW more \in Seq(Replies), reply_queue' = reply_queue \o more
  PROVE  StackInv'
<1>1. /\ reply_queue \in Seq(Replies) /\ reply_queue' \in Seq(Replies)
      /\ Len(reply_queue) \in Nat /\ Len(reply_queue') \in Nat
      /\ Len(reply_queue) <= Len(reply_queue')
      /\ \A i \in 1..Len(reply_queue) : reply_queue'[i] = reply_queue[i]
  BY DEF StackInv, TypeOK
<1>2. TypeOK'
  BY <1>1 DEF StackInv, TypeOK, iteratorVars
<1>3. current_reply[0].at \in Nat
  BY DEF StackInv, TypeOK, StackSize, Node
<1>4. /\ current_reply'[0].list = 0
      /\ current_reply'[0].at <= Len(reply_queue')
      /\ current_reply'[1] = NodeAt(0, 0)
  BY <1>1, <1>3 DEF StackInv, IteratorInv, iteratorVars
<1>5. ASSUME current_reply_sp = 2
      PROVE  LET head == current_reply[3]
             IN /\ head.at = 0
                /\ head.list \in 1..Len(reply_queue')
                /\ reply_queue'[head.list].type = "MULTIBULK"
                /\ current_reply[2].list = head.list
                /\ current_reply[2].at <= ListLen(head.list)'
                /\ current_reply[0].at \in {0, head.list + 1}
  <2> DEFINE head == current_reply[3]
  <2>1. /\ head.at = 0 /\ head.list \in 1..Len(reply_queue)
        /\ reply_queue[head.list].type = "MULTIBULK"
        /\ current_reply[2].list = head.list
        /\ current_reply[2].at <= ListLen(head.list)
        /\ current_reply[0].at \in {0, head.list + 1}
    BY <1>5 DEF StackInv, IteratorInv
  <2>2. ListLen(head.list)' = ListLen(head.list)
    BY <1>1, <2>1 DEF ListLen, iteratorVars
  <2> QED
    BY <1>1, <2>1, <2>2
<1>6. IteratorInv'
  BY <1>4, <1>5 DEF IteratorInv, iteratorVars
<1> QED
  BY <1>2, <1>6 DEF StackInv

LEMMA WriteKeeps == StackInv /\ Batch_write => StackInv'
<1> SUFFICES ASSUME StackInv, Batch_write PROVE StackInv'
  OBVIOUS
<1>1. /\ reply_queue' = reply_queue \o <<>> /\ <<>> \in Seq(Replies)
      /\ num_commands' \in Nat /\ error' \in BOOLEAN
      /\ UNCHANGED <<iteratorVars, level, reply>>
  BY DEF Batch_write, StackInv, TypeOK
<1> QED
  BY <1>1, GrowingKeeps

LEMMA AddReplyKeeps ==
  ASSUME StackInv, NEW type \in ReplyTypes, NEW n \in 0..MaxChildren,
         NEW children \in [1..n -> ElementTypes], Batch_add_reply(type, children)
  PROVE  StackInv'
<1> DEFINE r == [type |-> type, children |-> children]
<1>1. n \in Nat
  BY BoundsAssumption
<1>2. children \in Seq(ElementTypes)
  BY <1>1
<1>3. r \in Replies
  BY <1>2 DEF Replies
<1>4. reply_queue \in Seq(Replies) /\ reply_queue' = Append(reply_queue, r)
  BY DEF StackInv, TypeOK, Batch_add_reply
<1> HIDE DEF r
<1>5. reply_queue' = reply_queue \o <<r>> /\ <<r>> \in Seq(Replies)
  BY <1>3, <1>4
<1>6. /\ num_commands' \in Nat /\ error' \in BOOLEAN
      /\ UNCHANGED <<iteratorVars, level, reply>>
  BY DEF Batch_add_reply, StackInv, TypeOK
<1> QED
  BY <1>5, <1>6, GrowingKeeps

LEMMA AbortKeeps == StackInv /\ Batch_abort => StackInv'
<1> SUFFICES ASSUME StackInv, Batch_abort PROVE StackInv'
  OBVIOUS
<1> DEFINE more == [i \in 1..num_commands |-> [type |-> "ERROR", children |-> <<>>]]
<1>1. [type |-> "ERROR", children |-> <<>>] \in Replies
  BY DEF Replies, ReplyTypes
<1>2. num_commands \in Nat
  BY DEF StackInv, TypeOK
<1>3. more \in Seq(Replies) /\ reply_queue' = reply_queue \o more
  BY <1>1, <1>2 DEF Batch_abort
<1>4. /\ num_commands' \in Nat /\ error' \in BOOLEAN
      /\ UNCHANGED <<iteratorVars, level, reply>>
  BY DEF Batch_abort
<1> HIDE DEF more
<1> QED
  BY <1>3, <1>4, GrowingKeeps

LEMMA RenewKeeps == StackInv /\ Batch_renew => StackInv'
<1> SUFFICES ASSUME StackInv, Batch_renew PROVE StackInv'
  OBVIOUS
<1>1. NodeAt(0, 0) \in Node /\ NodeAt(0, 0).list = 0 /\ NodeAt(0, 0).at = 0
  BY NodeAtType
<1>2. /\ current_reply' \in [0..3 -> Node]
      /\ current_reply'[0] = NodeAt(0, 0) /\ current_reply'[1] = NodeAt(0, 0)
  BY <1>1 DEF Batch_renew, StackInv, TypeOK, StackSize
<1>3. TypeOK'
  <2>1. /\ reply_queue' = <<>> /\ error' = FALSE /\ num_commands' = 0
        /\ current_reply_sp' = 0 /\ level' = 0 /\ reply' = NodeAt(0, 0)
    BY DEF Batch_renew
  <2>2. reply_queue' \in Seq(Replies)
    BY <2>1
  <2>3. error' \in BOOLEAN
    BY <2>1
  <2> QED
    BY <1>1, <1>2, <2>1, <2>2, <2>3 DEF TypeOK, StackSize
<1>4. IteratorInv'
  BY <1>1, <1>2 DEF Batch_renew, IteratorInv
<1> QED
  BY <1>3, <1>4 DEF StackInv

\* NextIsEnd and NextIsSimple: what was stored, and perhaps a pop.
LEMMA StoringKeeps ==
  ASSUME StackInv, UNCHANGED batchVars, current_reply' = Stored,
         current_reply_sp' = sp, level' \in 0..StackSize, reply' \in Node
  PROVE  StackInv'
<1>1. /\ current_reply \in [0..3 -> Node] /\ current_reply_sp \in {0, 2}
      /\ sp \in {0, 2} /\ Advanced \in Node
      /\ Advanced.list = current_reply[current_reply_sp].list
      /\ Advanced.at <= ListLen(Advanced.list)
  BY CurrentFacts DEF StackInv, TypeOK, StackSize
<1>2. current_reply' \in [0..3 -> Node]
  BY <1>1 DEF Stored
<1>3. TypeOK'
  BY <1>1, <1>2 DEF StackInv, TypeOK, StackSize, batchVars
<1>4. \A l : ListLen(l)' = ListLen(l)
  BY DEF ListLen, batchVars
<1>5. CASE current_reply_sp = 0
  <2>1. /\ sp = 0 /\ current_reply'[0] = Advanced
        /\ current_reply'[1] = current_reply[1]
        /\ Advanced.list = 0 /\ Advanced.at <= Len(reply_queue)
    BY <1>1, <1>5 DEF Stored, sp, Pops, StackInv, IteratorInv, ListLen
  <2>2. IteratorInv'
    BY <2>1 DEF StackInv, IteratorInv, batchVars
  <2> QED
    BY <1>3, <2>2 DEF StackInv
<1>6. CASE current_reply_sp = 2
  <2>1. /\ current_reply'[0] = current_reply[0]
        /\ current_reply'[1] = current_reply[1]
        /\ current_reply'[2] = Advanced
        /\ current_reply'[3] = current_reply[3]
        /\ Advanced.list = current_reply[2].list
    BY <1>1, <1>6 DEF Stored
  <2>2. IteratorInv'
    BY <1>1, <1>4, <1>6, <2>1 DEF StackInv, IteratorInv, batchVars
  <2> QED
    BY <1>3, <2>2 DEF StackInv
<1> QED
  BY <1>1, <1>5, <1>6

LEMMA NextReplyKeeps == StackInv /\ Batch_next_reply => StackInv'
<1> SUFFICES ASSUME StackInv, Batch_next_reply PROVE StackInv'
  OBVIOUS
<1>1. /\ sp \in {0, 2} /\ Current \in Node /\ Advanced \in Node
      /\ Current.list = current_reply[sp].list
      /\ Current.list \in 0..Len(reply_queue)
      /\ sp = 0 <=> Current.list = 0
      /\ EntriesAreReplies
  BY CurrentFacts
<1>2. sp \div 2 + 1 \in 0..StackSize
  BY <1>1 DEF StackSize
<1>3. CASE NextIsEnd
  <2>1. NodeAt(0, 0) \in Node /\ 0 \in 0..StackSize
    BY NodeAtType DEF StackSize
  <2> QED
    BY <1>3, <2>1, StoringKeeps DEF NextIsEnd
<1>4. CASE NextIsSimple
  BY <1>1, <1>2, <1>4, StoringKeeps DEF NextIsSimple
<1>5. CASE NextIsMultibulk
  <2>1. /\ ~NoMoreReplies /\ TypeAt(Current) = "MULTIBULK"
        /\ UNCHANGED batchVars
    BY <1>5 DEF NextIsMultibulk
  <2>2. Current.at \in 1..ListLen(Current.list)
    BY <1>1, <2>1 DEF EntriesAreReplies
  \* An element is no multibulk reply, so the call is at the top level.
  <2>3. sp = 0 /\ Current.list = 0
    <3>1. CASE Current.list # 0
      <4>1. Current.list \in 1..Len(reply_queue) /\ Len(reply_queue) \in Nat
        BY <1>1, <3>1 DEF StackInv, TypeOK
      <4>2. reply_queue[Current.list].children \in Seq(ElementTypes)
        <5>1. reply_queue[Current.list] \in Replies
          BY <4>1 DEF StackInv, TypeOK
        <5> QED
          BY <5>1 DEF Replies
      <4>3. TypeAt(Current) \in ElementTypes
        BY <2>2, <3>1, <4>2 DEF TypeAt, ListLen
      <4> QED
        BY <2>1, <4>3 DEF ElementTypes
    <3> QED
      BY <1>1, <3>1
  <2> DEFINE children == NodeAt(Current.at, 0)
  <2>4. /\ Current.at \in 1..Len(reply_queue) /\ Current.at \in Nat
        /\ reply_queue[Current.at].type = "MULTIBULK"
    BY <2>1, <2>2, <2>3 DEF ListLen, TypeAt, Node
  <2>5. /\ children \in Node /\ children.list = Current.at /\ children.at = 0
    BY <2>4, NodeAtType
  <2>6. /\ NextNode(Current) \in Node /\ NextNode(Current).list = 0
        /\ NextNode(Current).at <= Len(reply_queue)
        /\ NextNode(Current).at \in {0, Current.at + 1}
    BY <1>1, <2>2, <2>3, <2>4, NextNodeType DEF StackInv, ListLen
  <2>7. Stored \in [0..3 -> Node] /\ Stored[1] = current_reply[1]
    BY <1>1 DEF StackInv, TypeOK, StackSize, Stored
  <2> HIDE DEF children
  <2>8. /\ current_reply' = [Stored EXCEPT ![0] = NextNode(Current),
                                           ![2] = children, ![3] = children]
        /\ current_reply_sp' = 2 /\ level' = 1 /\ reply' = Current
    BY <1>5, <2>3 DEF NextIsMultibulk, children
  <2>9. /\ current_reply' \in [0..3 -> Node]
        /\ current_reply'[0] = NextNode(Current)
        /\ current_reply'[1] = NodeAt(0, 0)
        /\ current_reply'[2] = children /\ current_reply'[3] = children
    BY <2>5, <2>6, <2>7, <2>8 DEF StackInv, IteratorInv
  <2>10. TypeOK'
    BY <1>1, <2>1, <2>8, <2>9 DEF StackInv, TypeOK, StackSize, batchVars
  <2>11. 0 <= ListLen(current_reply[3].list)'
    <3>1. reply_queue' = reply_queue /\ current_reply'[3].list = Current.at
      BY <2>1, <2>5, <2>9 DEF batchVars
    <3>2. Len(reply_queue[Current.at].children) \in Nat
      <4>1. reply_queue[Current.at] \in Replies
        BY <2>4 DEF StackInv, TypeOK
      <4> QED
        BY <4>1 DEF Replies
    <3> QED
      BY <2>4, <3>1, <3>2 DEF ListLen
  <2>12. IteratorInv'
    <3>1. reply_queue' = reply_queue
      BY <2>1 DEF batchVars
    <3>2. /\ current_reply'[3].at = 0 /\ current_reply'[2].at = 0
          /\ current_reply'[3].list = Current.at
          /\ current_reply'[2].list = Current.at
          /\ current_reply'[0].at \in {0, current_reply'[3].list + 1}
      BY <2>5, <2>6, <2>9
    <3> QED
      BY <2>4, <2>6, <2>9, <2>11, <3>1, <3>2 DEF IteratorInv
  <2> QED
    BY <2>10, <2>12 DEF StackInv
<1> QED
  BY <1>3, <1>4, <1>5 DEF Batch_next_reply

LEMMA NextStack == StackInv /\ [Next]_vars => StackInv'
<1> SUFFICES ASSUME StackInv, [Next]_vars PROVE StackInv'
  OBVIOUS
<1>1. CASE UNCHANGED vars
  <2>1. reply_queue' = reply_queue \o <<>> /\ <<>> \in Seq(Replies)
    BY <1>1 DEF vars, batchVars, StackInv, TypeOK
  <2> QED
    BY <1>1, <2>1, GrowingKeeps DEF vars, batchVars, StackInv, TypeOK
<1> QED
  BY <1>1, WriteKeeps, AddReplyKeeps, AbortKeeps, RenewKeeps, NextReplyKeeps
     DEF Next

-----------------------------------------------------------------------------
(***************************************************************************)
(* Where the iterator stands in a round, and where it goes.                *)
(***************************************************************************)

\* The number of entries that follow the reply i before the next reply.
ElementsOf(i) == IF i = 0 THEN 0 ELSE Len(reply_queue[i].children)

LEMMA ElementsOfType ==
  ASSUME TypeOK, NEW i \in 0..Len(reply_queue)
  PROVE  /\ ElementsOf(i) \in Nat
         /\ i # 0 => ElementsOf(i) = ListLen(i)
<1>1. i # 0 => reply_queue[i] \in Replies
  BY DEF TypeOK
<1> QED
  BY <1>1 DEF ElementsOf, ListLen, Replies

\* The next node of the queue's node i.
LEMMA NextOfQueue ==
  ASSUME TypeOK, NEW i \in 0..Len(reply_queue)
  PROVE  NextNode(NodeAt(0, i)) =
            NodeAt(0, IF i = Len(reply_queue) THEN 0 ELSE i + 1)
<1>1. i \in Nat /\ 0 \in Nat
  BY DEF TypeOK
<1> QED
  BY <1>1, NodeAtType DEF NextNode, ListLen

\* Behind a simple reply, or the last element of a multibulk one, the call looks
\* at the next reply of the queue; otherwise at the next element.
LEMMA WhereItLooks ==
  ASSUME StackInv, RoundInv
  PROVE  \E i \in 0..Len(reply_queue) :
            \/ /\ Place(reply) = <<i, ElementsOf(i)>>
               /\ sp = 0 /\ Current = NextNode(NodeAt(0, i))
            \/ /\ i # 0 /\ i = current_reply[3].list
               /\ \E k \in 0..(ElementsOf(i) - 1) :
                     /\ Place(reply) = <<i, k>>
                     /\ sp = 2 /\ Current = NodeAt(i, k + 1)
<1>1. /\ TypeOK /\ current_reply \in [0..3 -> Node]
      /\ current_reply_sp \in {0, 2} /\ Len(reply_queue) \in Nat
  BY DEF StackInv, TypeOK, StackSize
<1>2. CASE current_reply_sp = 0
  <2>1. sp = 0 /\ Current = NextNode(reply)
    BY <1>2 DEF RoundInv, sp, Pops, Current, Advanced
  <2>2. CASE level = 0
    <3>1. reply = NodeAt(0, 0)
      BY <1>2, <2>2 DEF RoundInv
    <3>2. Place(reply) = <<0, ElementsOf(0)>>
      BY <3>1, NodeAtType DEF Place, ElementsOf
    <3> QED
      BY <1>1, <2>1, <3>1, <3>2
  <2>3. CASE level # 0
    <3> DEFINE i == reply.at
    <3>1. /\ reply \in Node /\ reply.list = 0 /\ i \in 1..Len(reply_queue)
          /\ TypeAt(reply) # "MULTIBULK"
      BY <1>1, <1>2, <2>3 DEF RoundInv, TypeOK
    <3>2. i \in Nat /\ i # 0 /\ i \in 0..Len(reply_queue) /\ 0 \in Nat
      BY <1>1, <3>1
    <3>3. NodeAt(0, i) \in Node /\ NodeAt(0, i).list = 0 /\ NodeAt(0, i).at = i
      BY <3>2, NodeAtType
    <3>4. reply = NodeAt(0, i)
      BY <3>1, <3>3, NodesWithEqualFields
    <3>5. reply_queue[i].children = <<>>
      BY <3>1 DEF RoundInv, TypeAt
    <3>6. Place(reply) = <<i, ElementsOf(i)>>
      BY <3>1, <3>2, <3>5 DEF Place, ElementsOf
    <3> HIDE DEF i
    <3> QED
      BY <2>1, <3>2, <3>4, <3>6
  <2> QED
    BY <2>2, <2>3
<1>3. CASE current_reply_sp = 2
  <2> DEFINE i == current_reply[3].list
             k == current_reply[2].at
  <2>1. /\ current_reply[3].at = 0 /\ i \in 1..Len(reply_queue)
        /\ current_reply[2].list = i /\ k <= ListLen(i) /\ k \in Nat
        /\ current_reply[2] \in Node /\ current_reply[3] \in Node
    BY <1>1, <1>3 DEF StackInv, IteratorInv, Node
  <2>2. /\ i \in Nat /\ i # 0 /\ i \in 0..Len(reply_queue)
        /\ ElementsOf(i) = ListLen(i) /\ ElementsOf(i) \in Nat
    BY <1>1, <2>1, ElementsOfType
  <2>3. Place(reply) = <<i, k>>
    <3>1. CASE level = 1 /\ reply = NodeAt(0, i) /\ k = 0
      BY <2>2, <3>1, NodeAtType DEF Place
    <3>2. CASE reply = current_reply[2]
      BY <2>1, <2>2, <3>2 DEF Place
    <3> QED
      BY <1>3, <3>1, <3>2 DEF RoundInv
  <2>4. current_reply[0] = NextNode(NodeAt(0, i))
    BY <1>3 DEF RoundInv
  <2>5. Advanced = NodeAt(i, IF k = ElementsOf(i) THEN 0 ELSE k + 1)
    BY <1>3, <2>1, <2>2 DEF Advanced, NextNode
  <2>6. CASE k = ElementsOf(i)
    <3>1. Advanced = current_reply[3]
      <4>1. /\ NodeAt(i, 0) \in Node /\ NodeAt(i, 0).list = i
            /\ NodeAt(i, 0).at = 0
        BY <2>2, NodeAtType
      <4> QED
        BY <2>1, <2>5, <2>6, <4>1, NodesWithEqualFields
    <3>2. sp = 0 /\ Current = current_reply[0]
      BY <1>3, <3>1 DEF Pops, sp, Current
    <3> HIDE DEF i, k
    <3> QED
      BY <2>2, <2>3, <2>4, <2>6, <3>2
  <2>7. CASE k # ElementsOf(i)
    <3>1. k \in 0..(ElementsOf(i) - 1) /\ k + 1 \in Nat /\ k + 1 # 0
      BY <2>1, <2>2, <2>7
    <3>2. Advanced = NodeAt(i, k + 1) /\ NodeAt(i, k + 1).at = k + 1
      BY <2>2, <2>5, <2>7, <3>1, NodeAtType
    <3>3. sp = 2 /\ Current = NodeAt(i, k + 1)
      BY <1>3, <2>1, <3>1, <3>2 DEF Pops, sp, Current
    <3>4. i = current_reply[3].list
      OBVIOUS
    <3> HIDE DEF i, k
    <3> QED
      BY <2>2, <2>3, <3>1, <3>3, <3>4
  <2> QED
    BY <2>6, <2>7
<1> QED
  BY <1>1, <1>2, <1>3

\* There is nothing more to return exactly behind the last reply of the queue.
LEMMA WhenItEnds ==
  ASSUME StackInv, RoundInv
  PROVE  \E i \in 0..Len(reply_queue) :
            \/ /\ Place(reply) = <<i, ElementsOf(i)>> /\ sp = 0
               /\ i = Len(reply_queue)
               /\ NoMoreReplies /\ Current = NodeAt(0, 0)
            \/ /\ Place(reply) = <<i, ElementsOf(i)>> /\ sp = 0
               /\ i # Len(reply_queue)
               /\ ~NoMoreReplies /\ Current = NodeAt(0, i + 1)
            \/ /\ i # 0 /\ i = current_reply[3].list
               /\ \E k \in 0..(ElementsOf(i) - 1) :
                     /\ Place(reply) = <<i, k>> /\ sp = 2
                     /\ ~NoMoreReplies /\ Current = NodeAt(i, k + 1)
<1>1. /\ TypeOK /\ current_reply_sp \in {0, 2} /\ Len(reply_queue) \in Nat
      /\ current_reply[1] = NodeAt(0, 0)
  BY DEF StackInv, IteratorInv, TypeOK
<1>2. PICK i \in 0..Len(reply_queue) :
            \/ /\ Place(reply) = <<i, ElementsOf(i)>>
               /\ sp = 0 /\ Current = NextNode(NodeAt(0, i))
            \/ /\ i # 0 /\ i = current_reply[3].list
               /\ \E k \in 0..(ElementsOf(i) - 1) :
                     /\ Place(reply) = <<i, k>>
                     /\ sp = 2 /\ Current = NodeAt(i, k + 1)
  BY WhereItLooks
<1>3. i \in Nat /\ ElementsOf(i) \in Nat
  BY <1>1, <1>2, ElementsOfType
<1>4. CASE /\ Place(reply) = <<i, ElementsOf(i)>>
           /\ sp = 0 /\ Current = NextNode(NodeAt(0, i))
  <2>1. NoMoreReplies <=> Current = NodeAt(0, 0)
    BY <1>1, <1>4 DEF NoMoreReplies
  <2>2. Current = NodeAt(0, IF i = Len(reply_queue) THEN 0 ELSE i + 1)
    BY <1>1, <1>4, NextOfQueue
  <2>3. NodeAt(0, i + 1).at = i + 1 /\ NodeAt(0, 0).at = 0 /\ i + 1 # 0
    BY <1>3, NodeAtType
  <2> QED
    BY <1>4, <2>1, <2>2, <2>3
<1>5. CASE /\ i # 0 /\ i = current_reply[3].list
           /\ \E k \in 0..(ElementsOf(i) - 1) :
                 /\ Place(reply) = <<i, k>>
                 /\ sp = 2 /\ Current = NodeAt(i, k + 1)
  <2>1. PICK k \in 0..(ElementsOf(i) - 1) :
              /\ Place(reply) = <<i, k>>
              /\ sp = 2 /\ Current = NodeAt(i, k + 1)
    BY <1>5
  <2>2. NodeAt(i, k + 1).at = k + 1 /\ k + 1 # 0
    BY <1>3, <2>1, NodeAtType
  <2>3. current_reply_sp = 2
    BY <1>1, <2>1 DEF sp
  <2>4. current_reply[3].at = 0
    BY <2>3 DEF StackInv, IteratorInv
  <2>5. ~NoMoreReplies
    BY <2>1, <2>2, <2>4 DEF NoMoreReplies
  <2> QED
    BY <1>5, <2>1, <2>5
<1> QED
  BY <1>2, <1>4, <1>5

\* What the first half of the call leaves on the stack.
LEMMA WhatItStores ==
  ASSUME StackInv, RoundInv
  PROVE  /\ Stored[sp] = Current /\ Stored[3] = current_reply[3]
         /\ sp = 2 => current_reply_sp = 2 /\ Stored[0] = current_reply[0]
<1>1. /\ current_reply \in [0..3 -> Node] /\ current_reply_sp \in {0, 2}
  BY DEF StackInv, TypeOK, StackSize
<1>2. \A n \in 0..3 :
         Stored[n] = IF n = current_reply_sp THEN Advanced ELSE current_reply[n]
  BY <1>1 DEF Stored
<1>3. /\ sp = IF Pops THEN current_reply_sp - 2 ELSE current_reply_sp
      /\ Current = IF Pops THEN current_reply[sp] ELSE Advanced
      /\ Pops => current_reply_sp > 0
  BY DEF sp, Current, Pops
<1>4. CASE current_reply_sp = 0
  BY <1>1, <1>2, <1>3, <1>4
<1>5. CASE current_reply_sp = 2
  BY <1>1, <1>2, <1>3, <1>5
<1> QED
  BY <1>1, <1>4, <1>5

LEMMA InitRound == Init => RoundInv
<1> SUFFICES ASSUME Init PROVE RoundInv
  OBVIOUS
<1>1. /\ current_reply[0] = NodeAt(0, 0) /\ current_reply_sp = 0
      /\ Len(reply_queue) = 0 /\ level = 0 /\ reply = NodeAt(0, 0)
  BY DEF Init, StackSize
<1> QED
  BY <1>1 DEF RoundInv, Reading

\* Between two rounds the iterator is at the head of the queue, where more
\* replies do not move it.
LEMMA WritingKeepsRound ==
  ASSUME StackInv, RoundInv, ~Reading, UNCHANGED <<iteratorVars, level, reply>>,
         \A i \in 1..Len(reply_queue') :
            reply_queue'[i].children # <<>> => reply_queue'[i].type = "MULTIBULK"
  PROVE  RoundInv'
<1>1. level = 0 /\ current_reply_sp = 0
  BY DEF StackInv, TypeOK, RoundInv, Reading
<1>2. current_reply[0] = reply /\ reply = NodeAt(0, 0)
  BY <1>1 DEF RoundInv
<1> QED
  BY <1>1, <1>2 DEF RoundInv, Reading, iteratorVars

LEMMA GrowingRound ==
  ASSUME StackInv, RoundInv, ~Reading, UNCHANGED <<iteratorVars, level, reply>>,
         NEW more \in Seq(Replies), reply_queue' = reply_queue \o more,
         \A i \in 1..Len(more) :
            more[i].children # <<>> => more[i].type = "MULTIBULK"
  PROVE  RoundInv'
<1>1. reply_queue \in Seq(Replies)
  BY DEF StackInv, TypeOK
<1>2. ASSUME NEW i \in 1..Len(reply_queue'), reply_queue'[i].children # <<>>
      PROVE  reply_queue'[i].type = "MULTIBULK"
  <2>1. CASE i <= Len(reply_queue)
    <3>1. i \in 1..Len(reply_queue) /\ reply_queue'[i] = reply_queue[i]
      BY <1>1, <1>2, <2>1
    <3> QED
      BY <1>2, <3>1 DEF RoundInv
  <2>2. CASE i > Len(reply_queue)
    <3> DEFINE j == i - Len(reply_queue)
    <3>1. j \in 1..Len(more) /\ reply_queue'[i] = more[j]
      BY <1>1, <1>2, <2>2
    <3> QED
      BY <1>2, <3>1
  <2> QED
    BY <1>1, <1>2, <2>1, <2>2
<1> QED
  BY <1>2, WritingKeepsRound

LEMMA WriteKeepsRound ==
  ASSUME StackInv, RoundInv, ~WritesMidway, Batch_write
  PROVE  RoundInv'
<1>1. /\ ~Reading /\ reply_queue' = reply_queue
      /\ UNCHANGED <<iteratorVars, level, reply>>
  BY DEF Batch_write
<1> QED
  BY <1>1, WritingKeepsRound DEF RoundInv

LEMMA AddReplyKeepsRound ==
  ASSUME StackInv, RoundInv, NEW type \in ReplyTypes, NEW n \in 0..MaxChildren,
         NEW children \in [1..n -> ElementTypes], Batch_add_reply(type, children)
  PROVE  RoundInv'
<1> DEFINE r == [type |-> type, children |-> children]
<1>1. ~Reading
  BY DEF Batch_add_reply, RoundInv, Executed, StackInv, TypeOK
<1>2. children \in Seq(ElementTypes)
  BY BoundsAssumption
<1>3. r \in Replies /\ (r.children # <<>> => r.type = "MULTIBULK")
  BY <1>2 DEF Replies, Batch_add_reply
<1>4. reply_queue \in Seq(Replies) /\ reply_queue' = Append(reply_queue, r)
  BY DEF StackInv, TypeOK, Batch_add_reply
<1>5. UNCHANGED <<iteratorVars, level, reply>>
  BY DEF Batch_add_reply
<1> HIDE DEF r
<1>6. /\ reply_queue' = reply_queue \o <<r>> /\ <<r>> \in Seq(Replies)
      /\ \A i \in 1..Len(<<r>>) : <<r>>[i] = r
  BY <1>3, <1>4
<1> QED
  BY <1>1, <1>3, <1>5, <1>6, GrowingRound

LEMMA AbortKeepsRound == StackInv /\ RoundInv /\ Batch_abort => RoundInv'
<1> SUFFICES ASSUME StackInv, RoundInv, Batch_abort PROVE RoundInv'
  OBVIOUS
<1> DEFINE more == [i \in 1..num_commands |-> [type |-> "ERROR", children |-> <<>>]]
<1>1. ~Reading
  BY DEF Batch_abort, RoundInv, Executed, StackInv, TypeOK
<1>2. [type |-> "ERROR", children |-> <<>>] \in Replies /\ num_commands \in Nat
  BY DEF Replies, ReplyTypes, StackInv, TypeOK
<1>3. /\ more \in Seq(Replies) /\ reply_queue' = reply_queue \o more
      /\ Len(more) = num_commands
  BY <1>2 DEF Batch_abort
<1>4. \A i \in 1..Len(more) : more[i].children = <<>>
  BY <1>3
<1>5. UNCHANGED <<iteratorVars, level, reply>>
  BY DEF Batch_abort
<1> HIDE DEF more
<1> QED
  BY <1>1, <1>3, <1>4, <1>5, GrowingRound

LEMMA RenewKeepsRound == StackInv /\ RoundInv /\ Batch_renew => RoundInv'
<1> SUFFICES ASSUME StackInv, Batch_renew PROVE RoundInv'
  OBVIOUS
<1>1. /\ current_reply'[0] = NodeAt(0, 0) /\ reply' = NodeAt(0, 0)
      /\ level' = 0 /\ current_reply_sp' = 0 /\ Len(reply_queue') = 0
  BY DEF Batch_renew, StackInv, TypeOK, StackSize
<1> QED
  BY <1>1 DEF RoundInv, Reading

LEMMA EndKeepsRound ==
  ASSUME StackInv, RoundInv, NextIsEnd
  PROVE  /\ RoundInv'
         /\ Place(reply) = <<Len(reply_queue), ElementsOf(Len(reply_queue))>>
         /\ reply' = NodeAt(0, 0) /\ level' = 0
<1>1. /\ NoMoreReplies /\ current_reply' = Stored /\ current_reply_sp' = sp
      /\ level' = 0 /\ reply' = NodeAt(0, 0) /\ UNCHANGED batchVars
  BY DEF NextIsEnd
<1>2. /\ sp = 0 /\ Current = NodeAt(0, 0)
      /\ Place(reply) = <<Len(reply_queue), ElementsOf(Len(reply_queue))>>
  BY <1>1, WhenItEnds
<1>3. current_reply'[0] = NodeAt(0, 0)
  BY <1>1, <1>2, WhatItStores
<1> QED
  BY <1>1, <1>2, <1>3 DEF RoundInv, Reading, batchVars

LEMMA SimpleKeepsRound ==
  ASSUME StackInv, RoundInv, NextIsSimple
  PROVE  RoundInv'
<1>1. /\ ~NoMoreReplies /\ current_reply' = Stored /\ current_reply_sp' = sp
      /\ level' = sp \div 2 + 1 /\ reply' = Current /\ UNCHANGED batchVars
      /\ TypeAt(Current) # "MULTIBULK" /\ Executed
  BY DEF NextIsSimple
<1>2. /\ Len(reply_queue) \in Nat /\ reply_queue' = reply_queue
      /\ num_commands' = num_commands
  BY <1>1 DEF StackInv, TypeOK, batchVars
<1>3. /\ (Reading => Executed)'
      /\ \A i \in 1..Len(reply_queue') :
            reply_queue'[i].children # <<>> => reply_queue'[i].type = "MULTIBULK"
  BY <1>1, <1>2 DEF RoundInv, Executed
<1>4. \A n : TypeAt(n)' = TypeAt(n)' /\ ListLen(n)' = ListLen(n)
  BY <1>2 DEF ListLen
<1>5. TypeAt(reply)' # "MULTIBULK"
  BY <1>1, <1>2 DEF TypeAt
<1>6. current_reply'[sp] = Current /\ current_reply'[3] = current_reply[3]
  BY <1>1, WhatItStores
<1>7. ASSUME NEW i \in 0..Len(reply_queue), sp = 0,
             i # Len(reply_queue), Current = NodeAt(0, i + 1)
      PROVE  RoundInv'
  <2>1. /\ Current.list = 0 /\ Current.at = i + 1
        /\ i + 1 \in 1..Len(reply_queue)
    BY <1>2, <1>7, NodeAtType
  <2> QED
    BY <1>1, <1>2, <1>3, <1>5, <1>6, <1>7, <2>1 DEF RoundInv
<1>8. ASSUME NEW i \in 0..Len(reply_queue), i # 0, i = current_reply[3].list,
             NEW k \in 0..(ElementsOf(i) - 1),
             sp = 2, Current = NodeAt(i, k + 1)
      PROVE  RoundInv'
  <2>1. /\ ElementsOf(i) \in Nat /\ ElementsOf(i) = ListLen(i)
    BY <1>8, ElementsOfType DEF StackInv
  <2>2. Current.at = k + 1 /\ Current.at \in 1..ListLen(i)
    BY <1>2, <1>8, <2>1, NodeAtType
  <2>3. /\ current_reply_sp = 2 /\ current_reply'[0] = current_reply[0]
    BY <1>1, <1>8, WhatItStores
  <2>4. NextNode(NodeAt(0, i))' = NextNode(NodeAt(0, i))
    BY <1>4 DEF NextNode
  <2>5. current_reply'[0] = NextNode(NodeAt(0, i))'
    BY <1>8, <2>3, <2>4 DEF RoundInv
  <2>6. level' = 2
    BY <1>1, <1>8
  <2> QED
    BY <1>1, <1>2, <1>3, <1>4, <1>6, <1>8, <2>2, <2>5, <2>6 DEF RoundInv
<1> QED
  BY <1>1, <1>7, <1>8, WhenItEnds

\* An element is no multibulk reply.
LEMMA MultibulksAreInQueue ==
  ASSUME StackInv, ~NoMoreReplies, TypeAt(Current) = "MULTIBULK"
  PROVE  sp = 0
<1>1. /\ sp = 0 <=> Current.list = 0
      /\ Current.list \in 0..Len(reply_queue)
      /\ Current.at \in 1..ListLen(Current.list)
  BY CurrentFacts DEF EntriesAreReplies
<1>2. CASE Current.list # 0
  <2>1. Current.list \in 1..Len(reply_queue) /\ Len(reply_queue) \in Nat
    BY <1>1, <1>2 DEF StackInv, TypeOK
  <2>2. reply_queue[Current.list] \in Replies
    BY <2>1 DEF StackInv, TypeOK
  <2>3. TypeAt(Current) \in ElementTypes
    BY <1>1, <1>2, <2>2 DEF TypeAt, ListLen, Replies
  <2> QED
    BY <2>3 DEF ElementTypes
<1> QED
  BY <1>1, <1>2

LEMMA MultibulkKeepsRound ==
  ASSUME StackInv, RoundInv, NextIsMultibulk
  PROVE  RoundInv'
<1> DEFINE children == NodeAt(Current.at, 0)
<1>1. /\ ~NoMoreReplies /\ TypeAt(Current) = "MULTIBULK" /\ Executed
      /\ reply' = Current /\ UNCHANGED batchVars
      /\ current_reply' = [Stored EXCEPT ![sp] = NextNode(Current),
                                         ![sp + 2] = children,
                                         ![sp + 3] = children]
      /\ current_reply_sp' = sp + 2 /\ level' = sp \div 2 + 1
  BY DEF NextIsMultibulk
<1>2. sp = 0
  BY <1>1, MultibulksAreInQueue
<1>3. /\ Len(reply_queue) \in Nat /\ reply_queue' = reply_queue
      /\ num_commands' = num_commands
  BY <1>1 DEF StackInv, TypeOK, batchVars
<1>4. PICK i \in 0..Len(reply_queue) :
         i # Len(reply_queue) /\ Current = NodeAt(0, i + 1)
  BY <1>1, <1>2, WhenItEnds
<1>5. /\ Current.at = i + 1 /\ i + 1 \in 1..Len(reply_queue)
      /\ children.list = i + 1 /\ children.at = 0
  BY <1>3, <1>4, NodeAtType
<1>6. Stored \in [0..3 -> Node]
  BY CurrentFacts DEF StackInv, TypeOK, StackSize, Stored
<1> HIDE DEF children
<1>7. /\ current_reply'[0] = NextNode(Current)
      /\ current_reply'[2] = children /\ current_reply'[3] = children
      /\ current_reply_sp' = 2 /\ level' = 1
  BY <1>1, <1>2, <1>6
<1>8. \A l : ListLen(l)' = ListLen(l)
  BY <1>3 DEF ListLen
<1>9. /\ current_reply'[3].list = i + 1 /\ current_reply'[2].at = 0
      /\ current_reply'[0] = NextNode(NodeAt(0, i + 1))
      /\ reply' = NodeAt(0, i + 1)
  BY <1>1, <1>4, <1>5, <1>7
<1>10. /\ (Reading => Executed)'
       /\ \A j \in 1..Len(reply_queue') :
             reply_queue'[j].children # <<>> => reply_queue'[j].type = "MULTIBULK"
  BY <1>1, <1>3 DEF RoundInv, Executed
<1>11. current_reply'[0] = NextNode(NodeAt(0, current_reply[3].list))'
  BY <1>8, <1>9 DEF NextNode
<1>12. reply' = NodeAt(0, current_reply[3].list)'
  BY <1>9
<1> QED
  BY <1>7, <1>9, <1>10, <1>11, <1>12 DEF RoundInv

LEMMA NextRound ==
  ASSUME StackInv, RoundInv, ~WritesMidway, [Next]_vars
  PROVE  RoundInv'
<1>1. CASE UNCHANGED vars
  BY <1>1 DEF vars, batchVars, iteratorVars, RoundInv, Reading, Executed,
     TypeAt, ListLen, NextNode
<1> QED
  BY <1>1, WriteKeepsRound, AddReplyKeepsRound, AbortKeepsRound,
     RenewKeepsRound, EndKeepsRound, SimpleKeepsRound, MultibulkKeepsRound
     DEF Next, Batch_next_reply

LEMMA InitInv == Init => IterationInv
  BY InitStack, InitRound DEF IterationInv

LEMMA NextInv == IterationInv /\ [Next]_vars => IterationInv'
  BY NextStack, NextRound DEF IterationInv

\* The iterator's stack has the type of its struct and points where it should,
\* for any replies and any mixture of writing, executing and reading.
THEOREM IteratorInvariance == Spec => []IterationInv
  BY InitInv, NextInv, PTL DEF Spec

\* Batch_next_reply never takes the head of a list for a reply, also when
\* replies are added to the batch while it is being read.
THEOREM EntriesAlwaysReplies == Spec => []EntriesAreReplies
<1>1. IterationInv => EntriesAreReplies
  BY CurrentFacts DEF IterationInv
<1> QED
  BY <1>1, InitInv, NextInv, PTL DEF Spec

-----------------------------------------------------------------------------
(***************************************************************************)
(* The iterator is a cursor (ReplyCursor).                                 *)
(***************************************************************************)

LEMMA EntryFacts ==
  /\ \A e \in Entries : \E i \in 1..Len(reply_queue), j \in Nat :
        j <= ElementsOf(i) /\ e = <<i, j>>
  /\ \A i \in 1..Len(reply_queue) :
        \A j \in 0..ElementsOf(i) : <<i, j>> \in Entries
<1>1. \A i \in 1..Len(reply_queue) :
         ElementsOf(i) = Len(reply_queue[i].children)
  BY DEF ElementsOf
<1>2. \A e : e \in Entries <=>
         \E i \in 1..Len(reply_queue) :
            \E j \in 0..Len(reply_queue[i].children) : e = <<i, j>>
  BY DEF Entries
<1> QED
  BY <1>1, <1>2

\* Behind the last entry of a reply comes the next reply, or nothing.
LEMMA BehindReply ==
  ASSUME TypeOK, NEW i \in 0..Len(reply_queue), Place(reply) = <<i, ElementsOf(i)>>
  PROVE  /\ i = Len(reply_queue) => Cursor!Unread = {}
         /\ i # Len(reply_queue) =>
               /\ <<i + 1, 0>> \in Cursor!Unread
               /\ \A d \in Cursor!Unread :
                     d = <<i + 1, 0>> \/ Cursor!Before(<<i + 1, 0>>, d)
<1>1. /\ Len(reply_queue) \in Nat
      /\ \A m \in 0..Len(reply_queue) : ElementsOf(m) \in Nat
  BY ElementsOfType DEF TypeOK
<1>2. ASSUME NEW d \in Cursor!Unread
      PROVE  \E m \in 1..Len(reply_queue), n \in Nat : d = <<m, n>> /\ i < m
  <2>1. d \in Entries /\ Cursor!Before(<<i, ElementsOf(i)>>, d)
    BY <1>2 DEF Cursor!Unread
  <2>2. PICK m \in 1..Len(reply_queue), n \in Nat :
           n <= ElementsOf(m) /\ d = <<m, n>>
    BY <2>1, EntryFacts
  <2>3. i < m
    BY <1>1, <2>1, <2>2 DEF Cursor!Before
  <2> QED
    BY <2>2, <2>3
<1>3. CASE i = Len(reply_queue)
  BY <1>1, <1>2, <1>3
<1>4. CASE i # Len(reply_queue)
  <2>1. i + 1 \in 1..Len(reply_queue) /\ 0 \in 0..ElementsOf(i + 1)
    BY <1>1, <1>4
  <2>2. <<i + 1, 0>> \in Entries
    BY <2>1, EntryFacts
  <2>3. <<i + 1, 0>> \in Cursor!Unread
    BY <1>1, <2>2 DEF Cursor!Unread, Cursor!Before
  <2>4. ASSUME NEW d \in Cursor!Unread
        PROVE  d = <<i + 1, 0>> \/ Cursor!Before(<<i + 1, 0>>, d)
    <3>1. PICK m \in 1..Len(reply_queue), n \in Nat : d = <<m, n>> /\ i < m
      BY <1>2
    <3> QED
      BY <1>1, <3>1 DEF Cursor!Before
  <2> QED
    BY <1>4, <2>3, <2>4
<1> QED
  BY <1>3, <1>4

\* Among the elements of a reply, the next one comes.
LEMMA BehindElement ==
  ASSUME TypeOK, NEW i \in 1..Len(reply_queue), NEW k \in 0..(ElementsOf(i) - 1),
         Place(reply) = <<i, k>>
  PROVE  /\ <<i, k + 1>> \in Cursor!Unread
         /\ \A d \in Cursor!Unread :
               d = <<i, k + 1>> \/ Cursor!Before(<<i, k + 1>>, d)
<1>1. /\ Len(reply_queue) \in Nat
      /\ \A m \in 0..Len(reply_queue) : ElementsOf(m) \in Nat
  BY ElementsOfType DEF TypeOK
<1>2. k + 1 \in 0..ElementsOf(i)
  BY <1>1
<1>3. <<i, k + 1>> \in Entries
  BY <1>2, EntryFacts
<1>4. <<i, k + 1>> \in Cursor!Unread
  BY <1>1, <1>3 DEF Cursor!Unread, Cursor!Before
<1>5. ASSUME NEW d \in Cursor!Unread
      PROVE  d = <<i, k + 1>> \/ Cursor!Before(<<i, k + 1>>, d)
  <2>1. d \in Entries /\ Cursor!Before(<<i, k>>, d)
    BY DEF Cursor!Unread
  <2>2. PICK m \in 1..Len(reply_queue), n \in Nat :
           n <= ElementsOf(m) /\ d = <<m, n>>
    BY <2>1, EntryFacts
  <2> QED
    BY <1>1, <2>1, <2>2 DEF Cursor!Before
<1> QED
  BY <1>4, <1>5

LEMMA PlaceOfNode ==
  ASSUME NEW i \in Nat, NEW k \in Nat
  PROVE  /\ Place(NodeAt(0, i)) = <<i, 0>>
         /\ i # 0 => Place(NodeAt(i, k)) = <<i, k>>
BY DEF Place, NodeAt

LEMMA EntriesStay ==
  ASSUME reply_queue' = reply_queue
  PROVE  Entries' = Entries
BY DEF Entries

\* Returning a reply reads the next entry.
LEMMA ReturningReads ==
  ASSUME StackInv, RoundInv, ~NoMoreReplies, UNCHANGED batchVars,
         reply' = Current, level' = sp \div 2 + 1
  PROVE  Cursor!Read
<1>1. TypeOK /\ Len(reply_queue) \in Nat
  BY DEF StackInv, TypeOK
<1>2. Entries' = Entries
  BY EntriesStay DEF batchVars
<1>0. Place(reply)' = Place(Current)
  BY DEF Place
<1>3. ASSUME NEW i \in 0..Len(reply_queue), i # Len(reply_queue), sp = 0,
             Place(reply) = <<i, ElementsOf(i)>>, Current = NodeAt(0, i + 1)
      PROVE  Cursor!Read
  <2>1. /\ <<i + 1, 0>> \in Cursor!Unread
        /\ \A d \in Cursor!Unread :
              d = <<i + 1, 0>> \/ Cursor!Before(<<i + 1, 0>>, d)
    BY <1>1, <1>3, BehindReply
  <2>2. Place(Current) = <<i + 1, 0>> /\ level' = 1
    BY <1>1, <1>3, PlaceOfNode
  <2> QED
    BY <1>0, <1>2, <2>1, <2>2 DEF Cursor!Read
<1>4. ASSUME NEW i \in 0..Len(reply_queue), i # 0,
             NEW k \in 0..(ElementsOf(i) - 1), sp = 2,
             Place(reply) = <<i, k>>, Current = NodeAt(i, k + 1)
      PROVE  Cursor!Read
  <2>1. i \in 1..Len(reply_queue) /\ i \in Nat /\ k + 1 \in Nat /\ k + 1 # 0
    BY <1>1, <1>4, ElementsOfType
  <2>2. /\ <<i, k + 1>> \in Cursor!Unread
        /\ \A d \in Cursor!Unread :
              d = <<i, k + 1>> \/ Cursor!Before(<<i, k + 1>>, d)
    BY <1>1, <1>4, <2>1, BehindElement
  <2>3. Place(Current) = <<i, k + 1>> /\ level' = 2
    BY <1>4, <2>1, PlaceOfNode
  <2> QED
    BY <1>0, <1>2, <2>1, <2>2, <2>3 DEF Cursor!Read
<1> QED
  BY <1>3, <1>4, WhenItEnds

LEMMA EndingEndsRound ==
  ASSUME StackInv, RoundInv, NextIsEnd
  PROVE  Cursor!EndRound
<1>1. TypeOK /\ Len(reply_queue) \in 0..Len(reply_queue)
  BY DEF StackInv, TypeOK
<1>2. /\ Place(reply) = <<Len(reply_queue), ElementsOf(Len(reply_queue))>>
      /\ reply' = NodeAt(0, 0) /\ level' = 0
  BY EndKeepsRound
<1>3. Cursor!Unread = {}
  BY <1>1, <1>2, BehindReply
<1>4. Place(reply)' = <<0, 0>>
  BY <1>2, PlaceOfNode DEF Place
<1>5. Entries' = Entries
  BY EntriesStay DEF NextIsEnd, batchVars
<1> QED
  BY <1>2, <1>3, <1>4, <1>5 DEF Cursor!EndRound, Cursor!Start

\* Replies that arrive between two rounds come behind the others.
LEMMA GrowingAdds ==
  ASSUME StackInv, RoundInv, ~Reading, UNCHANGED <<level, reply>>,
         NEW more \in Seq(Replies), reply_queue' = reply_queue \o more
  PROVE  Cursor!Add
<1>1. /\ TypeOK /\ reply_queue \in Seq(Replies) /\ reply_queue' \in Seq(Replies)
      /\ Len(reply_queue) \in Nat /\ Len(reply_queue') \in Nat
      /\ Len(reply_queue) <= Len(reply_queue')
      /\ \A i \in 1..Len(reply_queue) : reply_queue'[i] = reply_queue[i]
  BY DEF StackInv, TypeOK
<1>2. reply = NodeAt(0, 0)
  BY DEF StackInv, TypeOK, RoundInv, Reading
<1>3. Place(reply) = <<0, 0>> /\ Place(reply)' = Place(reply)
  BY <1>2, PlaceOfNode DEF Place
<1>4. /\ \A e : e \in Entries <=>
            \E i \in 1..Len(reply_queue) :
               \E j \in 0..Len(reply_queue[i].children) : e = <<i, j>>
      /\ \A e : e \in Entries' <=>
            \E i \in 1..Len(reply_queue') :
               \E j \in 0..Len(reply_queue'[i].children) : e = <<i, j>>
  BY DEF Entries
<1>5. Entries \subseteq Entries'
  BY <1>1, <1>4
<1>6. Entries' \subseteq (Nat \ {0}) \X Nat
  <2>1. \A i \in 1..Len(reply_queue') : Len(reply_queue'[i].children) \in Nat
    BY <1>1 DEF Replies
  <2> QED
    BY <1>1, <1>4, <2>1
<1>7. ASSUME NEW d \in Entries, NEW e \in Entries' \ Entries
      PROVE  Cursor!Before(d, e)
  <2>1. PICK i \in 1..Len(reply_queue) :
           \E j \in 0..Len(reply_queue[i].children) : d = <<i, j>>
    BY <1>4
  <2>2. PICK m \in 1..Len(reply_queue') :
           \E n \in 0..Len(reply_queue'[m].children) : e = <<m, n>>
    BY <1>4
  <2>3. m \notin 1..Len(reply_queue)
    BY <1>1, <1>4, <2>2
  <2>4. i < m /\ d[1] = i /\ e[1] = m
    BY <1>1, <2>1, <2>2, <2>3
  <2> QED
    BY <2>4 DEF Cursor!Before
<1> QED
  BY <1>3, <1>5, <1>6, <1>7 DEF Cursor!Add, Cursor!Start

LEMMA InitIsCursor == Init => Cursor!Init
<1> SUFFICES ASSUME Init PROVE Cursor!Init
  OBVIOUS
<1>1. reply = NodeAt(0, 0) /\ level = 0 /\ Len(reply_queue) = 0
  BY DEF Init
<1>2. Place(reply) = <<0, 0>>
  BY <1>1, PlaceOfNode
<1>3. Entries = {}
  BY <1>1 DEF Entries
<1> QED
  BY <1>1, <1>2, <1>3 DEF Cursor!Init, Cursor!Start

LEMMA StepIsCursors ==
  ASSUME StackInv, RoundInv, ~WritesMidway, [Next]_vars
  PROVE  [Cursor!Next]_(Cursor!vars)
<1>1. CASE UNCHANGED vars \/ Batch_write
  <2>1. reply_queue' = reply_queue /\ reply' = reply /\ level' = level
    BY <1>1 DEF Batch_write, vars, batchVars
  <2> QED
    BY <2>1, EntriesStay DEF Cursor!vars, Place
<1>2. ASSUME NEW type \in ReplyTypes, NEW n \in 0..MaxChildren,
             NEW children \in [1..n -> ElementTypes],
             Batch_add_reply(type, children)
      PROVE  Cursor!Add
  <2> DEFINE r == [type |-> type, children |-> children]
  <2>1. ~Reading
    BY <1>2 DEF Batch_add_reply, RoundInv, Executed, StackInv, TypeOK
  <2>2. children \in Seq(ElementTypes)
    BY BoundsAssumption
  <2>3. r \in Replies
    BY <2>2 DEF Replies
  <2>4. /\ reply_queue \in Seq(Replies) /\ reply_queue' = Append(reply_queue, r)
        /\ UNCHANGED <<level, reply>>
    BY <1>2 DEF StackInv, TypeOK, Batch_add_reply
  <2> HIDE DEF r
  <2>5. reply_queue' = reply_queue \o <<r>> /\ <<r>> \in Seq(Replies)
    BY <2>3, <2>4
  <2> QED
    BY <2>1, <2>4, <2>5, GrowingAdds
<1>3. CASE Batch_abort
  <2> DEFINE more == [i \in 1..num_commands |-> [type |-> "ERROR", children |-> <<>>]]
  <2>1. ~Reading
    BY <1>3 DEF Batch_abort, RoundInv, Executed, StackInv, TypeOK
  <2>2. [type |-> "ERROR", children |-> <<>>] \in Replies /\ num_commands \in Nat
    BY DEF Replies, ReplyTypes, StackInv, TypeOK
  <2>3. /\ more \in Seq(Replies) /\ reply_queue' = reply_queue \o more
        /\ UNCHANGED <<level, reply>>
    BY <1>3, <2>2 DEF Batch_abort
  <2> HIDE DEF more
  <2>4. Cursor!Add
    BY <2>1, <2>3, GrowingAdds
  <2> QED
    BY <2>4 DEF Cursor!Next
<1>4. CASE Batch_renew
  <2>1. reply_queue' = <<>> /\ reply' = NodeAt(0, 0) /\ level' = 0
    BY <1>4 DEF Batch_renew
  <2>2. Entries' = {}
    BY <2>1 DEF Entries
  <2>3. Place(reply)' = <<0, 0>>
    BY <2>1, PlaceOfNode DEF Place
  <2> QED
    BY <2>1, <2>2, <2>3 DEF Cursor!Next, Cursor!Renew, Cursor!Start
<1>5. CASE NextIsEnd
  BY <1>5, EndingEndsRound DEF Cursor!Next
<1>6. CASE NextIsSimple
  BY <1>6, ReturningReads DEF NextIsSimple, Cursor!Next
<1>7. CASE NextIsMultibulk
  BY <1>7, ReturningReads DEF NextIsMultibulk, Cursor!Next
<1> QED
  BY <1>1, <1>2, <1>3, <1>4, <1>5, <1>6, <1>7
     DEF Next, Batch_next_reply, Cursor!Next

\* Batch_next_reply reads every reply and every element once, in order and with
\* its level, round after round, for batches of any size, as long as nothing is
\* written into a batch in the middle of a round.
THEOREM IteratorIsCursor ==
  ASSUME ~WritesMidway
  PROVE  Spec => IsCursor
<1>1. Init => Cursor!Init
  BY InitIsCursor
<1>2. IterationInv /\ [Next]_vars => [Cursor!Next]_(Cursor!vars)
  BY StepIsCursors DEF IterationInv
<1> QED
  BY <1>1, <1>2, InitInv, NextInv, PTL DEF Spec, IsCursor, Cursor!Spec
=============================================================================
