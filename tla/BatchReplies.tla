---------------------------- MODULE BatchReplies ----------------------------
(***************************************************************************)
(* The replies of a Batch (src/libredis/batch.c) and the iterator that     *)
(* reads them, Batch_next_reply, with its stack of list positions.         *)
(*                                                                         *)
(* A struct list_head is the head of a list or the link of an element; it  *)
(* is written [list, at], where list 0 is reply_queue, list i the children *)
(* of the reply i of reply_queue, and at = 0 the head of the list.         *)
(***************************************************************************)
EXTENDS Integers, Sequences

CONSTANTS
    MaxCommands,    \* most commands ever written into the batch
    MaxChildren,    \* most elements of a multibulk reply
    WritesMidway    \* the application goes on writing in the middle of reading

ASSUME BoundsAssumption == MaxCommands \in Nat /\ MaxChildren \in Nat
ASSUME WritesMidwayAssumption == WritesMidway \in BOOLEAN

VARIABLES
    num_commands,
    reply_queue,        \* the top-level replies, each with its children
    error,              \* the batch was aborted
    current_reply_sp,
    current_reply,      \* the stack
    level, reply        \* what Batch_next_reply returned last

batchVars == <<num_commands, reply_queue, error>>
iteratorVars == <<current_reply_sp, current_reply>>
vars == <<batchVars, iteratorVars, level, reply>>

\* BATCH_REPLY_ITERATOR_STACK_SIZE
StackSize == 2

ElementTypes == {"BULK", "BULK_NIL"}
ReplyTypes == ElementTypes \cup
    {"OK", "ERROR", "INTEGER", "MULTIBULK", "MULTIBULK_NIL"}
Replies == [type : ReplyTypes, children : Seq(ElementTypes)]
Node == [list : Nat, at : Nat]
NodeAt(list, at) == [list |-> list, at |-> at]

\* Every variable has the type of the C variable it stands for.
TypeOK ==
    /\ num_commands \in Nat
    /\ reply_queue \in Seq(Replies)
    /\ error \in BOOLEAN
    /\ current_reply_sp \in {0, 2}
    /\ current_reply \in [0..2 * StackSize - 1 -> Node]
    /\ level \in 0..StackSize
    /\ reply \in Node

\* Batch_new leaves the upper half of the stack as it is: it is not read.
Init ==
    /\ num_commands = 0
    /\ reply_queue = <<>>
    /\ error = FALSE
    /\ current_reply_sp = 0
    /\ current_reply = [i \in 0..2 * StackSize - 1 |-> NodeAt(0, 0)]
    /\ level = 0
    /\ reply = NodeAt(0, 0)

-----------------------------------------------------------------------------
ListLen(list) ==
    IF list = 0 THEN Len(reply_queue) ELSE Len(reply_queue[list].children)

\* node->next in a circular list.
NextNode(node) ==
    NodeAt(node.list, IF node.at = ListLen(node.list) THEN 0 ELSE node.at + 1)

\* list_entry(node, Reply, list)->type
TypeAt(node) ==
    IF node.list = 0 THEN reply_queue[node.at].type
    ELSE reply_queue[node.list].children[node.at]

Written == num_commands + Len(reply_queue)
Reading == level > 0

Batch_write ==
    /\ Written < MaxCommands
    /\ ~error
    /\ ~Reading \/ WritesMidway
    /\ num_commands' = num_commands + 1
    /\ UNCHANGED <<reply_queue, error, iteratorVars, level, reply>>

\* A reply the parser returned.
Batch_add_reply(type, children) ==
    /\ num_commands > 0
    /\ children # <<>> => type = "MULTIBULK"
    /\ num_commands' = num_commands - 1
    /\ reply_queue' =
          Append(reply_queue, [type |-> type, children |-> children])
    /\ UNCHANGED <<error, iteratorVars, level, reply>>

\* Each command without a reply gets an error reply.
Batch_abort ==
    /\ num_commands > 0
    /\ ~error
    /\ error' = TRUE
    /\ num_commands' = 0
    /\ reply_queue' = reply_queue \o
          [i \in 1..num_commands |-> [type |-> "ERROR", children |-> <<>>]]
    /\ UNCHANGED <<iteratorVars, level, reply>>

\* Mutant of Batch_renew: a reused batch keeps the iterator of the old one.
Batch_renew_iterating ==
    /\ num_commands' = 0
    /\ reply_queue' = <<>>
    /\ error' = FALSE
    /\ level' = 0
    /\ reply' = NodeAt(0, 0)
    /\ UNCHANGED iteratorVars

\* Batch_free, then Batch_new.
Batch_renew ==
    /\ num_commands' = 0
    /\ reply_queue' = <<>>
    /\ error' = FALSE
    /\ current_reply_sp' = 0
    /\ current_reply' =
          [current_reply EXCEPT ![0] = NodeAt(0, 0), ![1] = NodeAt(0, 0)]
    /\ level' = 0
    /\ reply' = NodeAt(0, 0)

-----------------------------------------------------------------------------
(***************************************************************************)
(* Batch_next_reply.                                                       *)
(***************************************************************************)
Advanced == NextNode(current_reply[current_reply_sp])

\* The end of a multibulk reply's elements: the stack is popped, and the entry
\* below it has already been moved on.
Pops ==
    /\ current_reply_sp > 0
    /\ Advanced = current_reply[current_reply_sp + 1]

sp == IF Pops THEN current_reply_sp - 2 ELSE current_reply_sp

\* Mutant of Current: after a pop it moves on once more.
CurrentSkipping == IF Pops THEN NextNode(current_reply[sp]) ELSE Advanced

Current == IF Pops THEN current_reply[sp] ELSE Advanced

NoMoreReplies == Current = current_reply[sp + 1]

\* The stack after the first half of the call.
Stored == [current_reply EXCEPT ![current_reply_sp] = Advanced]

\* It is called when the batch has been executed, which answers every command.
Executed == num_commands = 0

NextIsEnd ==
    /\ Executed
    /\ NoMoreReplies
    /\ current_reply' = Stored
    /\ current_reply_sp' = sp
    /\ level' = 0
    /\ reply' = NodeAt(0, 0)
    /\ UNCHANGED batchVars

NextIsSimple ==
    /\ Executed
    /\ ~NoMoreReplies
    /\ TypeAt(Current) # "MULTIBULK"
    /\ current_reply' = Stored
    /\ current_reply_sp' = sp
    /\ level' = sp \div 2 + 1
    /\ reply' = Current
    /\ UNCHANGED batchVars

\* The elements are pushed, and the entry below moves on to what follows them.
NextIsMultibulk ==
    /\ Executed
    /\ ~NoMoreReplies
    /\ TypeAt(Current) = "MULTIBULK"
    /\ LET children == NodeAt(Current.at, 0)
       IN current_reply' = [Stored EXCEPT ![sp] = NextNode(Current),
                                          ![sp + 2] = children,
                                          ![sp + 3] = children]
    /\ current_reply_sp' = sp + 2
    /\ level' = sp \div 2 + 1
    /\ reply' = Current
    /\ UNCHANGED batchVars

Batch_next_reply == NextIsEnd \/ NextIsSimple \/ NextIsMultibulk

Next ==
    \/ Batch_write
    \/ \E type \in ReplyTypes, n \in 0..MaxChildren :
          \E children \in [1..n -> ElementTypes] : Batch_add_reply(type, children)
    \/ Batch_abort
    \/ Batch_renew
    \/ Batch_next_reply

Spec == Init /\ [][Next]_vars

-----------------------------------------------------------------------------
(***************************************************************************)
(* Properties.                                                             *)
(***************************************************************************)

\* The stack points into the lists it is meant for: below the elements of a
\* multibulk reply is what followed that reply, or the end of the queue.
IteratorInv ==
    /\ current_reply[0].list = 0
    /\ current_reply[0].at <= Len(reply_queue)
    /\ current_reply[1] = NodeAt(0, 0)
    /\ current_reply_sp = 2 =>
          LET head == current_reply[3]
          IN /\ head.at = 0
             /\ head.list \in 1..Len(reply_queue)
             /\ reply_queue[head.list].type = "MULTIBULK"
             /\ current_reply[2].list = head.list
             /\ current_reply[2].at <= ListLen(head.list)
             /\ current_reply[0].at \in {0, head.list + 1}

StackInv == TypeOK /\ IteratorInv

\* How the stack goes with what was returned last, while nothing is written into
\* a batch that is being read: the next call goes on from there, and a multibulk
\* reply whose elements are read has been passed below them.
RoundInv ==
    /\ Reading => Executed
    /\ \A i \in 1..Len(reply_queue) :
          reply_queue[i].children # <<>> => reply_queue[i].type = "MULTIBULK"
    /\ current_reply_sp = 0 =>
          /\ current_reply[0] = reply
          /\ \/ level = 0 /\ reply = NodeAt(0, 0)
             \/ /\ level = 1 /\ reply.list = 0 /\ reply.at \in 1..Len(reply_queue)
                /\ TypeAt(reply) # "MULTIBULK"
    /\ current_reply_sp = 2 =>
          LET i == current_reply[3].list
          IN /\ current_reply[0] = NextNode(NodeAt(0, i))
             /\ \/ level = 1 /\ reply = NodeAt(0, i) /\ current_reply[2].at = 0
                \/ /\ level = 2 /\ reply = current_reply[2]
                   /\ reply.at \in 1..ListLen(i)

\* The inductive invariant: the stack of Batch_next_reply has the type of its
\* struct and points where it should, whatever is written, answered and read.
IterationInv == StackInv /\ (~WritesMidway => RoundInv)

\* list_entry is never taken of the head of a list, but of a reply.
EntriesAreReplies ==
    ~NoMoreReplies => Current.at \in 1..ListLen(Current.list)

\* Every reply and every element of one.
Entries ==
    UNION {{i} \X (0..Len(reply_queue[i].children)) : i \in 1..Len(reply_queue)}

Place(node) == IF node.list = 0 THEN <<node.at, 0>> ELSE <<node.list, node.at>>

\* The iterator with its stack of pointers is a cursor over the replies in order:
\* no reply or element is skipped or read twice, each comes with its level, round
\* after round, also across Batch_free and Batch_new.
Cursor == INSTANCE ReplyCursor WITH entries <- Entries, place <- Place(reply)

IsCursor == Cursor!Spec
=============================================================================
