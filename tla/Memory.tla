------------------------------- MODULE Memory -------------------------------
(***************************************************************************)
(* Who owns the batches and replies of libredis, from malloc to free: the  *)
(* free lists of src/libredis/alloc.h, Batch and Reply of batch.c, the     *)
(* replies that ReplyParser_execute makes, and Module_free.  The thread    *)
(* that uses them is in one call at a time; Executor_execute, _Batch_free  *)
(* and Module_free are taken apart.                                        *)
(*                                                                         *)
(* A batch is used as redis.h describes: written, executed once, freed.    *)
(***************************************************************************)
EXTENDS Integers, FiniteSets, SequencesExt

CONSTANTS
    Connections, Batches, Replies,   \* the addresses malloc may return
    None,                            \* NULL
    SINGLETHREADED,                  \* the build: with free lists or without
    BatchBytes,                      \* sizeof(Batch) and its two buffers
    ErrorBytes,                      \* the buffer of an error message
    ReplyBytes,                      \* sizeof(Reply)
    ConnectionBytes,                 \* sizeof(Connection) and its parser
    MaxCommands,                     \* bound on the commands of a batch
    MaxCount                         \* bound on the elements of a multibulk

ASSUME BytesAssumption ==
    {BatchBytes, ErrorBytes, ReplyBytes, ConnectionBytes} \subseteq Nat
ASSUME AddressAssumption ==
    /\ Connections \cap Batches = {} /\ Connections \cap Replies = {}
    /\ Batches \cap Replies = {}

\* The buffers of a batch that a reply may point into.
Buffers == Batches \X {"read", "error"}

ASSUME NoneAssumption == None \notin Connections \cup Batches \cup Replies \cup Buffers

VARIABLES
    phase,            \* "open", "closing" (in Module_free) or "closed"
    heap,             \* the batches, replies and connections allocated
    allocated,        \* Module.allocated
    freeBatches, freeReplies,   \* the free lists, head first
    held,             \* the batches the caller has
    num_commands, reply_queue, error,   \* of each batch
    reply,            \* the fields of each Reply
    current_batch,    \* the batch a connection has still to finish
    multibulk_reply, multibulk_count,   \* of the connection's parser
    freeing, hand,    \* the batch and the reply that are being freed
    dropped           \* history: multibulk replies a parser forgot

heapVars == <<heap, allocated>>
batchVars == <<num_commands, reply_queue, error>>
parserVars == <<multibulk_reply, multibulk_count>>
freeVars == <<freeing, hand>>
vars == <<phase, heapVars, freeBatches, freeReplies, held, batchVars, reply,
          current_batch, parserVars, freeVars, dropped>>

Blank == [type |-> "none", buffer |-> None, children |-> <<>>]

\* Every variable has the type of what it stands for.
TypeOK ==
    /\ phase \in {"open", "closing", "closed"}
    /\ heap \subseteq Connections \cup Batches \cup Replies
    /\ allocated \in Nat
    /\ freeBatches \in Seq(Batches) /\ freeReplies \in Seq(Replies)
    /\ held \subseteq Batches
    /\ num_commands \in [Batches -> Nat]
    /\ reply_queue \in [Batches -> Seq(Replies)]
    /\ error \in [Batches -> BOOLEAN]
    /\ reply \in [Replies -> [type : {"none", "data", "error", "multibulk"},
                              buffer : Buffers \cup {None},
                              children : Seq(Replies)]]
    /\ current_batch \in [Connections -> Batches \cup {None}]
    /\ multibulk_reply \in [Connections -> Replies \cup {None}]
    /\ multibulk_count \in [Connections -> Nat]
    /\ freeing \in Batches \cup {None} /\ hand \in Replies \cup {None}
    /\ dropped \subseteq Replies

Init ==
    /\ phase = "open"
    /\ heap = {} /\ allocated = 0
    /\ freeBatches = <<>> /\ freeReplies = <<>>
    /\ held = {}
    /\ num_commands = [b \in Batches |-> 0]
    /\ reply_queue = [b \in Batches |-> <<>>]
    /\ error = [b \in Batches |-> FALSE]
    /\ reply = [r \in Replies |-> Blank]
    /\ current_batch = [c \in Connections |-> None]
    /\ multibulk_reply = [c \in Connections |-> None]
    /\ multibulk_count = [c \in Connections |-> 0]
    /\ freeing = None /\ hand = None
    /\ dropped = {}

Executing == \E c \in Connections : current_batch[c] # None

\* The caller is between two calls of the library.
Free == phase = "open" /\ ~Executing /\ freeing = None

-----------------------------------------------------------------------------
(***************************************************************************)
(* alloc.h.                                                                *)
(***************************************************************************)

_Alloc_alloc(obj, size) ==
    /\ obj \notin heap
    /\ heap' = heap \cup {obj}
    /\ allocated' = allocated + size

_Alloc_free(obj, size) ==
    /\ heap' = heap \ {obj}
    /\ allocated' = allocated - size

\* In the single-threaded build objects come from the tail of the free list ...
Reply_list_alloc(r) ==
    IF SINGLETHREADED /\ freeReplies # <<>>
    THEN /\ r = Last(freeReplies)
         /\ freeReplies' = Front(freeReplies)
         /\ UNCHANGED heapVars
    ELSE _Alloc_alloc(r, ReplyBytes) /\ UNCHANGED freeReplies

Batch_list_alloc(b) ==
    IF SINGLETHREADED /\ freeBatches # <<>>
    THEN /\ b = Last(freeBatches)
         /\ freeBatches' = Front(freeBatches)
         /\ UNCHANGED heapVars
    ELSE _Alloc_alloc(b, BatchBytes) /\ UNCHANGED freeBatches

-----------------------------------------------------------------------------
(***************************************************************************)
(* The calls of the application.                                           *)
(***************************************************************************)

Connection_new(c) ==
    /\ Free
    /\ _Alloc_alloc(c, ConnectionBytes)
    /\ UNCHANGED <<phase, freeBatches, freeReplies, held, batchVars, reply,
                   current_batch, parserVars, freeVars, dropped>>

\* Mutant: the parser is not reset.
ForgetNothing(cs) == UNCHANGED <<dropped, parserVars>>

\* ReplyParser_reset, and the end of a parser, leave a multibulk to nobody.
Forget(cs) ==
    /\ dropped' = dropped \cup ({multibulk_reply[c] : c \in cs} \ {None})
    /\ multibulk_reply' = [c \in Connections |->
                             IF c \in cs THEN None ELSE multibulk_reply[c]]
    /\ multibulk_count' = [c \in Connections |->
                             IF c \in cs THEN 0 ELSE multibulk_count[c]]

Connection_free(c) ==
    /\ Free /\ c \in heap
    /\ _Alloc_free(c, ConnectionBytes)
    /\ Forget({c})
    /\ UNCHANGED <<phase, freeBatches, freeReplies, held, batchVars, reply,
                   current_batch, freeVars>>

Batch_new(b) ==
    /\ Free
    /\ Batch_list_alloc(b)
    /\ num_commands' = [num_commands EXCEPT ![b] = 0]
    /\ reply_queue' = [reply_queue EXCEPT ![b] = <<>>]
    /\ error' = [error EXCEPT ![b] = FALSE]
    /\ held' = held \cup {b}
    /\ UNCHANGED <<phase, freeReplies, reply, current_batch, parserVars,
                   freeVars, dropped>>

Fresh(b) == b \in held /\ reply_queue[b] = <<>> /\ ~error[b]

Batch_write(b) ==
    /\ Free /\ Fresh(b)
    /\ num_commands[b] < MaxCommands
    /\ num_commands' = [num_commands EXCEPT ![b] = @ + 1]
    /\ UNCHANGED <<phase, heapVars, freeBatches, freeReplies, held, reply_queue,
                   error, reply, current_batch, parserVars, freeVars, dropped>>

\* Executor_execute starts every pair: Connection_execute_start.
ExecuteStart(pairs) ==
    /\ Free /\ DOMAIN pairs # {}
    /\ \A c \in DOMAIN pairs :
          c \in heap /\ Fresh(pairs[c]) /\ num_commands[pairs[c]] > 0
    /\ IsInjective(pairs)
    /\ current_batch' = [c \in Connections |->
                           IF c \in DOMAIN pairs THEN pairs[c] ELSE None]
    /\ Forget(DOMAIN pairs)
    /\ UNCHANGED <<phase, heapVars, freeBatches, freeReplies, held, batchVars,
                   reply, freeVars>>

-----------------------------------------------------------------------------
(***************************************************************************)
(* Inside Executor_execute: replies are parsed and batches aborted.        *)
(***************************************************************************)

\* Batch_add_reply, and the pair is finished with its last command.
Batch_add_reply(c, r) ==
    LET b == current_batch[c]
    IN /\ num_commands' = [num_commands EXCEPT ![b] = @ - 1]
       /\ reply_queue' = [reply_queue EXCEPT ![b] = Append(@, r)]
       /\ current_batch' = [current_batch EXCEPT ![c] =
                              IF num_commands[b] = 1 THEN None ELSE @]

\* No other pair is served in the middle of a Batch_abort.
Aborting(b) == error[b] /\ num_commands[b] > 0

Running(c) == current_batch[c] # None /\ \A b \in Batches : ~Aborting(b)

New(type, buffer) == [type |-> type, buffer |-> buffer, children |-> <<>>]

\* A line, an integer or a bulk in the read buffer, or a nil multibulk.
ParseReply(c) ==
    /\ Running(c) /\ multibulk_reply[c] = None
    /\ \E r \in Replies, buffer \in {None, <<current_batch[c], "read">>} :
          /\ Reply_list_alloc(r)
          /\ reply' = [reply EXCEPT ![r] = New("data", buffer)]
          /\ Batch_add_reply(c, r)
    /\ UNCHANGED <<phase, freeBatches, held, error, parserVars, freeVars, dropped>>

ParseMultibulk(c) ==
    /\ Running(c) /\ multibulk_reply[c] = None
    /\ \E r \in Replies, n \in 0..MaxCount :
          /\ Reply_list_alloc(r)
          /\ reply' = [reply EXCEPT ![r] = New("multibulk", None)]
          /\ multibulk_reply' = [multibulk_reply EXCEPT ![c] = r]
          /\ multibulk_count' = [multibulk_count EXCEPT ![c] = n]
    /\ UNCHANGED <<phase, freeBatches, held, batchVars, current_batch, freeVars,
                   dropped>>

\* Mutant: the parser keeps the empty multibulk.
ParseEmptyKept(c) ==
    /\ Running(c) /\ multibulk_reply[c] # None /\ multibulk_count[c] = 0
    /\ Batch_add_reply(c, multibulk_reply[c])
    /\ UNCHANGED <<phase, heapVars, freeBatches, freeReplies, held, error, reply,
                   parserVars, freeVars, dropped>>

ParseEmpty(c) ==
    /\ Running(c) /\ multibulk_reply[c] # None /\ multibulk_count[c] = 0
    /\ Batch_add_reply(c, multibulk_reply[c])
    /\ multibulk_reply' = [multibulk_reply EXCEPT ![c] = None]
    /\ UNCHANGED <<phase, heapVars, freeBatches, freeReplies, held, error, reply,
                   multibulk_count, freeVars, dropped>>

\* Mutant: does not look whether the multibulk is empty.
ParseElementAlways(c) ==
    /\ Running(c) /\ multibulk_reply[c] # None
    /\ \E r \in Replies :
          /\ Reply_list_alloc(r)
          /\ reply' = [reply EXCEPT
                         ![r] = New("data", <<current_batch[c], "read">>),
                         ![multibulk_reply[c]].children = Append(@, r)]
    /\ multibulk_count' = [multibulk_count EXCEPT ![c] = @ - 1]
    /\ IF multibulk_count[c] = 1
       THEN /\ Batch_add_reply(c, multibulk_reply[c])
            /\ multibulk_reply' = [multibulk_reply EXCEPT ![c] = None]
       ELSE UNCHANGED <<num_commands, reply_queue, current_batch, multibulk_reply>>
    /\ UNCHANGED <<phase, freeBatches, held, error, freeVars, dropped>>

\* An element; the last one completes the multibulk.
ParseElement(c) ==
    /\ Running(c) /\ multibulk_count[c] > 0
    /\ \E r \in Replies :
          /\ Reply_list_alloc(r)
          /\ reply' = [reply EXCEPT
                         ![r] = New("data", <<current_batch[c], "read">>),
                         ![multibulk_reply[c]].children = Append(@, r)]
    /\ multibulk_count' = [multibulk_count EXCEPT ![c] = @ - 1]
    /\ IF multibulk_count[c] = 1
       THEN /\ Batch_add_reply(c, multibulk_reply[c])
            /\ multibulk_reply' = [multibulk_reply EXCEPT ![c] = None]
       ELSE UNCHANGED <<num_commands, reply_queue, current_batch, multibulk_reply>>
    /\ UNCHANGED <<phase, freeBatches, held, error, freeVars, dropped>>

\* Mutant: the error is a block that is not counted.
Batch_abort_strdup(c) ==
    /\ Running(c)
    /\ error' = [error EXCEPT ![current_batch[c]] = TRUE]
    /\ UNCHANGED <<phase, heapVars, freeBatches, freeReplies, held, num_commands,
                   reply_queue, reply, current_batch, parserVars, freeVars,
                   dropped>>

\* A failure, a parse error or the timeout, at any moment.
Batch_abort(c) ==
    /\ Running(c)
    /\ error' = [error EXCEPT ![current_batch[c]] = TRUE]
    /\ allocated' = allocated + ErrorBytes
    /\ UNCHANGED <<phase, heap, freeBatches, freeReplies, held, num_commands,
                   reply_queue, reply, current_batch, parserVars, freeVars,
                   dropped>>

AddErrorReply(c) ==
    /\ current_batch[c] # None /\ Aborting(current_batch[c])
    /\ \E r \in Replies :
          /\ Reply_list_alloc(r)
          /\ reply' = [reply EXCEPT ![r] = New("error", <<current_batch[c], "error">>)]
          /\ Batch_add_reply(c, r)
    /\ UNCHANGED <<phase, freeBatches, held, error, parserVars, freeVars, dropped>>

-----------------------------------------------------------------------------
(***************************************************************************)
(* _Batch_free and Module_free.                                            *)
(***************************************************************************)

Batch_free(b) ==
    /\ Free /\ b \in held
    /\ freeing' = b
    /\ held' = held \ {b}
    /\ UNCHANGED <<phase, heapVars, freeBatches, freeReplies, batchVars, reply,
                   current_batch, parserVars, hand, dropped>>

PopReply ==
    /\ freeing # None /\ hand = None /\ reply_queue[freeing] # <<>>
    /\ hand' = Last(reply_queue[freeing])
    /\ reply_queue' = [reply_queue EXCEPT ![freeing] = Front(@)]
    /\ UNCHANGED <<phase, heapVars, freeBatches, freeReplies, held, num_commands,
                   error, reply, current_batch, parserVars, freeing, dropped>>

\* The memory of a reply that is freed holds nothing any more.
Reply_list_free(r, final) ==
    IF final
    THEN _Alloc_free(r, ReplyBytes) /\ UNCHANGED freeReplies
    ELSE freeReplies' = <<r>> \o freeReplies /\ UNCHANGED heapVars

\* The argument final of Reply_free and Batch_free: 1 in the build without lists.
Final == ~SINGLETHREADED

FreeChild ==
    /\ hand # None /\ ~Final /\ reply[hand].children # <<>>
    /\ Reply_list_free(Last(reply[hand].children), Final)
    /\ reply' = [reply EXCEPT ![hand].children = Front(@)]
    /\ UNCHANGED <<phase, freeBatches, held, batchVars, current_batch, parserVars,
                   freeVars, dropped>>

\* Mutant: the children are left on the reply.
FreeParent ==
    /\ hand # None
    /\ Reply_list_free(hand, Final)
    /\ reply' = IF Final THEN [reply EXCEPT ![hand] = Blank] ELSE reply
    /\ hand' = None
    /\ UNCHANGED <<phase, freeBatches, held, batchVars, current_batch, parserVars,
                   freeing, dropped>>

FreeReply ==
    /\ hand # None /\ (Final \/ reply[hand].children = <<>>)
    /\ Reply_list_free(hand, Final)
    /\ reply' = IF Final THEN [reply EXCEPT ![hand] = Blank] ELSE reply
    /\ hand' = None
    /\ UNCHANGED <<phase, freeBatches, held, batchVars, current_batch, parserVars,
                   freeing, dropped>>

FreeBatch ==
    /\ freeing # None /\ hand = None /\ reply_queue[freeing] = <<>>
    /\ error' = [error EXCEPT ![freeing] = FALSE]
    /\ LET final == Final \/ phase = "closing"
           bytes == (IF error[freeing] THEN ErrorBytes ELSE 0)
                    + (IF final THEN BatchBytes ELSE 0)
       IN /\ allocated' = allocated - bytes
          /\ IF final
             THEN heap' = heap \ {freeing} /\ UNCHANGED freeBatches
             ELSE freeBatches' = <<freeing>> \o freeBatches /\ UNCHANGED heap
    /\ freeing' = None
    /\ UNCHANGED <<phase, freeReplies, held, num_commands, reply_queue, reply,
                   current_batch, parserVars, hand, dropped>>

\* The application's last call, with everything it was given given back.
Module_free ==
    /\ Free /\ held = {} /\ heap \cap Connections = {}
    /\ phase' = "closing"
    /\ UNCHANGED <<heapVars, freeBatches, freeReplies, held, batchVars, reply,
                   current_batch, parserVars, freeVars, dropped>>

Reply_free_final ==
    /\ phase = "closing" /\ freeReplies # <<>>
    /\ _Alloc_free(Last(freeReplies), ReplyBytes)
    /\ reply' = [reply EXCEPT ![Last(freeReplies)] = Blank]
    /\ freeReplies' = Front(freeReplies)
    /\ UNCHANGED <<phase, freeBatches, held, batchVars, current_batch, parserVars,
                   freeVars, dropped>>

Batch_free_final ==
    /\ phase = "closing" /\ freeReplies = <<>> /\ freeBatches # <<>>
    /\ freeing = None
    /\ freeing' = Last(freeBatches)
    /\ freeBatches' = Front(freeBatches)
    /\ UNCHANGED <<phase, heapVars, freeReplies, held, batchVars, reply,
                   current_batch, parserVars, hand, dropped>>

\* Mutant: the free list of batches is forgotten.
ClosedReplies ==
    /\ phase = "closing" /\ freeing = None
    /\ freeReplies = <<>>
    /\ phase' = "closed"
    /\ UNCHANGED <<heapVars, freeBatches, freeReplies, held, batchVars, reply,
                   current_batch, parserVars, freeVars, dropped>>

Closed ==
    /\ phase = "closing" /\ freeing = None
    /\ freeReplies = <<>> /\ freeBatches = <<>>
    /\ phase' = "closed"
    /\ UNCHANGED <<heapVars, freeBatches, freeReplies, held, batchVars, reply,
                   current_batch, parserVars, freeVars, dropped>>

Pairings == UNION {[cs -> Batches] : cs \in SUBSET Connections}

Next ==
    \/ \E b \in Batches : Batch_new(b) \/ Batch_write(b) \/ Batch_free(b)
    \/ \E c \in Connections : Connection_new(c) \/ Connection_free(c)
    \/ \E pairs \in Pairings : ExecuteStart(pairs)
    \/ \E c \in Connections :
          \/ ParseReply(c) \/ ParseMultibulk(c) \/ ParseEmpty(c) \/ ParseElement(c)
          \/ Batch_abort(c) \/ AddErrorReply(c)
    \/ PopReply \/ FreeChild \/ FreeReply \/ FreeBatch
    \/ Module_free \/ Reply_free_final \/ Batch_free_final \/ Closed

Spec == Init /\ [][Next]_vars

-----------------------------------------------------------------------------
(***************************************************************************)
(* Properties.                                                             *)
(***************************************************************************)

Elements(m) == ToSet(reply[m].children)

\* The places that hold a reply: reply queues, children, parsers, the free list
\* and _Reply_free.
InList(k, s, r) == {<<k, i>> : i \in {i \in DOMAIN s : s[i] = r}}
InQueues(r) == UNION {InList(b, reply_queue[b], r) : b \in Batches}
InMultibulks(r) == UNION {InList(m, reply[m].children, r) : m \in Replies}
InParsers(r) == {<<c, 0>> : c \in {c \in Connections : multibulk_reply[c] = r}}
InHand(r) == IF hand = r THEN {<<None, 0>>} ELSE {}

Places(r) == InQueues(r) \cup InMultibulks(r) \cup InParsers(r)
             \cup InList(None, freeReplies, r) \cup InHand(r)

\* Every allocated reply is held in exactly one place and can be freed from
\* there, and nothing holds a reply that was freed.  Excepted are the multibulk
\* replies that ReplyParser_reset (parser.c:41) and ReplyParser_free forget.
OneOwner ==
    \A r \in Replies :
       Cardinality(Places(r)) = IF r \in heap \ dropped THEN 1 ELSE 0

\* The bytes counted are those of the blocks that exist, with the free lists.
Accounted ==
    LET Number(S) == Cardinality(heap \cap S)
    IN allocated = Number(Batches) * BatchBytes + Number(Replies) * ReplyBytes
                   + Number(Connections) * ConnectionBytes
                   + Cardinality({b \in Batches : error[b]}) * ErrorBytes

\* A reply in a reply queue, and its elements, point into a buffer of the batch
\* they are in, so that they are valid as long as the batch is not freed
\* (redis.h:176) and say what was answered to its own commands.
OwnData ==
    \A b \in held : \A r \in ToSet(reply_queue[b]) : \A s \in {r} \cup Elements(r) :
       /\ s \in heap
       /\ reply[s].buffer \in {None, <<b, "read">>, <<b, "error">>}
       /\ reply[s].buffer = <<b, "error">> => error[b]

\* What Batch_new and Reply_new take from a free list holds nothing of its last
\* use, no reply, no element and no error message.
FreeListsClean ==
    /\ \A b \in ToSet(freeBatches) :
          b \in heap /\ b \notin held /\ reply_queue[b] = <<>> /\ ~error[b]
    /\ \A r \in ToSet(freeReplies) : r \in heap /\ reply[r].children = <<>>

\* Module_free gives back everything (redis.h:94), but for what parsers forgot.
ReleasesAll ==
    phase = "closed" =>
       heap = dropped \cup UNION {Elements(m) : m \in dropped}

-----------------------------------------------------------------------------
(***************************************************************************)
(* The inductive invariant.  Places are counted above; here each reply has *)
(* at most one holder, and no holder has a reply twice.                    *)
(***************************************************************************)

Queue(b) == <<"queue", b>>
Children(m) == <<"children", m>>
Parser(c) == <<"parser", c>>
FreeList == <<"free", None>>
Hand == <<"hand", None>>

HoldersOf(r) ==
    {Queue(b) : b \in {b \in Batches : r \in ToSet(reply_queue[b])}}
    \cup {Children(m) : m \in {m \in Replies : r \in Elements(m)}}
    \cup {Parser(c) : c \in {c \in Connections : r = multibulk_reply[c]}}
    \cup (IF r \in ToSet(freeReplies) THEN {FreeList} ELSE {})
    \cup (IF r = hand THEN {Hand} ELSE {})

HeldOnce ==
    /\ \A b \in Batches : IsInjective(reply_queue[b])
    /\ \A m \in Replies : IsInjective(reply[m].children)
    /\ IsInjective(freeReplies) /\ IsInjective(freeBatches)

\* What is held is allocated; the single-threaded build loses nothing else than
\* what its parsers forget.
HoldersOK ==
    /\ IsFiniteSet(heap) /\ dropped \subseteq heap
    /\ \A r \in Replies :
          /\ \A g, h \in HoldersOf(r) : g = h
          /\ HoldersOf(r) # {} => r \in heap \ dropped
          /\ SINGLETHREADED /\ r \in heap \ dropped => HoldersOf(r) # {}

\* Multibulk replies are one level deep.
Flat ==
    \A r \in Replies :
       r \notin heap \/ r \in ToSet(freeReplies) \/ (\E m \in Replies : r \in Elements(m))
       => reply[r].children = <<>>

\* An allocated batch is with the caller, in _Batch_free or in the free list.
BatchesOK ==
    \A b \in Batches :
       /\ b \in heap <=> b \in held \/ b = freeing \/ b \in ToSet(freeBatches)
       /\ b \in held => b # freeing /\ b \notin ToSet(freeBatches)
       /\ b = freeing => b \notin ToSet(freeBatches)
       /\ b \notin held /\ b # freeing => reply_queue[b] = <<>> /\ ~error[b]

LooksInto(b, r) ==
    /\ reply[r].buffer \in {None, <<b, "read">>, <<b, "error">>}
    /\ reply[r].buffer = <<b, "error">> => error[b]

RunsOK(c) ==
    current_batch[c] # None =>
       /\ c \in heap /\ current_batch[c] \in held
       /\ num_commands[current_batch[c]] > 0
       /\ phase = "open" /\ freeing = None

\* The multibulk reply that the parser has open.
OpenOK(c) ==
    /\ multibulk_count[c] > 0 => multibulk_reply[c] # None
    /\ multibulk_reply[c] # None => c \in heap
    /\ current_batch[c] # None /\ multibulk_reply[c] # None =>
          \A s \in {multibulk_reply[c]} \cup Elements(multibulk_reply[c]) :
             LooksInto(current_batch[c], s)

PairsOK ==
    /\ \A c \in Connections : RunsOK(c) /\ OpenOK(c)
    /\ \A c, d \in Connections :
          current_batch[c] = current_batch[d] => c = d \/ current_batch[c] = None

PhasesOK ==
    /\ hand # None => freeing # None
    /\ phase # "open" =>
          /\ held = {} /\ heap \cap Connections = {} /\ hand = None
          /\ \A b \in Batches : reply_queue[b] = <<>>
    /\ phase = "closed" => freeing = None /\ freeBatches = <<>> /\ freeReplies = <<>>

IInv ==
    /\ TypeOK /\ HeldOnce /\ HoldersOK /\ Flat
    /\ BatchesOK /\ PairsOK /\ PhasesOK
    /\ Accounted /\ OwnData
=============================================================================
