# libredis in TLA+

This directory holds TLA+ specifications of *libredis* (`src/libredis`, a C
client library for Redis with an asynchronous scatter-gather executor, and
`src/php/ext/libredis`, the PHP extension on top of it), the TLC configurations
that check them on small instances, and TLAPS proofs of theorems about them.

## 1. The system

### Components, their state and their operations

| component | source | state | operations |
|---|---|---|---|
| Executor | `connection.c:441-626` | `pairs[numpairs]` (connection, batch), one `struct pollfd` per pair, `numevents`, `end_tm_ms` | `Executor_new`, `_free`, `_add`, `_execute`, and inside: `Executor_current_timeout`, `Executor_notify_event` |
| Connection | `connection.c:57-439` | `state` (CLOSED, CONNECTING, CONNECTED, ABORTED), `sockfd`, `current_batch`, `current_executor`, `current_ordinal`, a `ReplyParser`, the address | `Connection_new`, `_free`; inside: `execute_start`, `create_socket`, `write_data`, `read_data`, `handle_event`, `abort`, `close` |
| Batch | `batch.c:112-360` | `num_commands` still unanswered, the list of top-level replies, the write and the read buffer, `error`, the iterator stack | `Batch_new`, `_free`, `_write`, `_write_set`, `_write_get`, `_write_decimal`, `_next_reply`; inside: `has_command`, `add_reply`, `abort` |
| Reply | `batch.c:42-110` | `type`, `data` (a pointer, or an offset in the read buffer), `len`, `children` | `Reply_new`, `_free`, `add_child`, accessors |
| Buffer | `buffer.c` | `data`, `position`, `limit`, `capacity` | `new`, `clear`, `free`, `ensure_remaining`, `write`, `flip`, `send`, `recv` |
| ReplyParser | `parser.c` | `p` (position in the read buffer), `cs` (one of 21 states), bulk and multibulk counters, the multibulk reply being built | `reset`, `execute` |
| Ketama | `ketama.c` | the servers with their weights, the continuum of points | `new`, `free`, `add_server`, `create_continuum`, `get_server_ordinal`, `get_server_address` |
| Module, allocator | `module.c`, `alloc.h` | `allocated`, `size`; with `SINGLETHREADED` one free list per type | `alloc`/`free`/`realloc`, `Module_init`, `_free`, `_get_allocated`, the `X_alloc`/`X_dealloc` of each type |
| PHP extension | `php/ext/libredis/libredis.c` | a table of persistent connections, tables of the batches, Ketamas and executors of a request, PHP objects that hold C objects | the methods of `Libredis`, `Connection`, `Batch`, `Executor`, `Ketama`, and the module and request hooks |
| redis.py, tests | `redis.py`, `test.*` | - | ctypes binding; the tests are read as uses of the API |
| md5, list.h | `md5.c`, `list.h` | - | third-party code |

### How they interact

An application builds *batches* of commands, adds pairs (connection, batch) to
an *executor*, and calls `Executor_execute`, which is one thread's `poll()`
loop: it starts each pair (connect, write what the socket takes, register the
events it must wait for), then polls and gives each fired event to
`Connection_handle_event`, until no event is registered or the deadline has
passed. There are no callbacks into the application. The connection writes
from its batch's write buffer and reads into its batch's read buffer; the parser
walks over the read buffer and hands complete replies to the batch. Connections
are *persistent*: one that ended well is kept open for the next batch; one that
failed or timed out is closed and reconnects on its next use. Afterwards the
application reads the replies with `Batch_next_reply`. The PHP extension keeps
connections across requests; batches, executors and Ketamas live for a request
at most.

### What is hard

* **Event bookkeeping.** `numevents` is incremented where an event is asked for
  and decremented where it fires, in different functions, and alone decides
  when the loop ends.
* **Interleaving.** Partial writes, replies that arrive while the batch is still
  being written, several connections, each at its own point.
* **Failure in any phase**: `socket`, `connect`, `write`, `read`, a parse error,
  `poll` interrupted, end of stream, timeout; each must give every unanswered
  command one error reply and leave the connection reusable.
* **Persistent connections.** A late reply of one batch must not be read as a
  reply to the next.
* **Chunking.** The parser is called on whatever `read()` returned.
* **Manual memory.** Free lists, reuse of batches, objects PHP may still refer to.

The hazards are listed one by one, with the line where each bites, in
`PROJECT.json`.

### What makes each component correct

* Executor: returns; returns only when every command has a reply or an error;
  registers every event it needs and counts them exactly; says "timeout" only
  when something was unfinished.
* Connection: one owner per socket, nothing leaked, no stray reply on a
  connection that stays open, an abort is final for its batch.
* Batch: as many replies as commands, in order, errors after replies;
  `Batch_next_reply` visits each of them once.
* ReplyParser: the same replies whatever the chunks, those of the grammar.
* Buffer: never past `limit` or `capacity`, content preserved by growth.
* Ketama: the server of the first point at or after the hash; every hash has one.
* Allocator: nothing handed out twice, `allocated` back to 0 at the end.

## 2. The plan

| # | modules | question | state |
|---|---|---|---|
| 1 | `Executor`, `BatchPromise`, `ExecutorInvariant`, `Executor*Proofs` | the event loop, every connection state, failures and timeouts | checked, proved |
| 2 | `ReplyParser`, `ReplyGrammar`, `ReplyParserInvariant`, `ReplyParserProofs` | the byte-level parser against a grammar | checked, proved |
| 3 | `BatchReplies`, `ReplyCursor`, `BatchReplyProofs` | the iterator `Batch_next_reply` against a cursor | checked, proved |
| 4 | `Ketama`, `KetamaInvariant`, `KetamaProofs` | server list, ring and binary search | checked, proved |
| 5 | `Buffer`, `ByteQueue`, `BufferProofs` | growth, flip, partial sends, clear and reuse of a buffer, byte by byte | checked, proved |
| 6 | `Memory`, `MemoryProofs` | `Module.allocated`, the free lists of Batch and Reply in both builds, who frees the elements of a multibulk reply | checked, proved |
| 7 | `PhpRequests`, `PhpRequestsProofs` | handles held by PHP objects, the connection cache, the request and module hooks, `Connection_new` and its early failure | checked, proved |

Abstract specifications: `BatchPromise` (what `Executor_execute` owes an
application), `ReplyGrammar` (what bytes mean), `ReplyCursor` (what an iteration
is), `ByteQueue` (what a buffer is for). For all four it is proved that the
code's model implements them.

There is no module that runs a batch's bytes through event loop, parser and iterator
at once. The components meet at two interfaces: the event loop counts replies where
the parser reads bytes, which `ReadsGrammar` justifies, and the iterator reads
the list that the event loop fills, for any list of which `IsCursor` is proved.

## 3. The models

### Executor

`Executor` is `Executor_execute` with everything it calls. `pc` says where its
thread is:

| `pc` | code |
|---|---|
| `idle` | outside `Executor_execute`; the application acts |
| `start` | the loop that calls `Connection_execute_start` on each pair |
| `write` | in `Connection_write_data`; `caller` says for whom |
| `started` | back in `Connection_execute_start`, which registers EVENT_READ |
| `read` | in `Connection_read_data` |
| `loop` | the head of the poll loop |
| `poll` | blocked in `poll()` |
| `dispatch` | the loop over the pairs after `poll()` |

An action is the code between two system calls, and every outcome of a system
call is an action of its own (`ConnectInProgress`, `Send`, `SendAgain`,
`SendFails`, ...). The clock (`Tick`) may run between any two. A write buffer is
counted in commands and a read buffer in replies; a `write` or a `read` that ends
inside a command or a reply is a step that changes nothing. That the bytes may
be counted like this is what `ReadsGrammar` of `ReplyParser` shows. The
server answers the commands it got, in order, when it likes, or never.
`inflight` stands for the socket's two streams.

`executed` is the only history variable: it says that the pairs have been
executed since `Executor_new`.

`Liberties` lets the application do what the documentation neither describes
nor forbids: execute a batch without commands (`empty_batch`), put one
connection into two pairs (`share_connection`), write to and execute an
executed batch (`reuse`). The passing runs and all theorems but type correctness
assume none of them. An empty batch registers an event that only the timeout
ends, which is not an error of any call but a wait for nothing. A connection in
two pairs is taken from the first batch by the second start; an aborted batch
that is executed again may be aborted a second time, which `Batch_abort` asserts
cannot happen. Section 6 has the steps of both.
`Executor_add` has no action for its -1 (`Executor is full`, connection.c:488-491),
which changes nothing but the last error, and puts a batch into one pair only,
with any `Liberties`.

`BatchPromise` knows neither sockets nor time: commands are written, executed,
answered or aborted, and the call returns when none is left. `KeepsPromise` maps
`executing` to `pc # "idle"` and `scheduled` to the batches of the pairs.

### ReplyParser

One action is one turn of the loop in `ReplyParser_execute`; `cs` keeps the
source's numbers 0 to 20, and states that differ only in the type they report
share an action. `Recv(k)` brings any number of bytes, so that every way to cut
the stream is explored; `ReplyParser_reset` may come after any return, also in
the middle of a reply. `stream` is what the server sends, `len` how much of it
is in the read buffer. A byte is its character, CR and LF are `"CR"` and `"LF"`.
Where `atoi` is undefined, and where a subtraction from an int overflows,
`Holds` allows every int.

`ReplyGrammar` is written from the table of replies in the source's comment
(parser.c:77-83), by recursive descent over all bytes at once, and knows
nothing of states or buffers. Its state machine is a reader that is given more and
more bytes: a call (`Call`) returns the reply the grammar finds behind the ones
before (`ReturnReply`), asks for more bytes (`AskForMore`) or refuses them
(`RefuseBytes`), as the verdict on the bytes there are says. A stream with a
count that no int can hold (`CountsFit`) has no meaning, and a call may return
anything (`Senseless`). `CountsFit` looks at the bytes and not at what they are
part of, so a payload that contains the text of such a count makes a stream
senseless too: the refinement says less of it than it could. `start`, where the reply begins that is being read, is
the one variable of `ReplyParser` that the code does not have; the refinement
maps it to `at`, the place of the next reply. `ReplyParserInvariant` says what text
lies between `start` and `p` in each of the parser's states.

### BatchReplies

The list of replies and the iterator with its stack of two pairs of list
positions. A `struct list_head` is a list and an index in it; the circular
list's `next` of the last element is the head, index 0. `Batch_next_reply` is
three actions, one for each way it returns. `ReplyCursor` knows neither lists nor
a stack: its entries are pairs, the reply of a command and the number of an
element in it (0 for the reply itself), a read goes to the least entry behind the
last one, and entries are added behind the others. The refinement maps the last
reply returned, and its level, to the cursor's place.

### Ketama

The servers with their weights, the ring (`continuum`) and the binary search,
one turn per action. The ring is any sorted sequence of points with the right
number of points for each server: md5 is taken as an arbitrary function, `qsort`
leaves equal points in any order. The share of a server is a float product;
`Share` accepts every integer that the floor of a product within one part in
`Precision` of the exact one can be. `capacity` and `allocated` follow the bytes
counted by `alloc.h`.

### Buffer

`Buffer` is one buffer with its memory. The n-th byte put in is the number n, and
any other byte of the memory is 0, so that a byte lost, repeated or overwritten
shows. `buff` is the block of `Buffer_new`, `enlarged` the one `Buffer_ensure_remaining`
allocates; `data` says which of them the C pointer means. A call that needs room
is three kinds of step: `Buffer_write(len)` or `Buffer_recv` enters
`Buffer_ensure_remaining` (`call`), each turn of its loop doubles `limit`, and
`WriteData` or `ReadData` is its growth and the bytes its caller copies or
`read()` returns. `Buffer_send` takes what `write()` takes. `Buffer_clear` is
`Buffer_clear` and the `Buffer_fill` that always follows it. Batch and connection
use it in one way only, which the guards describe: a write buffer is filled,
flipped, sent; a read buffer is filled; both are cleared or freed.

`ByteQueue` is the abstract specification: bytes go in at the end and come out
at the front. `KeepsBytes` maps its queue to what lies in front of `position`
before the flip, and between `position` and `limit` after it.

### Memory

Who owns which batch and which reply, from `malloc` to `free`. Addresses are model
values; `heap` are those allocated, `allocated` what `alloc.h` counts for them.
With `SINGLETHREADED` the macros of `alloc.h` keep freed batches and replies in
two free lists until `Module_free`; without it they go back at once, through
another path of `_Reply_free` and `_Batch_free`. Parsing is one action per way a
reply comes into being (`ParseReply`, `ParseMultibulk`, `ParseEmpty`,
`ParseElement`); freeing a batch is one action per turn of its loops (`PopReply`,
`FreeChild`, `FreeReply`, `FreeBatch`), the free lists are emptied one
object at a time by `Reply_free_final` and `Batch_free_final`. In between, several
connections interleave in one `Executor_execute`. `dropped` is a history
variable: the open multibulk replies that `ReplyParser_reset` forgets, which
are never freed: the properties except them, and name what they except.
An error message is the second kind of buffer a reply may point into.

### PhpRequests

The PHP objects of one process over its requests. `phase` goes from `down`
through `MINIT` to `idle`, `request`, `ending` (PHP destroys what is left, in any
order) and back through `RSHUTDOWN`; `failed` is a request after a fatal error,
whose destructors PHP does not call. `memory` is what the library has
allocated, `registry` the three hash tables that track what a request allocated,
`g_connections` the table of persistent connections. One action is one method of
a PHP class; what a method of the library does is taken from the other models:
`Executor_execute` opens the descriptors of its connections, closes them, or
leaves them as they are (`Serve`).
`Connection_new` and `Connection_free` are here with what they do to descriptors:
with `StaleMemory`, the address check of `Connection_new` frees a connection
whose `sockfd` was never written, and that field has what the last user of the
memory left there. A connection may then hold a descriptor that is closed, or
that was given to another connection. What the model leaves out is that two
connections of one execution close the same descriptor twice with an open in between.

PHP is external: that a script keeps the batches of an executor alive while it
runs is assumed (the executor holds plain pointers to both; the extension
keeps the connections alive, never the batches).

## 4. What is checked

| run | bounds | shows |
|---|---|---|
| `executor_two` | 2 pairs of 2 connections and 2 batches, 2 commands, 2 descriptors, timeout 1 | the six safety properties and the refinement of `BatchPromise` |
| `executor_live` | 2 pairs, 1 command | `Executor_execute` returns; the types and the inductive invariant |
| `executor_leftover` | 1 connection, 2 batches, 2 commands | a finding |
| `parser_streams` | about 2000 streams, 247,000 states, INT_MAX = 39 | the parser implements the grammar, its assertions hold, multibulk replies are complete, its two invariants hold, the first also when `atoi` returns garbage |
| `parser_exec` | one EXEC reply | a finding |
| `replies_read` | 3 replies of up to 2 elements | the inductive invariant, and that the iterator is a cursor |
| `ketama_ring` | 3 servers, 2 weights, 6 points on a circle of 3 | search, size and emptiness of the ring, points that fit their array, bytes given back, the inductive invariant |
| `buffer_bytes` | a first block of 8, writes of 0 to 17 bytes, 34 bytes between two clears | the inductive invariant, the memory counted, the refinement of `ByteQueue`, and that growth ends |
| `memory_objects` | 2 connections, 2 batches of 2 commands, 4 replies, multibulks of 2; single-threaded build | the inductive invariant, one owner for every reply, the count of `Module.allocated`, replies that point into their own batch, clean free lists, nothing left after `Module_free` |
| `memory_children` | 1 connection, 1 batch; multithreaded build | a finding |
| `php_requests` | 5 addresses, 3 PHP objects, 2 servers and an invalid one, 2 descriptors, memory that is not zero | the inductive invariant, handles point to live objects, the tables are exact, a request leaves nothing but lost batches, one connection per server, no descriptor leaks, and only a refused address takes one from its connection |
| `php_garbage` | 3 addresses, memory that is not zero | a finding |

**Why the bounds are enough.** Two connections are needed for descriptors to be
passed from one to the other and for one pair to end the loop under the other; a
third pair meets no code that the second does not, and the theorems cover any
number. Two commands are needed for a partial write and for a reply that comes
before the last command is written. A timeout of one tick lets the deadline
pass before, between and after the polls; longer ones only repeat it. The
streams of `MCReplyParser` contain every type of reply, alone, in pairs (so that
a reply starts where another ended), and inside a multibulk, and all of them
with one byte changed or lost, in every possible cut. Three replies are the
least with a multibulk that has neighbours on both sides. Three servers are the
least for which the list is doubled twice and the weights can average out to a
fraction; a circle of three points forces ties, hashes beyond the last point
and hashes equal to a point. A first block of 8 is the least for which an eighth is
a byte; 34 bytes enlarge it twice, so that copy, `realloc` and the return to the
first block all occur, a write of 9 or 17 bytes doubles more than once, and a write
of 0 not at all. Two batches and two connections let one batch
free into the free lists what the other takes out of them, while a multibulk
reply is open on both connections; four replies are what they hold at once.
Three PHP objects are an executor with a connection and a batch, dropped in
every order; five addresses let memory be used again, by
an object of another class, while the persistent connections stay.

**Fairness.** `FairSpec` of `Executor` is weakly fair to `Run` (the thread in
`Executor_execute` is scheduled, and `poll()` returns when its timeout has
passed) and to `Tick` (time passes). It is not fair to `PollReady`: no server is
obliged to answer; nor to `PollError`, nor to the application. `FairSpec` of
`Ketama` is weakly fair to the turns of the search loop. `FairSpec` of `Buffer` is
weakly fair to the thread inside `Buffer_ensure_remaining`. Nothing else needs
fairness. That a read loop ends is a fact of the model, since there are
never more replies than commands: a server that sends without end is not
modelled.

**Deadlock** is checked in every run but the two of `Memory`: the application, or
the server, can always go on. `Memory` stops after `Module_free`, and where the
instance has no reply left for `malloc` to return.

## 5. What is proved

TLAPS proves, for every value of the constants that satisfies the named
assumptions:

* `Executor` (assumptions `FdsAssumption`: descriptors are positive numbers,
  finitely many; `BoundsAssumption`; `NoBatchAssumption`: NULL is not a batch;
  `LibertiesAssumption`). `TypeCorrect` holds for every set of `Liberties`. With
  `Liberties = {}`: `Invariance`, and from it `EventCountCorrect`,
  `EveryCommandIsAnswered`, `NoWakeupIsLost`, `RepliesAreItsOwn`,
  `NoReplyStrays`, `SocketsAreOwned`, and `ExecutorKeepsPromise`: every step of the
  event loop is a step of `BatchPromise` or changes nothing it speaks of.
* `ReplyParser` (`StreamsAssumption`, `IntMaxAssumption`): `ParserInvariance`,
  `TypesAreRight`, `ParserAssertions`, `MultibulksAreComplete`, for every stream;
  `GrammarInvariance`, and from it `ParserReadsGrammar`: every turn of the loop in
  `ReplyParser_execute` is a step of `ReplyGrammar` or leaves alone what it speaks
  of, for streams of every length, cut in every way, and counts that an int can
  hold (a stream with any other count is `Senseless`).
* `BatchReplies` (`BoundsAssumption`, `WritesMidwayAssumption`):
  `IteratorInvariance` and `EntriesAlwaysReplies`, also when the batch grows
  while it is read; and, when it does not (`WritesMidway = FALSE`),
  `IteratorIsCursor`: the iterator implements `ReplyCursor`.
* `Buffer` (`BuffSizeAssumption`: the first block has at least 8 bytes, which
  both sizes of common.h:13-14 have; `BoundsAssumption`): `Invariance`,
  `CountsItsBytes`, `EnsureNarrows`, and `ImplementsQueue`: every step of a
  `Buffer` is a step of `ByteQueue` or leaves the queue alone, for writes and reads
  of every length.
* `Ketama` (`BoundsAssumption`: at least two hashes per server and one point per
  hash; `PrecisionAssumption`; `SizeofAssumption`; `AddsLateAssumption`):
  `Invariance`, `FindsTheNextPoint`, `ContinuumHasPoints`, `PointsFitAllocation`,
  `TurnNarrows`, and `LeaksNothing` for the documented order of calls.
* `Memory` (`BytesAssumption`: sizes are numbers; `AddressAssumption`: batches,
  replies and connections have different addresses; `NoneAssumption`: NULL is none
  of them), for any number of each. In both builds: `Invariance`,
  `MemoryIsAccounted`, `RepliesAreInTheirBatch`, `FreeListsHoldNothing`. With
  `SINGLETHREADED`: `EveryReplyHasOneOwner` and `EverythingIsReleased`; the other
  build's finding (`memory_children`) says why these two need it.
* `PhpRequests` (`NullAssumption`; `FdAssumption`: 0 is no socket;
  `ServerAssumption`): `Invariance`, `HandlesStayAlive`, `RegistryIsExact`,
  `RequestsLeaveNothing`, `OneConnectionEach`, `DescriptorsStayOwned` and
  `DescriptorsNeverLeak`, for any number of PHP objects, servers, addresses and
  descriptors, whatever `malloc` returns (`StaleMemory` of either value).

**The arguments.** None of the safety properties is inductive alone.

*Executor.* `ExecutionInv` says of each pair, in each phase, what its connection, its
batch and its pollfd look like: not yet started (nothing registered, commands
unsent), settled (registered for exactly what it waits for), inside each of the
handlers, or ended (no unanswered command). The key is the balance in
`Accounted`: commands without a reply = unsent + in flight + in the read buffer.
With it a connection that is kept open after its last reply has nothing in
flight, which the next execution relies on (`AtRest`); and the loop ends only
when `numevents` is 0 or the time is up, when each pair is settled with no event
(so it waits for nothing) or aborted. The refinement of `BatchPromise` adds that a
step answers one command of one scheduled batch, or aborts one batch, or neither:
by then `ExecutionInv` has said which batch a handler works on, and that none is left
unanswered when the call returns. `ExecutorHandlerProofs` has types, control, and
connect, write and read; `ExecutorLoopProofs` start, poll, dispatch, the
application, and the theorems.

*ReplyParser.* `Inv`: in the states that read a text, `mark` is in front of
`p`, so that no length underflows; an open multibulk reply has received its
announced number less those to come; while one is open, none of the states for
other replies is entered. That the replies are those of the grammar needs
`GrammarInv`, what every state knows of the text it stands behind: `CountText` in a
count, `LineText` in a line, `BulkText` in a bulk reply, whose header is kept
(`Header`) as long as its payload is read. The grammar looks at all the bytes there
are while the parser looked at fewer, so what the invariant says of a finished
element it says of any prefix of the stream that is long enough (`Opened`): its
witness is the list of places where the elements of the open multibulk
reply begin. Each verdict then has a lemma that computes it from the text:
`BulkFound` and its like when the last byte comes, `BulkUnfinished` and its like at the
end of the buffer and at a byte no state takes.

*BatchReplies.* `StackInv`: the lower level stands at what followed the
multibulk whose elements are above it, which stays right when replies are
appended. `RoundInv` ties the stack to what was returned last; then the call either
looks at the next element, or at the next reply because the elements of this one
are used up (`WhereItLooks`), and that is the least entry behind the last one
(`BehindElement`, `BehindReply`).

*Buffer.* `BufferInv`: `limit = capacity` while a buffer is filled and nobody grows it;
while somebody does, `position` is still inside the old capacity, so the copy
keeps every byte; the second block exists exactly when `capacity` is larger than
the first (`BlocksExist`), which is all that growth, clear and free look at. The
refinement needs that storing behind `position` moves nothing in front of it
(`StoringPuts`) and that a partial send splits the queue where `position` moves to
(`SendingTakes`, over `SliceOfSlice`).

*Ketama.* `SearchOK`: every point below `lowp` is below the hash, and `highp` is
the end or a point that is not. So the bounds can cross only at the first
point, where returning the first point is right. `HeaviestHasAverage`: some
server has at least the average weight, by induction over the calls of
`Ketama_add_server`; its rounded share is at least `Hashes - 1`, so the ring is not
empty. `WeightsAddUp`: the total is the sum of the weights, a sum being the size
of a set (`Pile`). What every share owes its weight, all of them owe the total
(`PilesCompare`); as the floats err by less than one hash in all, the floors give
no more hashes than there are (`RoundedDown`), and the points fit the array.

*Memory.* `HoldersOK`: a reply has at most one holder, which is a batch's queue, an
open multibulk reply, another reply, the free list or the function that frees it,
and what has a holder is allocated; in the single-threaded build everything
allocated and not `dropped` has one. It takes with it that each list and each queue
holds a reply once (`HeldOnce`), that the elements of a multibulk reply have no
elements (`Flat`), since `_Reply_free` gives only one level to the free list, and
that a free reply has none; that a batch is held, being freed or free, and empty
unless held (`BatchesOK`); and that an open multibulk reply and its elements point
into the batch that its connection executes (`PairsOK`), which is what makes them
point into their own batch when it is added to it.

*PhpRequests.* The tables of a request are what is allocated in it less what a
fatal error has lost (`RegistryExact`), a handle of a PHP object is in the table
of its class (`HandlesAlive`), an address that is no executor has no pairs left
over (`PairsOfExecutors`), and the connections in memory are those in
the persistent table (`OneConnectionPerServer`). Outside of a request nothing of
a request is left (`Quiet`). Ownership of descriptors (`OwnDescriptors`) is not
an invariant, as `php_garbage` shows; it is kept by every step but a refused address
(`OwnNext`), which is what `DescriptorsStayOwned` says of every behaviour. That
nothing leaks (`LeaksNext`) survives the refusal as well: an open descriptor is
held by a connection of the persistent table, which no step but `MSHUTDOWN` leaves.

**Induction over data.** The library's induction theorems take an operator, which
the installed provers cannot instantiate. Where the number of servers matters, the
proof takes the least number at which the claim would fail instead (`LeastNumber`,
from the well-foundedness of the natural numbers). The grammar's two recursive
functions, the value of a count's digits and the elements of a multibulk reply,
are unfolded the same way: that a function with the recursive equation exists is
shown for every bound, as a set of numbers that holds 0 and every successor
(`NaturalInduction`, `ValueExists`, `ElementsExist`), and so the value that `CHOOSE`
takes obeys it.

**Only model-checked.** Liveness (`ExecuteTerminates`, `SearchEnds`, `EnsureEnds`;
`TurnNarrows` and `EnsureNarrows` prove the variants of the last two), which needs fairness that TLAPS
1.4.5 cannot reason about. Every invariant, action property and refinement of the
passing runs is proved.

## 6. What was found

Each is a run that TLC ends with a counterexample; `PROJECT.json` quotes the line
that says otherwise.

* **A failed connection keeps the executor waiting** (`executor_leftover`). An
  abort does not take the connection's remaining event off `numevents`.
  `Executor_execute` then polls a closed descriptor until its timeout and
  reports a timeout, although every command has its answer.
* **EXEC replies do not parse** (`parser_exec`): the elements of a multibulk reply
  must be bulk replies.
* **The elements of a multibulk reply are not freed** (`memory_children`). Without
  `SINGLETHREADED`, the default of the Makefile, `Reply_free` asks `_Reply_free` for
  the final free, which skips the children: after `Batch_free` they are
  still allocated and nothing refers to them.
* **A connection with an invalid address closes a stranger's descriptor**
  (`php_garbage`). `Connection_new` frees it before it has written `sockfd` and
  `addrinfo`, and `Connection_close` looks at both.

Without a run of their own:

* A multibulk reply that is still open when its execution ends is overwritten by the
  next `ReplyParser_reset` (parser.c:41) and stays allocated after `Module_free`;
  `OneOwner` and `ReleasesAll` except exactly those replies (`dropped`).
* A connection in two pairs forgets the first batch (connection.c:247). The first pair
  is connecting (EINPROGRESS) when the second one starts and takes `current_batch`;
  the connect fails, `Connection_abort` answers the second batch, and from then on
  `Connection_handle_event` returns at once for the first: the call ends with 0 and
  a command without reply or error, against redis.h:211-212. TLC shows it as a
  violation of `EveryCommandAnswered` with `Liberties = {"share_connection"}` and
  one connection.
* A batch can be aborted twice (batch.c:264). An executor that is executed again after
  its connection failed has batches with an error; when the connection fails again,
  the assertion in `Batch_abort` does. With `reuse` and `empty_batch` in `Liberties`
  TLC reaches the second abort after two calls of `Executor_execute`.
* A fatal error in `Connection::set` or `get` loses a batch (libredis.c:196, 240, 252, 284,
  304): it is in no table, so that `RSHUTDOWN` (libredis.c:726) does not free it.
  `lost` is never emptied, and `RequestLeavesNothing` excepts exactly its batches.

## 7. What is not modelled

* The bytes of commands (`Batch_write_set` and its like), the text of errors and
  the parsing of addresses: formatting. `BatchReplies` has replies that are added
  during a round of the iterator (`WritesMidway`) in its proofs only: after a
  multibulk reply that was the last one the round ends although more were added.
* Out of memory: the code does not handle it. Lengths beyond `INT_MAX` given to
  `Batch_write`.
* A server that sends more replies than it got commands, or without end.
* In `Memory`: a negative count of a multibulk reply, which only an overflow in
  `atoi` brings about; its counts run from 0 to `MaxCount`. `ReplyParser` has them.
* In `Buffer`: the overflow of `int min_remaining`, an eighth of a capacity of 16 GB;
  `Buffer_dump` (prints), `Buffer_set_position` and `Buffer_set_limit`
  (no caller), and a write to a batch that was already executed: its buffer is
  flipped, which `Buffer_ensure_remaining` asserts cannot be.
* Threads that race on `Module.allocated` in a multithreaded build: `Memory` is one
  thread's.
* In the PHP extension: conversion of arguments and replies, PHP's own time
  limit ending a request inside `Executor_execute`, and PHP objects that come or go in
  other ways than the classes mean: `clone`, `new` without the methods of
  `Redis`, and an explicit call of `__destruct()`.
* An object given back to the library after `Module_free`.
* Total weights of 0 or beyond `unsigned long` in Ketama; `md5.c` and `list.h`, which
  are third-party code; `redis.py`, a binding without logic, and the tests; the
  build files.
* Servers added to a Ketama after its ring was made (`AddsLate`) are covered by the
  proofs only.
