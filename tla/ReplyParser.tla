---------------------------- MODULE ReplyParser ----------------------------
(***************************************************************************)
(* The reply parser of src/libredis/parser.c, called the way               *)
(* Connection_read_data calls it: ReplyParser_execute walks over the read  *)
(* buffer, is called again after each reply it returns, and after read()   *)
(* has brought more bytes when it returned RPR_MORE.                       *)
(*                                                                         *)
(* One action is one turn of the loop of ReplyParser_execute; cs keeps the *)
(* source's numbers.  The three kinds of line share their actions, and so  *)
(* do the two kinds of count.  A byte is its character; a Reply refers to  *)
(* the read buffer by offset and length, as in the code.                   *)
(***************************************************************************)
EXTENDS Integers, Sequences

CONSTANTS
    Streams,    \* what servers may send, each a sequence of bytes
    Restarts,   \* the streams that may follow after ReplyParser_reset
    IntMax      \* INT_MAX

ASSUME StreamsAssumption ==
    Restarts \subseteq Streams /\ Streams \subseteq Seq(STRING)
ASSUME IntMaxAssumption == IntMax \in Nat

VARIABLES
    stream,     \* what the server sends
    len,        \* how much of it is in the read buffer
    p, cs, bulk_count, multibulk_count, multibulk_reply, mark,
    replies,    \* what ReplyParser_execute has returned since the reset
    result,     \* of the last call, or "NONE" inside a call
    start       \* history: how many bytes were those of replies

counts == <<bulk_count, multibulk_count, multibulk_reply>>
vars == <<stream, len, p, cs, counts, mark, replies, result, start>>

CInt == -(IntMax + 1) .. IntMax

Reply_new(type, offset, length) ==
    [type |-> type, offset |-> offset, len |-> length, children |-> <<>>]
NULL == Reply_new("NONE", 0, 0)

SimpleTypes == {"OK", "ERROR", "INTEGER", "BULK", "BULK_NIL", "MULTIBULK_NIL"}
Simple == [type : SimpleTypes, offset : Nat, len : Nat, children : {<<>>}]
Multibulk == [type : {"MULTIBULK"}, offset : {0}, len : CInt,
              children : Seq(Simple)]

\* Every variable has the type of the C variable it stands for.
TypeOK ==
    /\ stream \in Seq(STRING)
    /\ len \in Nat /\ p \in Nat /\ mark \in Nat /\ start \in Nat
    /\ cs \in 0..20
    /\ bulk_count \in CInt /\ multibulk_count \in CInt
    /\ multibulk_reply \in Multibulk \cup {NULL}
    /\ replies \in Seq(Simple \cup Multibulk)
    /\ result \in {"NONE", "RPR_MORE", "RPR_REPLY", "RPR_ERROR"}

Init ==
    /\ stream \in Streams
    /\ len = 0 /\ p = 0 /\ cs = 0 /\ mark = 0
    /\ bulk_count = 0 /\ multibulk_count = 0 /\ multibulk_reply = NULL
    /\ replies = <<>> /\ start = 0
    /\ result = "RPR_MORE"

-----------------------------------------------------------------------------
Digits == [d \in {"0", "1", "2", "3", "4", "5", "6", "7", "8", "9"} |->
    CASE d = "0" -> 0 [] d = "1" -> 1 [] d = "2" -> 2 [] d = "3" -> 3
      [] d = "4" -> 4 [] d = "5" -> 5 [] d = "6" -> 6 [] d = "7" -> 7
      [] d = "8" -> 8 [] d = "9" -> 9]
isdigit(c) == c \in DOMAIN Digits

\* The number the digits in the read buffer from mark up to p stand for.
Number ==
    LET value[i \in 0..p] ==
            IF i <= mark THEN 0 ELSE 10 * value[i - 1] + Digits[stream[i]]
    IN value[p]

\* What an int may hold when it should hold x: beyond INT_MAX, in atoi and in a
\* subtraction alike, the behaviour is undefined.
Holds(n, x) == n \in CInt /\ (x \in CInt => n = x)

\* The byte the loop looks at.
c == stream[p + 1]

\* The states after the first byte of a reply.
FirstState == [b \in {"$", "+", "-", "*", ":"} |->
    CASE b = "$" -> 5 [] b = "+" -> 1 [] b = "-" -> 3 [] b = "*" -> 13
      [] b = ":" -> 19]

LineTypes == [s \in {2, 4, 20} |->
    CASE s = 2 -> "OK" [] s = 4 -> "ERROR" [] s = 20 -> "INTEGER"]

\* Mutant of PayloadLength: the payload is taken to be in the buffer.
PayloadLengthAnnounced == bulk_count

\* MIN(rp->bulk_count, len - rp->p), where the comparison is unsigned.
PayloadLength ==
    IF bulk_count < 0 \/ bulk_count > len - p THEN len - p ELSE bulk_count

\* Mutant of Starts: any reply may start inside a multibulk reply.
StartsAny == DOMAIN FirstState

\* The bytes a reply may start with.
Starts == IF multibulk_count = 0 THEN DOMAIN FirstState ELSE {"$"}

\* The byte is one that the state has a case for.
Accepts ==
    \/ cs = 0 /\ c \in Starts
    \/ cs \in {1, 3, 19}
    \/ cs \in {2, 4, 8, 10, 12, 16, 18, 20} /\ c = "LF"
    \/ cs \in {5, 13} /\ (c = "-" \/ isdigit(c))
    \/ cs \in {6, 14} /\ c = "1"
    \/ cs \in {7, 15} /\ c = "CR"
    \/ cs \in {9, 17} /\ (c = "CR" \/ isdigit(c))
    \/ cs = 11 /\ (PayloadLength > 0 \/ c = "CR")

InLoop == result = "NONE" /\ p < len

\* One more byte is consumed in one of these states, and s is the next state.
Consume(states, s) ==
    /\ InLoop
    /\ cs \in states
    /\ Accepts
    /\ p' = p + 1
    /\ cs' = s
    /\ UNCHANGED <<stream, len>>

Continue == UNCHANGED <<replies, result, start>>

\* RPR_REPLY with this reply.
Report(reply) ==
    /\ replies' = Append(replies, reply)
    /\ result' = "RPR_REPLY"
    /\ start' = p + 1

\* Mutant of Bulk: the multibulk is reported before its last element.
BulkEarly(reply) ==
    \/ /\ multibulk_count <= 0
       /\ Report(reply)
       /\ UNCHANGED counts
    \/ /\ multibulk_count > 0
       /\ Report(multibulk_reply)
       /\ multibulk_count' = 0
       /\ multibulk_reply' = NULL
       /\ UNCHANGED bulk_count

\* A bulk reply is complete: it is the caller's or an element of a multibulk.
Bulk(reply) ==
    \/ /\ multibulk_count <= 0
       /\ Report(reply)
       /\ UNCHANGED counts
    \/ /\ multibulk_count > 0
       /\ multibulk_count' = multibulk_count - 1
       /\ UNCHANGED bulk_count
       /\ LET whole == [multibulk_reply EXCEPT !.children = Append(@, reply)]
          IN IF multibulk_count = 1
             THEN Report(whole) /\ multibulk_reply' = NULL
             ELSE Continue /\ multibulk_reply' = whole

-----------------------------------------------------------------------------
FirstByte ==
    /\ Consume({0}, FirstState[c])
    /\ mark' = IF c \in {"+", "-", ":"} THEN p + 1 ELSE mark
    /\ Continue
    /\ UNCHANGED counts

\* States 1, 3 and 19: the text of a line.
LineByte ==
    /\ Consume({1, 3, 19}, IF c = "CR" THEN cs + 1 ELSE cs)
    /\ Continue
    /\ UNCHANGED <<counts, mark>>

LineEnd ==
    /\ Consume({2, 4, 20}, 0)
    /\ Report(Reply_new(LineTypes[cs], mark, p - 1 - mark))
    /\ UNCHANGED <<counts, mark>>

\* States 5 and 13: a count, or the minus of a nil reply.
CountStart ==
    /\ Consume({5, 13}, IF c = "-" THEN cs + 1 ELSE cs + 4)
    /\ mark' = IF c = "-" THEN mark ELSE p
    /\ Continue
    /\ UNCHANGED counts

NilCount ==
    /\ Consume({6, 7, 14, 15}, cs + 1)
    /\ Continue
    /\ UNCHANGED <<counts, mark>>

NilBulk ==
    /\ Consume({8}, 0)
    /\ Bulk(Reply_new("BULK_NIL", 0, 0))
    /\ UNCHANGED mark

NilMultibulk ==
    /\ Consume({16}, 0)
    /\ Report(Reply_new("MULTIBULK_NIL", 0, 0))
    /\ UNCHANGED <<counts, mark>>

CountDigit ==
    /\ Consume({9, 17}, cs)
    /\ isdigit(c)
    /\ Continue
    /\ UNCHANGED <<counts, mark>>

BulkCountEnd ==
    /\ Consume({9}, 10)
    /\ c = "CR"
    /\ \E n \in CInt : Holds(n, Number) /\ bulk_count' = n
    /\ Continue
    /\ UNCHANGED <<multibulk_count, multibulk_reply, mark>>

MultibulkCountEnd ==
    /\ Consume({17}, 18)
    /\ c = "CR"
    /\ \E n \in CInt :
          /\ Holds(n, Number)
          /\ multibulk_count' = n
          /\ multibulk_reply' = [Reply_new("MULTIBULK", 0, 0) EXCEPT !.len = n]
    /\ Continue
    /\ UNCHANGED <<bulk_count, mark>>

\* Mutant of PayloadStart: the mark is set before the line feed is passed.
PayloadStartEarly ==
    /\ Consume({10}, 11)
    /\ mark' = p
    /\ Continue
    /\ UNCHANGED counts

PayloadStart ==
    /\ Consume({10}, 11)
    /\ mark' = p + 1
    /\ Continue
    /\ UNCHANGED counts

\* As much of the payload as the buffer holds is skipped at once.
Payload ==
    /\ InLoop
    /\ cs = 11
    /\ PayloadLength > 0
    /\ p' = p + PayloadLength
    /\ \E n \in CInt :
          Holds(n, bulk_count - PayloadLength) /\ bulk_count' = n
    /\ Continue
    /\ UNCHANGED <<stream, len, cs, multibulk_count, multibulk_reply, mark>>

PayloadEnd ==
    /\ Consume({11}, 12)
    /\ PayloadLength = 0
    /\ Continue
    /\ UNCHANGED <<counts, mark>>

BulkEnd ==
    /\ Consume({12}, 0)
    /\ Bulk(Reply_new("BULK", mark, p - 1 - mark))
    /\ UNCHANGED mark

MultibulkStart ==
    /\ Consume({18}, 0)
    /\ \/ /\ multibulk_count = 0
          /\ Report(multibulk_reply)
          /\ multibulk_reply' = NULL
       \/ /\ multibulk_count # 0
          /\ Continue
          /\ UNCHANGED multibulk_reply
    /\ UNCHANGED <<bulk_count, multibulk_count, mark>>

\* RPR_ERROR: the caller aborts the connection.
Unexpected ==
    /\ InLoop
    /\ ~Accepts
    /\ result' = "RPR_ERROR"
    /\ UNCHANGED <<stream, len, p, cs, counts, mark, replies, start>>

\* RPR_MORE.
BufferEnd ==
    /\ result = "NONE"
    /\ p >= len
    /\ result' = "RPR_MORE"
    /\ UNCHANGED <<stream, len, p, cs, counts, mark, replies, start>>

-----------------------------------------------------------------------------
(***************************************************************************)
(* The caller, Connection_read_data.                                       *)
(***************************************************************************)

\* The batch has another command, so the parser is called again.
NextReply ==
    /\ result = "RPR_REPLY"
    /\ result' = "NONE"
    /\ UNCHANGED <<stream, len, p, cs, counts, mark, replies, start>>

\* read() brings k more bytes.
Recv(k) ==
    /\ result = "RPR_MORE"
    /\ len + k <= Len(stream)
    /\ len' = len + k
    /\ result' = "NONE"
    /\ UNCHANGED <<stream, p, cs, counts, mark, replies, start>>

\* Mutant of ReplyParser_reset: a multibulk that was cut short stays open.
ReplyParser_reset_open(s) ==
    /\ result # "NONE"
    /\ stream' = s
    /\ len' = 0 /\ p' = 0 /\ cs' = 0 /\ mark' = 0
    /\ bulk_count' = 0
    /\ UNCHANGED <<multibulk_count, multibulk_reply>>
    /\ replies' = <<>> /\ start' = 0
    /\ result' = "RPR_MORE"

\* ReplyParser_reset, when the next batch is executed: its read buffer is empty.
ReplyParser_reset(s) ==
    /\ result # "NONE"
    /\ stream' = s
    /\ len' = 0 /\ p' = 0 /\ cs' = 0 /\ mark' = 0
    /\ bulk_count' = 0 /\ multibulk_count' = 0 /\ multibulk_reply' = NULL
    /\ replies' = <<>> /\ start' = 0
    /\ result' = "RPR_MORE"

ReplyParser_execute ==
    \/ FirstByte \/ LineByte \/ LineEnd
    \/ CountStart \/ NilCount \/ NilBulk \/ NilMultibulk
    \/ CountDigit \/ BulkCountEnd \/ MultibulkCountEnd
    \/ PayloadStart \/ Payload \/ PayloadEnd \/ BulkEnd \/ MultibulkStart
    \/ Unexpected \/ BufferEnd

Next ==
    \/ ReplyParser_execute
    \/ NextReply
    \/ \E k \in 1..Len(stream) : Recv(k)
    \/ \E s \in Restarts : ReplyParser_reset(s)

Spec == Init /\ [][Next]_vars

-----------------------------------------------------------------------------
(***************************************************************************)
(* Properties.                                                             *)
(***************************************************************************)

\* The assertions of ReplyParser_execute (parser.c:91, 224, 282, 288, 402): the
\* position is within the buffer, a bulk ends when all of it was read, and there
\* is a multibulk reply to add an element to.
AssertionsHold ==
    /\ p <= len
    /\ cs = 12 => bulk_count = 0
    /\ multibulk_count > 0 => multibulk_reply # NULL

\* The text of reply r, or of its elements, ends within the first n bytes.
EndsWithin(r, n) ==
    /\ r.type # "MULTIBULK" => r.offset + r.len <= n
    /\ \A j \in 1..Len(r.children) :
          r.children[j].offset + r.children[j].len <= n

\* A multibulk reply is returned with as many elements as it announced, also
\* when elements and reads are not aligned or the count was garbage.
MultibulksComplete ==
    \A i \in 1..Len(replies) :
        replies[i].type = "MULTIBULK" => Len(replies[i].children) = replies[i].len

(***************************************************************************)
(* The inductive invariant: what each state of the parser knows.           *)
(***************************************************************************)

\* A text that is being read starts at mark and ends before p.
MarkInv ==
    /\ cs \in {1, 3, 11, 19} => mark <= p
    /\ cs \in {2, 4, 12, 20} => mark < p

\* The elements of the open multibulk reply and those to come are those that
\* were announced, and nothing but bulk replies is read while it is open.
MultibulkInv ==
    /\ cs \in {1, 2, 3, 4, 13, 14, 15, 16, 17, 19, 20} => multibulk_count = 0
    /\ cs = 18 => multibulk_reply # NULL
    /\ multibulk_reply = NULL => multibulk_count = 0
    /\ multibulk_reply # NULL =>
          /\ Len(multibulk_reply.children) + multibulk_count = multibulk_reply.len
          /\ EndsWithin(multibulk_reply, p)
          /\ multibulk_count = 0 => cs = 18

\* What the parser has returned, and the open multibulk, lie before p.
ParserInv ==
    /\ p <= len
    /\ cs = 12 => bulk_count = 0
    /\ MarkInv
    /\ MultibulkInv
    /\ \A i \in 1..Len(replies) : EndsWithin(replies[i], p)
    /\ MultibulksComplete

\* The inductive invariant: every variable has its type, whatever atoi returns,
\* no text begins behind its end, and an open multibulk reply lacks exactly the
\* elements that are still counted.
Inv == TypeOK /\ ParserInv

\* Whenever ReplyParser_execute returns, it returns what the grammar finds in the
\* bytes read so far behind the replies before: the next reply, with the very same
\* texts; RPR_MORE only when that reply is not there yet, and RPR_ERROR exactly
\* when the bytes cannot go on to be one.  It makes no difference how they were
\* cut, nor where the parser stood when it was reset.
Grammar == INSTANCE ReplyGrammar WITH at <- start + 1
ReadsGrammar == Grammar!Spec
=============================================================================
