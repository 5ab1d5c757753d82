---------------------------- MODULE ReplyGrammar ----------------------------
(***************************************************************************)
(* What a Redis server's bytes mean, reply by reply, as the table of       *)
(* src/libredis/parser.c:75-84 gives it, read by recursive descent over    *)
(* all the bytes there are; and what follows for a reader that is given    *)
(* ever more of them.  It knows nothing of buffers or of states: it is     *)
(* what the parser is compared with.                                       *)
(*                                                                         *)
(* A verdict is what was found and where the next starts, "more" when s    *)
(* could still go on to be it, or "error" when it cannot.                  *)
(***************************************************************************)
EXTENDS Integers, Sequences

CONSTANTS Streams, Restarts, IntMax

VARIABLES
    stream, len,    \* what the server sends, and how much of it has come
    at,             \* where the next reply begins
    replies,        \* those that were returned
    result          \* of the last call, or "NONE" inside a call

vars == <<stream, len, at, replies, result>>

Digit == <<"0", "1", "2", "3", "4", "5", "6", "7", "8", "9">>
DigitSet == {Digit[d] : d \in 1..10}

More == [verdict |-> "more"]
Error == [verdict |-> "error"]
Found(what, next) == [verdict |-> "found", what |-> what, next |-> next]
Piece(type, offset, length, children) ==
    [type |-> type, offset |-> offset, len |-> length, children |-> children]

\* The least position from i on where s ends or has a byte that is not in S.
FirstNotIn(s, i, S) ==
    CHOOSE j \in i .. Len(s) + 1 :
        /\ j > Len(s) \/ s[j] \notin S
        /\ \A k \in i .. j - 1 : s[k] \in S

\* A line end at i, then whatever v is.
LineEnd(s, i, v) ==
    IF i > Len(s) THEN More
    ELSE IF s[i] # "CR" THEN Error
    ELSE IF i + 1 > Len(s) THEN More
    ELSE IF s[i + 1] # "LF" THEN Error ELSE v

Line(s, i, type) ==
    LET cr == FirstNotIn(s, i, STRING \ {"CR"})
    IN LineEnd(s, cr, Found(Piece(type, i - 1, cr - i, <<>>), cr + 2))

Number(s, i, j) ==
    LET n[k \in i - 1 .. j] ==
            IF k < i THEN 0
            ELSE 10 * n[k - 1] + (CHOOSE d \in 0..9 : Digit[d + 1] = s[k])
    IN n[j]

\* A count and its line end; the count of a nil reply is -1.
Count(s, i) ==
    LET end == FirstNotIn(s, i, DigitSet)
    IN IF i > Len(s) THEN More
       ELSE IF s[i] = "-"
       THEN IF i + 1 > Len(s) THEN More
            ELSE IF s[i + 1] # "1" THEN Error
            ELSE LineEnd(s, i + 2, Found(-1, i + 4))
       ELSE IF end = i THEN Error
       ELSE LineEnd(s, end, Found(Number(s, i, end - 1), end + 2))

\* The bulk reply whose "$" is at i.
Bulk(s, i) ==
    LET count == Count(s, i + 1)
        n == count.what
        j == count.next
    IN IF i > Len(s) THEN More
       ELSE IF s[i] # "$" THEN Error
       ELSE IF count.verdict # "found" THEN count
       ELSE IF n = -1 THEN Found(Piece("BULK_NIL", 0, 0, <<>>), j)
       ELSE LineEnd(s, j + n, Found(Piece("BULK", j - 1, n, <<>>), j + n + 2))

\* The multibulk reply whose n elements start at i.
Elements(s, i, n) ==
    LET first[k \in 0..n] ==
            IF k = 0 THEN Found(Piece("MULTIBULK", 0, n, <<>>), i)
            ELSE LET before == first[k - 1]
                     element == Bulk(s, before.next)
                 IN IF before.verdict # "found" THEN before
                    ELSE IF element.verdict # "found" THEN element
                    ELSE Found([before.what EXCEPT !.children = Append(@, element.what)],
                               element.next)
    IN first[n]

Multibulk(s, i) ==
    LET count == Count(s, i + 1)
    IN IF count.verdict # "found" THEN count
       ELSE IF count.what = -1
       THEN Found(Piece("MULTIBULK_NIL", 0, 0, <<>>), count.next)
       ELSE Elements(s, count.next, count.what)

\* The reply at position i of s.
ReplyAt(s, i) ==
    IF i > Len(s) THEN More
    ELSE CASE s[i] = "+" -> Line(s, i + 1, "OK")
           [] s[i] = "-" -> Line(s, i + 1, "ERROR")
           [] s[i] = ":" -> Line(s, i + 1, "INTEGER")
           [] s[i] = "$" -> Bulk(s, i)
           [] s[i] = "*" -> Multibulk(s, i)
           [] OTHER -> Error

\* An int can hold every count of s.
CountsFit(s) ==
    \A i, j \in 1..Len(s) :
        /\ i < j
        /\ s[i] \in {"$", "*"}
        /\ \A k \in i + 1 .. j : s[k] \in DigitSet
        => Number(s, i + 1, j) <= IntMax

-----------------------------------------------------------------------------
Init ==
    /\ stream \in Streams
    /\ len = 0 /\ at = 1 /\ replies = <<>>
    /\ result = "RPR_MORE"

\* More bytes have come, or the next reply is asked for.
Call ==
    /\ result \in {"RPR_MORE", "RPR_REPLY"}
    /\ result' = "NONE"
    /\ len' \in len .. Len(stream)
    /\ UNCHANGED <<stream, at, replies>>

Verdict == ReplyAt(SubSeq(stream, 1, len), at)

ReturnReply ==
    /\ result = "NONE" /\ Verdict.verdict = "found"
    /\ replies' = Append(replies, Verdict.what)
    /\ at' = Verdict.next
    /\ result' = "RPR_REPLY"
    /\ UNCHANGED <<stream, len>>

AskForMore ==
    /\ result = "NONE" /\ Verdict = More
    /\ result' = "RPR_MORE"
    /\ UNCHANGED <<stream, len, at, replies>>

RefuseBytes ==
    /\ result = "NONE" /\ Verdict = Error
    /\ result' = "RPR_ERROR"
    /\ UNCHANGED <<stream, len, at, replies>>

\* What no int can count has no meaning.
Senseless ==
    /\ result = "NONE" /\ result' # "NONE"
    /\ ~CountsFit(stream)
    /\ UNCHANGED <<stream, len>>

\* Another conversation begins.
Reset ==
    /\ result # "NONE"
    /\ stream' \in Restarts
    /\ len' = 0 /\ at' = 1 /\ replies' = <<>>
    /\ result' = "RPR_MORE"

Next == Call \/ ReturnReply \/ AskForMore \/ RefuseBytes \/ Senseless \/ Reset

Spec == Init /\ [][Next]_vars
=============================================================================
