--------------------------- MODULE MCReplyParser ---------------------------
(***************************************************************************)
(* The reply parser on conversations of one or two replies of every type,  *)
(* whole or with one byte changed or lost, read in every possible way.     *)
(***************************************************************************)
EXTENDS ReplyParserInvariant

End == <<"CR", "LF">>
BulkOf(size, text) == <<"$", size>> \o End \o text \o End
NilBulkBytes == <<"$", "-", "1">> \o End

Lines == {<<"+", "x">> \o End, <<"-">> \o End, <<":", "1", "2">> \o End}
Bulks == {NilBulkBytes, BulkOf("0", <<>>), BulkOf("3", <<"CR", "LF", "$">>)}
Multibulks == {
    <<"*", "-", "1">> \o End,
    <<"*", "0">> \o End,
    <<"*", "2">> \o End \o NilBulkBytes \o BulkOf("1", <<"*">>),
    <<"*", "1">> \o End \o BulkOf("2", <<"x", "CR">>)}
Samples == Lines \cup Bulks \cup Multibulks
Alphabet == {"$", "*", "+", "-", "CR", "LF", "0", "2", "x"}

Changed(s) == {[s EXCEPT ![i] = b] : i \in 1..Len(s), b \in Alphabet}
Lost(s) == {SubSeq(s, 1, i - 1) \o SubSeq(s, i + 1, Len(s)) : i \in 1..Len(s)}
Pairs == {s \o t : s, t \in Samples}

\* Counts beyond IntMax = 39, where what atoi returns is undefined.
LongCounts == {
    <<"$", "4", "9">> \o End \o <<"x", "x">> \o End,
    <<"*", "4", "0">> \o End \o NilBulkBytes \o NilBulkBytes,
    <<"*", "7", "9">> \o End \o BulkOf("8", <<"x">>) \o <<"+", "x">> \o End}

AllStreams ==
    Samples \cup Pairs \cup LongCounts
        \cup UNION {Changed(s) \cup Lost(s) : s \in Samples}
        \cup UNION {Lost(s) : s \in Pairs}
OneRestart == {<<"+", "x">> \o End}

\* What a server answers to EXEC when the transaction held an INCR and a GET.
ExecStream == <<"*", "2">> \o End \o <<":", "1">> \o End \o NilBulkBytes
ExecStreams == {ExecStream} \cup Samples \cup Pairs

\* The library knows about any possible Redis result (README:27): the parser
\* finds no error in what a server correctly sends.
EveryResultParses == result # "RPR_ERROR"
=============================================================================
