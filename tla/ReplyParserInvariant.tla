------------------------ MODULE ReplyParserInvariant ------------------------
(***************************************************************************)
(* Why the reply parser reads what the grammar finds: the inductive        *)
(* invariant of the refinement of ReplyGrammar, which TLC checks and the   *)
(* proofs use.  It says what text lies between start and p in each state.  *)
(***************************************************************************)
EXTENDS ReplyParser

\* The count that begins behind the byte at q has been read as far as state says.
CountText(q, first) ==
    /\ cs = first => p = q
    /\ cs = first + 1 => p = q + 1 /\ stream[q + 1] = "-"
    /\ cs = first + 2 => p = q + 2 /\ stream[q + 1] = "-" /\ stream[q + 2] = "1"
    /\ cs = first + 3 => /\ p = q + 3 /\ stream[q + 1] = "-" /\ stream[q + 2] = "1"
                         /\ stream[q + 3] = "CR"
    /\ cs = first + 4 => /\ mark = q /\ q < p
                         /\ \A k \in q + 1 .. p : stream[k] \in Grammar!DigitSet
    /\ cs = first + 5 => /\ q + 1 < p /\ stream[p] = "CR"
                         /\ \A k \in q + 1 .. p - 1 : stream[k] \in Grammar!DigitSet

\* A line has been read as far as its state says.
LineText ==
    /\ cs \in {1, 2} => stream[start + 1] = "+"
    /\ cs \in {3, 4} => stream[start + 1] = "-"
    /\ cs \in {19, 20} => stream[start + 1] = ":"
    /\ mark = start + 1
    /\ cs \in {1, 3, 19} => \A k \in start + 2 .. p : stream[k] # "CR"
    /\ cs \in {2, 4, 20} => /\ stream[p] = "CR"
                            /\ \A k \in start + 2 .. p - 1 : stream[k] # "CR"

\* The count that begins behind q ended with a line end whose LF is at h.
Header(q, h) ==
    /\ q + 2 < h
    /\ stream[h - 1] = "CR" /\ stream[h] = "LF"
    /\ \A k \in q + 1 .. h - 2 : stream[k] \in Grammar!DigitSet

\* The bulk reply that begins at q has been read as far as the state says.
BulkText(q) ==
    /\ cs = 0 => p + 1 = q
    /\ cs # 0 => stream[q] = "$" /\ q <= p
    /\ CountText(q, 5)
    /\ cs = 10 => bulk_count = Grammar!Number(stream, q + 1, p - 1)
    /\ cs \in {11, 12} => Header(q, mark) /\ bulk_count >= 0
    /\ cs = 11 => bulk_count + (p - mark) = Grammar!Number(stream, q + 1, mark - 2)
    /\ cs = 12 => /\ p - 1 - mark = Grammar!Number(stream, q + 1, mark - 2)
                  /\ stream[p] = "CR"

Prefix(n) == SubSeq(stream, 1, n)

\* The multibulk reply that begins at start is open: its elements so far are
\* those the grammar finds, one behind the other, from ats[0] on, in any bytes
\* that go on long enough.
Opened(ats) ==
    /\ start < p /\ stream[start + 1] = "*"
    /\ ats \in [0 .. Len(multibulk_reply.children) -> 1 .. p + 1]
    /\ \A n \in 0 .. Len(stream) : ats[0] <= n + 1 =>
          Grammar!Count(Prefix(n), start + 2) =
            Grammar!Found(multibulk_reply.len, ats[0])
    /\ \A k \in 1 .. Len(multibulk_reply.children) :
          \A n \in 0 .. Len(stream) : ats[k] <= n + 1 =>
             Grammar!Bulk(Prefix(n), ats[k - 1]) =
               Grammar!Found(multibulk_reply.children[k], ats[k])

\* What has been read of the reply that begins at start, when it is no open
\* multibulk reply.
SingleText ==
    /\ cs # 0 => start < p
    /\ cs \in {1, 2, 3, 4, 19, 20} => LineText
    /\ cs \in {0} \cup (5..12) => BulkText(start + 1)
    /\ cs \in 13..17 => stream[start + 1] = "*" /\ CountText(start + 1, 13)

\* What has been read of the open multibulk reply, and of its next element.
OpenText ==
    /\ multibulk_count >= 0
    /\ cs = 18 => /\ start < p /\ stream[start + 1] = "*"
                  /\ CountText(start + 1, 13)
                  /\ multibulk_count = Grammar!Number(stream, start + 2, p - 1)
                  /\ multibulk_reply.children = <<>>
    /\ cs # 18 => /\ cs \in {0} \cup (5..12)
                  /\ \E ats \in [0 .. Len(multibulk_reply.children) -> 1 .. p + 1] :
                        /\ Opened(ats)
                        /\ BulkText(ats[Len(multibulk_reply.children)])

\* The reply that is being read has been read as far as the state says.
ReadSoFar ==
    /\ multibulk_reply = NULL => SingleText
    /\ multibulk_reply # NULL => OpenText

\* The invariant, for the streams whose counts an int can hold.
GrammarInv ==
    /\ len <= Len(stream)
    /\ Grammar!CountsFit(stream) => ReadSoFar
=============================================================================
