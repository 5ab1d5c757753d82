-------------------------- MODULE ReplyParserProofs -------------------------
(***************************************************************************)
(* The reply parser never leaves the read buffer, never fails one of its   *)
(* assertions and returns only complete multibulk replies, for every       *)
(* stream of bytes, every way to cut it and every outcome of atoi.  And    *)
(* what it returns is what ReplyGrammar finds in the stream.               *)
(***************************************************************************)
EXTENDS ReplyParserInvariant, WellFoundedInduction, TLAPS

\* The parts of Inv: what was returned, the open multibulk, and the scalars.
RepliesOK ==
    /\ replies \in Seq(Simple \cup Multibulk)
    /\ \A i \in 1..Len(replies) : EndsWithin(replies[i], p)
    /\ MultibulksComplete

PendingOK ==
    /\ multibulk_reply \in Multibulk \cup {NULL}
    /\ multibulk_reply # NULL => EndsWithin(multibulk_reply, p)

ScalarsOK ==
    /\ stream \in Seq(STRING)
    /\ len \in Nat /\ p \in Nat /\ mark \in Nat /\ start \in Nat /\ p <= len
    /\ cs \in 0..20
    /\ bulk_count \in CInt /\ multibulk_count \in CInt
    /\ result \in {"NONE", "RPR_MORE", "RPR_REPLY", "RPR_ERROR"}
    /\ cs = 12 => bulk_count = 0
    /\ MarkInv

CountOK ==
    /\ cs \in {1, 2, 3, 4, 13, 14, 15, 16, 17, 19, 20} => multibulk_count = 0
    /\ cs = 18 => multibulk_reply # NULL
    /\ multibulk_reply = NULL => multibulk_count = 0
    /\ multibulk_reply # NULL =>
          /\ Len(multibulk_reply.children) + multibulk_count = multibulk_reply.len
          /\ multibulk_count = 0 => cs = 18

LEMMA InvParts == Inv <=> RepliesOK /\ PendingOK /\ ScalarsOK /\ CountOK
BY DEF Inv, TypeOK, ParserInv, MultibulkInv, RepliesOK, PendingOK, ScalarsOK, CountOK

LEMMA InvPartsPrime ==
  Inv' <=> RepliesOK' /\ PendingOK' /\ ScalarsOK' /\ CountOK'
BY DEF Inv, TypeOK, ParserInv, MultibulkInv, RepliesOK, PendingOK, ScalarsOK, CountOK

LEMMA SimpleReply ==
  ASSUME NEW type \in SimpleTypes, NEW o \in Nat, NEW n \in Nat, NEW m \in Nat,
         o + n <= m
  PROVE  /\ Reply_new(type, o, n) \in Simple
         /\ EndsWithin(Reply_new(type, o, n), m)
         /\ Reply_new(type, o, n).type # "MULTIBULK"
         /\ Reply_new(type, o, n).offset + Reply_new(type, o, n).len <= m
BY DEF Reply_new, Simple, SimpleTypes, EndsWithin

LEMMA NullIsNoMultibulk ==
  /\ NULL \notin Multibulk
  /\ NULL.type = "NONE"
BY DEF NULL, Reply_new, Multibulk

\* What ends within n bytes ends within more.
LEMMA EndsWithinMore ==
  ASSUME NEW r \in Simple \cup Multibulk, NEW n \in Nat, NEW m \in Nat,
         n <= m, EndsWithin(r, n)
  PROVE  EndsWithin(r, m)
<1>1. ASSUME NEW j \in 1..Len(r.children)
      PROVE  r.children[j].offset + r.children[j].len <= m
  <2>1. CASE r \in Simple
    BY <1>1, <2>1 DEF Simple
  <2>2. CASE r \in Multibulk
    <3>1. r.children \in Seq(Simple)
      BY <2>2 DEF Multibulk
    <3>2. r.children[j] \in Simple
      BY <1>1, <3>1
    <3>3. r.children[j].offset \in Nat /\ r.children[j].len \in Nat
      BY <3>2 DEF Simple
    <3> QED
      BY <1>1, <3>3 DEF EndsWithin
  <2> QED
    BY <2>1, <2>2
<1>2. r.type # "MULTIBULK" => r.offset + r.len <= m
  BY DEF EndsWithin, Simple, Multibulk
<1> QED
  BY <1>1, <1>2 DEF EndsWithin

LEMMA KeepsReplies ==
  ASSUME RepliesOK, p \in Nat, p' \in Nat, p <= p', replies' = replies
  PROVE  RepliesOK'
<1>1. ASSUME NEW i \in 1..Len(replies) PROVE EndsWithin(replies[i], p')
  BY <1>1, EndsWithinMore DEF RepliesOK
<1> QED
  BY <1>1 DEF RepliesOK, MultibulksComplete, EndsWithin

LEMMA KeepsPending ==
  ASSUME PendingOK, p \in Nat, p' \in Nat, p <= p',
         multibulk_reply' = multibulk_reply
  PROVE  PendingOK'
<1>1. multibulk_reply # NULL => EndsWithin(multibulk_reply, p')
  BY EndsWithinMore DEF PendingOK
<1> QED
  BY <1>1 DEF PendingOK, EndsWithin

LEMMA ReportsReply ==
  ASSUME RepliesOK, p \in Nat, p' \in Nat, p <= p',
         NEW r \in Simple \cup Multibulk, EndsWithin(r, p'),
         r.type = "MULTIBULK" => Len(r.children) = r.len,
         Report(r)
  PROVE  RepliesOK' /\ result' = "RPR_REPLY" /\ start' = p + 1
<1>1. replies \in Seq(Simple \cup Multibulk) /\ replies' = Append(replies, r)
  BY DEF RepliesOK, Report
<1>2. /\ replies' \in Seq(Simple \cup Multibulk)
      /\ Len(replies') = Len(replies) + 1
      /\ replies'[Len(replies) + 1] = r
      /\ \A i \in 1..Len(replies) : replies'[i] = replies[i]
  BY <1>1
<1>3. ASSUME NEW i \in 1..Len(replies')
      PROVE  /\ EndsWithin(replies'[i], p')
             /\ replies'[i].type = "MULTIBULK"
                  => Len(replies'[i].children) = replies'[i].len
  <2>1. CASE i = Len(replies) + 1
    BY <1>2, <2>1
  <2>2. CASE i \in 1..Len(replies)
    <3>1. replies[i] \in Simple \cup Multibulk /\ EndsWithin(replies[i], p)
      BY <1>1, <2>2 DEF RepliesOK
    <3>2. EndsWithin(replies[i], p')
      BY <3>1, EndsWithinMore
    <3> QED
      BY <1>2, <2>2, <3>2 DEF RepliesOK, MultibulksComplete
  <2> QED
    BY <1>1, <1>2, <2>1, <2>2
<1>4. \A i \in 1..Len(replies') : EndsWithin(replies'[i], p')
  BY <1>3
<1>5. MultibulksComplete'
  BY <1>3 DEF MultibulksComplete
<1> QED
  BY <1>2, <1>4, <1>5 DEF RepliesOK, EndsWithin, Report

LEMMA InitInv == Init => Inv
<1> SUFFICES ASSUME Init PROVE Inv
  OBVIOUS
<1>1. stream \in Seq(STRING)
  BY StreamsAssumption DEF Init
<1>2. RepliesOK
  BY DEF Init, RepliesOK, MultibulksComplete
<1>3. PendingOK
  BY DEF Init, PendingOK
<1>4. ScalarsOK
  BY <1>1, IntMaxAssumption DEF Init, ScalarsOK, MarkInv, CInt
<1>5. CountOK
  BY DEF Init, CountOK
<1> QED
  BY <1>2, <1>3, <1>4, <1>5, InvParts

\* What one more byte does to the position, and what it leaves alone.
LEMMA ConsumeFacts ==
  ASSUME ScalarsOK, NEW S, NEW s, Consume(S, s)
  PROVE  /\ p' = p + 1 /\ p' \in Nat /\ p <= p' /\ p' <= len /\ p' # 0
         /\ cs \in S /\ cs' = s /\ Accepts /\ result = "NONE"
         /\ stream' = stream /\ len' = len
BY DEF ScalarsOK, Consume, InLoop

LEMMA FirstByteKeeps == Inv /\ FirstByte => Inv'
<1> SUFFICES ASSUME Inv, FirstByte PROVE Inv'
  OBVIOUS
<1>0. RepliesOK /\ PendingOK /\ ScalarsOK /\ CountOK
  BY InvParts
<1>1. /\ p' = p + 1 /\ p' \in Nat /\ p <= p' /\ p' <= len
      /\ cs = 0 /\ cs' = FirstState[c] /\ Accepts /\ result = "NONE"
      /\ stream' = stream /\ len' = len
  BY <1>0, ConsumeFacts DEF FirstByte
<1>2. c \in Starts /\ c \in DOMAIN FirstState
  BY <1>1 DEF Accepts, Starts, FirstState
<1>3. /\ cs' \in {1, 3, 5, 13, 19}
      /\ cs' \in {1, 3, 19} => c \in {"+", "-", ":"}
      /\ cs' # 5 => multibulk_count = 0
  BY <1>1, <1>2 DEF Starts, FirstState
<1>4. RepliesOK' /\ PendingOK'
  BY <1>0, <1>1, KeepsReplies, KeepsPending
     DEF FirstByte, Continue, counts, ScalarsOK
<1>5. ScalarsOK'
  BY <1>0, <1>1, <1>3 DEF FirstByte, Continue, counts, ScalarsOK, MarkInv
<1>6. CountOK'
  BY <1>0, <1>1, <1>3 DEF FirstByte, counts, CountOK
<1> QED
  BY <1>4, <1>5, <1>6, InvPartsPrime

\* The actions that consume one byte and change no count and no reply.
LEMMA QuietByteKeeps ==
  ASSUME Inv, NEW S \in SUBSET (1..20), NEW s \in 1..20, Consume(S, s),
         Continue, UNCHANGED counts, mark' = mark \/ (mark' \in Nat /\ mark' <= p'),
         s \in {1, 3, 19} => mark' <= p',
         s = 11 => mark' <= p',
         s \in {2, 4, 12, 20} => mark' < p',
         s \in {13, 14, 15, 16, 17} => cs \in {13, 14, 15, 16, 17},
         s \in {1, 2, 3, 4, 19, 20} => cs \in {1, 2, 3, 4, 19, 20},
         s # 18, cs # 18,
         s = 12 => bulk_count = 0
  PROVE  Inv'
<1>0. RepliesOK /\ PendingOK /\ ScalarsOK /\ CountOK
  BY InvParts
<1>1. /\ p' = p + 1 /\ p' \in Nat /\ p <= p' /\ p' <= len
      /\ cs \in S /\ cs' = s /\ result = "NONE"
      /\ stream' = stream /\ len' = len
  BY <1>0, ConsumeFacts
<1>2. RepliesOK' /\ PendingOK'
  BY <1>0, <1>1, KeepsReplies, KeepsPending DEF Continue, counts, ScalarsOK
<1>3. ScalarsOK'
  BY <1>0, <1>1 DEF Continue, counts, ScalarsOK, MarkInv
<1>4. CountOK'
  BY <1>0, <1>1 DEF counts, CountOK
<1> QED
  BY <1>2, <1>3, <1>4, InvPartsPrime

LEMMA LineByteKeeps == Inv /\ LineByte => Inv'
<1> SUFFICES ASSUME Inv, LineByte PROVE Inv'
  OBVIOUS
<1>0. ScalarsOK
  BY InvParts
<1> DEFINE s == IF c = "CR" THEN cs + 1 ELSE cs
<1>1. Consume({1, 3, 19}, s) /\ mark' = mark /\ Continue /\ UNCHANGED counts
  BY DEF LineByte
<1>2. cs \in {1, 3, 19} /\ p' = p + 1
  BY <1>0, <1>1, ConsumeFacts
<1>3. s \in {1, 2, 3, 4, 19, 20} /\ mark < p'
  BY <1>0, <1>2 DEF ScalarsOK, MarkInv
<1> HIDE DEF s
<1> QED
  BY <1>1, <1>2, <1>3, QuietByteKeeps, <1>0 DEF ScalarsOK

LEMMA CountStartKeeps == Inv /\ CountStart => Inv'
<1> SUFFICES ASSUME Inv, CountStart PROVE Inv'
  OBVIOUS
<1>0. ScalarsOK
  BY InvParts
<1> DEFINE s == IF c = "-" THEN cs + 1 ELSE cs + 4
<1>1. /\ Consume({5, 13}, s) /\ (mark' = mark \/ mark' = p)
      /\ Continue /\ UNCHANGED counts
  BY DEF CountStart
<1>2. cs \in {5, 13} /\ p' = p + 1
  BY <1>0, <1>1, ConsumeFacts
<1>3. s \in {6, 9, 14, 17} /\ (s \in {14, 17} => cs = 13)
  BY <1>2
<1>4. mark' = mark \/ (mark' \in Nat /\ mark' <= p')
  BY <1>0, <1>1, <1>2 DEF ScalarsOK
<1> HIDE DEF s
<1> QED
  BY <1>1, <1>2, <1>3, <1>4, QuietByteKeeps

LEMMA NilCountKeeps == Inv /\ NilCount => Inv'
<1> SUFFICES ASSUME Inv, NilCount PROVE Inv'
  OBVIOUS
<1>0. ScalarsOK
  BY InvParts
<1>1. /\ Consume({6, 7, 14, 15}, cs + 1) /\ mark' = mark
      /\ Continue /\ UNCHANGED counts
  BY DEF NilCount
<1>2. cs \in {6, 7, 14, 15}
  BY <1>0, <1>1, ConsumeFacts
<1>3. cs + 1 \in {7, 8, 15, 16} /\ (cs + 1 \in {15, 16} => cs \in {14, 15})
  BY <1>2
<1> QED
  BY <1>1, <1>2, <1>3, QuietByteKeeps

LEMMA CountDigitKeeps == Inv /\ CountDigit => Inv'
<1> SUFFICES ASSUME Inv, CountDigit PROVE Inv'
  OBVIOUS
<1>0. ScalarsOK
  BY InvParts
<1>1. Consume({9, 17}, cs) /\ mark' = mark /\ Continue /\ UNCHANGED counts
  BY DEF CountDigit
<1>2. cs \in {9, 17}
  BY <1>0, <1>1, ConsumeFacts
<1> QED
  BY <1>1, <1>2, QuietByteKeeps

LEMMA PayloadStartKeeps == Inv /\ PayloadStart => Inv'
<1> SUFFICES ASSUME Inv, PayloadStart PROVE Inv'
  OBVIOUS
<1>0. ScalarsOK
  BY InvParts
<1>1. Consume({10}, 11) /\ mark' = p + 1 /\ Continue /\ UNCHANGED counts
  BY DEF PayloadStart
<1>2. cs = 10 /\ p' = p + 1 /\ p' \in Nat
  BY <1>0, <1>1, ConsumeFacts
<1> QED
  BY <1>1, <1>2, QuietByteKeeps

LEMMA PayloadEndKeeps == Inv /\ PayloadEnd => Inv'
<1> SUFFICES ASSUME Inv, PayloadEnd PROVE Inv'
  OBVIOUS
<1>0. ScalarsOK
  BY InvParts
<1>1. Consume({11}, 12) /\ mark' = mark /\ Continue /\ UNCHANGED counts
  BY DEF PayloadEnd
<1>2. cs = 11 /\ p' = p + 1 /\ p < len
  BY <1>0, <1>1, ConsumeFacts DEF ScalarsOK
<1>3. bulk_count = 0
  BY <1>0, <1>2 DEF PayloadEnd, PayloadLength, ScalarsOK, CInt
<1>4. mark < p'
  BY <1>0, <1>2 DEF ScalarsOK, MarkInv
<1> QED
  BY <1>1, <1>2, <1>3, <1>4, QuietByteKeeps

LEMMA BulkCountEndKeeps == Inv /\ BulkCountEnd => Inv'
<1> SUFFICES ASSUME Inv, BulkCountEnd PROVE Inv'
  OBVIOUS
<1>0. RepliesOK /\ PendingOK /\ ScalarsOK /\ CountOK
  BY InvParts
<1>1. /\ Consume({9}, 10) /\ mark' = mark /\ Continue
      /\ UNCHANGED <<multibulk_count, multibulk_reply>>
      /\ bulk_count' \in CInt
  BY DEF BulkCountEnd, Holds
<1>2. /\ p' = p + 1 /\ p' \in Nat /\ p <= p' /\ p' <= len
      /\ cs = 9 /\ cs' = 10 /\ stream' = stream /\ len' = len
  BY <1>0, <1>1, ConsumeFacts
<1>3. RepliesOK' /\ PendingOK'
  BY <1>0, <1>1, <1>2, KeepsReplies, KeepsPending DEF Continue, ScalarsOK
<1>4. ScalarsOK'
  BY <1>0, <1>1, <1>2 DEF Continue, ScalarsOK, MarkInv
<1>5. CountOK'
  BY <1>0, <1>1, <1>2 DEF CountOK
<1> QED
  BY <1>3, <1>4, <1>5, InvPartsPrime

LEMMA MultibulkCountEndKeeps == Inv /\ MultibulkCountEnd => Inv'
<1> SUFFICES ASSUME Inv, MultibulkCountEnd PROVE Inv'
  OBVIOUS
<1>0. RepliesOK /\ PendingOK /\ ScalarsOK /\ CountOK
  BY InvParts
<1>1. PICK n \in CInt :
        /\ multibulk_count' = n
        /\ multibulk_reply' = [Reply_new("MULTIBULK", 0, 0) EXCEPT !.len = n]
  BY DEF MultibulkCountEnd
<1>2. Consume({17}, 18) /\ mark' = mark /\ Continue /\ bulk_count' = bulk_count
  BY DEF MultibulkCountEnd
<1>3. /\ p' = p + 1 /\ p' \in Nat /\ p <= p' /\ p' <= len
      /\ cs = 17 /\ cs' = 18 /\ stream' = stream /\ len' = len
  BY <1>0, <1>2, ConsumeFacts
<1>4. multibulk_reply' =
        [type |-> "MULTIBULK", offset |-> 0, len |-> n, children |-> <<>>]
  BY <1>1 DEF Reply_new
<1>5. multibulk_reply' \in Multibulk /\ EndsWithin(multibulk_reply', p')
  BY <1>4 DEF Multibulk, EndsWithin
<1>6. multibulk_reply' # NULL
  BY <1>5, NullIsNoMultibulk
<1>7. RepliesOK'
  BY <1>0, <1>2, <1>3, KeepsReplies DEF Continue, ScalarsOK
<1>8. PendingOK'
  BY <1>5 DEF PendingOK, EndsWithin
<1>9. ScalarsOK'
  BY <1>0, <1>1, <1>2, <1>3 DEF Continue, ScalarsOK, MarkInv
<1>10. Len(multibulk_reply'.children) + multibulk_count' = multibulk_reply'.len
  <2>1. Len(multibulk_reply'.children) = 0 /\ multibulk_reply'.len = n
    BY <1>4
  <2> QED
    BY <1>1, <2>1 DEF CInt
<1>11. CountOK'
  BY <1>3, <1>6, <1>10 DEF CountOK
<1> QED
  BY <1>7, <1>8, <1>9, <1>11, InvPartsPrime

LEMMA PayloadKeeps == Inv /\ Payload => Inv'
<1> SUFFICES ASSUME Inv, Payload PROVE Inv'
  OBVIOUS
<1>0. RepliesOK /\ PendingOK /\ ScalarsOK /\ CountOK
  BY InvParts
<1>1. /\ cs = 11 /\ cs' = 11 /\ p' = p + PayloadLength /\ p < len
      /\ bulk_count' \in CInt /\ PayloadLength > 0 /\ Continue
      /\ UNCHANGED <<stream, len, multibulk_count, multibulk_reply, mark>>
  BY DEF Payload, InLoop, Holds
<1>2. PayloadLength \in Nat /\ PayloadLength <= len - p
  BY <1>0, <1>1, IntMaxAssumption DEF PayloadLength, ScalarsOK, CInt
<1>3. p' \in Nat /\ p <= p' /\ p' <= len
  BY <1>0, <1>1, <1>2 DEF ScalarsOK
<1>4. RepliesOK' /\ PendingOK'
  BY <1>0, <1>1, <1>3, KeepsReplies, KeepsPending DEF Continue, ScalarsOK
<1>5. ScalarsOK'
  BY <1>0, <1>1, <1>3 DEF Continue, ScalarsOK, MarkInv
<1>6. CountOK'
  BY <1>0, <1>1 DEF CountOK
<1> QED
  BY <1>4, <1>5, <1>6, InvPartsPrime

LEMMA LineEndKeeps == Inv /\ LineEnd => Inv'
<1> SUFFICES ASSUME Inv, LineEnd PROVE Inv'
  OBVIOUS
<1>0. RepliesOK /\ PendingOK /\ ScalarsOK /\ CountOK
  BY InvParts
<1> DEFINE r == Reply_new(LineTypes[cs], mark, p - 1 - mark)
<1>1. Consume({2, 4, 20}, 0) /\ Report(r) /\ UNCHANGED <<counts, mark>>
  BY DEF LineEnd
<1>2. /\ p' = p + 1 /\ p' \in Nat /\ p <= p' /\ p' <= len
      /\ cs \in {2, 4, 20} /\ cs' = 0 /\ stream' = stream /\ len' = len
  BY <1>0, <1>1, ConsumeFacts
<1>3. /\ mark \in Nat /\ p - 1 - mark \in Nat /\ mark + (p - 1 - mark) <= p'
      /\ LineTypes[cs] \in SimpleTypes
  BY <1>0, <1>2 DEF ScalarsOK, MarkInv, LineTypes, SimpleTypes
<1>4. r \in Simple /\ EndsWithin(r, p') /\ r.type # "MULTIBULK"
  BY <1>2, <1>3, SimpleReply
<1> HIDE DEF r
<1>5. RepliesOK' /\ result' = "RPR_REPLY" /\ start' = p + 1
  BY <1>0, <1>1, <1>2, <1>4, ReportsReply DEF ScalarsOK
<1>6. PendingOK'
  BY <1>0, <1>1, <1>2, KeepsPending DEF counts, ScalarsOK
<1>7. ScalarsOK'
  BY <1>0, <1>1, <1>2, <1>5 DEF counts, ScalarsOK, MarkInv
<1>8. CountOK'
  BY <1>0, <1>1, <1>2 DEF counts, CountOK
<1> QED
  BY <1>5, <1>6, <1>7, <1>8, InvPartsPrime

LEMMA NilMultibulkKeeps == Inv /\ NilMultibulk => Inv'
<1> SUFFICES ASSUME Inv, NilMultibulk PROVE Inv'
  OBVIOUS
<1>0. RepliesOK /\ PendingOK /\ ScalarsOK /\ CountOK
  BY InvParts
<1> DEFINE r == Reply_new("MULTIBULK_NIL", 0, 0)
<1>1. Consume({16}, 0) /\ Report(r) /\ UNCHANGED <<counts, mark>>
  BY DEF NilMultibulk
<1>2. /\ p' = p + 1 /\ p' \in Nat /\ p <= p' /\ p' <= len
      /\ cs = 16 /\ cs' = 0 /\ stream' = stream /\ len' = len
  BY <1>0, <1>1, ConsumeFacts
<1>3. "MULTIBULK_NIL" \in SimpleTypes
  BY DEF SimpleTypes
<1>4. r \in Simple /\ EndsWithin(r, p') /\ r.type # "MULTIBULK"
  BY <1>2, <1>3, SimpleReply
<1> HIDE DEF r
<1>5. RepliesOK' /\ result' = "RPR_REPLY" /\ start' = p + 1
  BY <1>0, <1>1, <1>2, <1>4, ReportsReply DEF ScalarsOK
<1>6. PendingOK'
  BY <1>0, <1>1, <1>2, KeepsPending DEF counts, ScalarsOK
<1>7. ScalarsOK'
  BY <1>0, <1>1, <1>2, <1>5 DEF counts, ScalarsOK, MarkInv
<1>8. CountOK'
  BY <1>0, <1>1, <1>2 DEF counts, CountOK
<1> QED
  BY <1>5, <1>6, <1>7, <1>8, InvPartsPrime

\* A complete bulk reply goes to the caller or into the open multibulk reply.
LEMMA BulkKeeps ==
  ASSUME Inv, NEW S \in SUBSET {8, 12}, Consume(S, 0), mark' = mark,
         NEW r \in Simple, EndsWithin(r, p'), r.type # "MULTIBULK",
         r.offset + r.len <= p', Bulk(r)
  PROVE  Inv'
<1>0. RepliesOK /\ PendingOK /\ ScalarsOK /\ CountOK
  BY InvParts
<1>1. /\ p' = p + 1 /\ p' \in Nat /\ p \in Nat /\ p <= p' /\ p' <= len
      /\ cs \in {8, 12} /\ cs' = 0 /\ stream' = stream /\ len' = len
      /\ result = "NONE"
  BY <1>0, ConsumeFacts DEF ScalarsOK
<1>2. multibulk_count \in Int /\ multibulk_count - 1 \in Int
  BY <1>0 DEF ScalarsOK, CInt
<1>3. CASE multibulk_count <= 0 /\ Report(r) /\ UNCHANGED counts
  <2>1. RepliesOK' /\ result' = "RPR_REPLY" /\ start' = p + 1
    BY <1>0, <1>1, <1>3, ReportsReply
  <2>2. PendingOK'
    BY <1>0, <1>1, <1>3, KeepsPending DEF counts
  <2>3. ScalarsOK'
    BY <1>0, <1>1, <1>3, <2>1 DEF counts, ScalarsOK, MarkInv
  <2>4. CountOK'
    BY <1>0, <1>1, <1>3 DEF counts, CountOK
  <2> QED
    BY <2>1, <2>2, <2>3, <2>4, InvPartsPrime
<1>4. CASE ~(multibulk_count <= 0 /\ Report(r) /\ UNCHANGED counts)
  <2> DEFINE whole == [multibulk_reply EXCEPT !.children = Append(@, r)]
  <2>1. /\ multibulk_count > 0
        /\ multibulk_count' = multibulk_count - 1
        /\ bulk_count' = bulk_count
        /\ \/ multibulk_count = 1 /\ Report(whole) /\ multibulk_reply' = NULL
           \/ multibulk_count # 1 /\ Continue /\ multibulk_reply' = whole
    BY <1>4 DEF Bulk
  <2>2. multibulk_reply \in Multibulk /\ EndsWithin(multibulk_reply, p)
    BY <1>0, <1>2, <2>1 DEF CountOK, PendingOK
  <2>3. /\ multibulk_reply.children \in Seq(Simple)
        /\ whole.children = Append(multibulk_reply.children, r)
        /\ whole.type = "MULTIBULK" /\ whole.offset = 0
        /\ whole.len = multibulk_reply.len /\ whole.len \in CInt
    BY <2>2 DEF Multibulk
  <2>4. /\ whole \in Multibulk
        /\ Len(whole.children) = Len(multibulk_reply.children) + 1
    BY <2>2, <2>3 DEF Multibulk
  <2>5. Len(whole.children) + multibulk_count' = whole.len
    <3>1. Len(multibulk_reply.children) + multibulk_count = multibulk_reply.len
      BY <1>0, <2>2, NullIsNoMultibulk DEF CountOK
    <3>2. Len(multibulk_reply.children) \in Nat
      BY <2>3
    <3> QED
      BY <1>2, <2>1, <2>3, <2>4, <3>1, <3>2
  <2>6. EndsWithin(whole, p')
    <3>1. EndsWithin(multibulk_reply, p')
      BY <1>1, <2>2, EndsWithinMore
    <3>2. ASSUME NEW j \in 1..Len(whole.children)
          PROVE  whole.children[j].offset + whole.children[j].len <= p'
      <4>1. CASE j = Len(multibulk_reply.children) + 1
        <5>1. whole.children[j] = r
          BY <2>3, <4>1
        <5> QED
          BY <5>1
      <4>2. CASE j \in 1..Len(multibulk_reply.children)
        <5>1. whole.children[j] = multibulk_reply.children[j]
          BY <2>3, <4>2
        <5> QED
          BY <3>1, <4>2, <5>1 DEF EndsWithin
      <4> QED
        BY <2>3, <2>4, <4>1, <4>2
    <3> QED
      BY <2>3, <3>2 DEF EndsWithin
  <2>7. whole # NULL
    BY <2>4, NullIsNoMultibulk
  <2>8. multibulk_count' \in CInt
    BY <1>0, <2>1, IntMaxAssumption DEF ScalarsOK, CInt
  <2> HIDE DEF whole
  <2>9. CASE multibulk_count = 1 /\ Report(whole) /\ multibulk_reply' = NULL
    <3>1. Len(whole.children) = whole.len
      BY <2>1, <2>4, <2>5, <2>9, <2>3
    <3>2. RepliesOK' /\ result' = "RPR_REPLY" /\ start' = p + 1
      BY <1>0, <1>1, <2>4, <2>6, <2>9, <3>1, ReportsReply
    <3>3. PendingOK'
      BY <2>9 DEF PendingOK
    <3>4. ScalarsOK'
      BY <1>0, <1>1, <2>1, <2>8, <3>2 DEF ScalarsOK, MarkInv
    <3>5. CountOK'
      BY <1>1, <2>1, <2>9 DEF CountOK
    <3> QED
      BY <3>2, <3>3, <3>4, <3>5, InvPartsPrime
  <2>10. CASE multibulk_count # 1 /\ Continue /\ multibulk_reply' = whole
    <3>1. RepliesOK'
      BY <1>0, <1>1, <2>10, KeepsReplies DEF Continue
    <3>2. PendingOK'
      BY <2>4, <2>6, <2>10 DEF PendingOK, EndsWithin
    <3>3. ScalarsOK'
      BY <1>0, <1>1, <2>1, <2>8, <2>10 DEF Continue, ScalarsOK, MarkInv
    <3>4. multibulk_count' # 0
      BY <1>2, <2>1, <2>10
    <3>5. CountOK'
      BY <1>1, <2>5, <2>7, <2>10, <3>4 DEF CountOK
    <3> QED
      BY <3>1, <3>2, <3>3, <3>5, InvPartsPrime
  <2> QED
    BY <2>1, <2>9, <2>10
<1> QED
  BY <1>3, <1>4

LEMMA NilBulkKeeps == Inv /\ NilBulk => Inv'
<1> SUFFICES ASSUME Inv, NilBulk PROVE Inv'
  OBVIOUS
<1> DEFINE r == Reply_new("BULK_NIL", 0, 0)
<1>1. Consume({8}, 0) /\ Bulk(r) /\ mark' = mark
  BY DEF NilBulk
<1>2. ScalarsOK
  BY InvParts
<1>3. p' \in Nat
  BY <1>1, <1>2, ConsumeFacts
<1>4. "BULK_NIL" \in SimpleTypes
  BY DEF SimpleTypes
<1>5. /\ r \in Simple /\ EndsWithin(r, p') /\ r.type # "MULTIBULK"
      /\ r.offset + r.len <= p'
  BY <1>3, <1>4, SimpleReply
<1> HIDE DEF r
<1> QED
  BY <1>1, <1>5, BulkKeeps

LEMMA BulkEndKeeps == Inv /\ BulkEnd => Inv'
<1> SUFFICES ASSUME Inv, BulkEnd PROVE Inv'
  OBVIOUS
<1> DEFINE r == Reply_new("BULK", mark, p - 1 - mark)
<1>1. Consume({12}, 0) /\ Bulk(r) /\ mark' = mark
  BY DEF BulkEnd
<1>2. ScalarsOK
  BY InvParts
<1>3. p' = p + 1 /\ p' \in Nat /\ cs = 12
  BY <1>1, <1>2, ConsumeFacts
<1>4. /\ mark \in Nat /\ p - 1 - mark \in Nat /\ mark + (p - 1 - mark) <= p'
      /\ "BULK" \in SimpleTypes
  BY <1>2, <1>3 DEF ScalarsOK, MarkInv, SimpleTypes
<1>5. /\ r \in Simple /\ EndsWithin(r, p') /\ r.type # "MULTIBULK"
      /\ r.offset + r.len <= p'
  BY <1>3, <1>4, SimpleReply
<1> HIDE DEF r
<1> QED
  BY <1>1, <1>5, BulkKeeps

LEMMA MultibulkStartKeeps == Inv /\ MultibulkStart => Inv'
<1> SUFFICES ASSUME Inv, MultibulkStart PROVE Inv'
  OBVIOUS
<1>0. RepliesOK /\ PendingOK /\ ScalarsOK /\ CountOK
  BY InvParts
<1>1. /\ Consume({18}, 0)
      /\ UNCHANGED <<bulk_count, multibulk_count, mark>>
  BY DEF MultibulkStart
<1>2. /\ p' = p + 1 /\ p' \in Nat /\ p \in Nat /\ p <= p' /\ p' <= len
      /\ cs = 18 /\ cs' = 0 /\ stream' = stream /\ len' = len
      /\ result = "NONE"
  BY <1>0, <1>1, ConsumeFacts DEF ScalarsOK
<1>3. /\ multibulk_reply \in Multibulk /\ EndsWithin(multibulk_reply, p')
      /\ Len(multibulk_reply.children) + multibulk_count = multibulk_reply.len
  BY <1>0, <1>2, EndsWithinMore DEF CountOK, PendingOK
<1>4. CASE multibulk_count = 0 /\ Report(multibulk_reply) /\ multibulk_reply' = NULL
  <2>1. Len(multibulk_reply.children) = multibulk_reply.len
    BY <1>3, <1>4 DEF Multibulk
  <2>2. RepliesOK' /\ result' = "RPR_REPLY" /\ start' = p + 1
    BY <1>0, <1>2, <1>3, <1>4, <2>1, ReportsReply
  <2>3. PendingOK'
    BY <1>4 DEF PendingOK
  <2>4. ScalarsOK'
    BY <1>0, <1>1, <1>2, <2>2 DEF ScalarsOK, MarkInv
  <2>5. CountOK'
    BY <1>1, <1>2, <1>4 DEF CountOK
  <2> QED
    BY <2>2, <2>3, <2>4, <2>5, InvPartsPrime
<1>5. CASE multibulk_count # 0 /\ Continue /\ multibulk_reply' = multibulk_reply
  <2>1. RepliesOK' /\ PendingOK'
    BY <1>0, <1>2, <1>5, KeepsReplies, KeepsPending DEF Continue
  <2>2. ScalarsOK'
    BY <1>0, <1>1, <1>2, <1>5 DEF Continue, ScalarsOK, MarkInv
  <2>3. CountOK'
    BY <1>0, <1>1, <1>2, <1>5 DEF CountOK
  <2> QED
    BY <2>1, <2>2, <2>3, InvPartsPrime
<1> QED
  BY <1>4, <1>5 DEF MultibulkStart

\* The steps that leave the parser where it is.
LEMMA StandstillKeeps ==
  ASSUME Inv, UNCHANGED <<stream, p, cs, counts, mark, replies, start>>,
         len' \in Nat, len <= len',
         result' \in {"NONE", "RPR_MORE", "RPR_REPLY", "RPR_ERROR"}
  PROVE  Inv'
<1>0. RepliesOK /\ PendingOK /\ ScalarsOK /\ CountOK
  BY InvParts
<1>1. RepliesOK' /\ PendingOK'
  BY <1>0, KeepsReplies, KeepsPending DEF counts, ScalarsOK
<1>2. ScalarsOK'
  BY <1>0 DEF counts, ScalarsOK, MarkInv
<1>3. CountOK'
  BY <1>0 DEF counts, CountOK
<1> QED
  BY <1>1, <1>2, <1>3, InvPartsPrime

LEMMA ResetKeeps ==
  ASSUME Inv, NEW s \in Restarts, ReplyParser_reset(s)
  PROVE  Inv'
<1>1. stream' \in Seq(STRING)
  BY StreamsAssumption DEF ReplyParser_reset
<1>2. RepliesOK'
  BY DEF ReplyParser_reset, RepliesOK, MultibulksComplete
<1>3. PendingOK'
  BY DEF ReplyParser_reset, PendingOK
<1>4. ScalarsOK'
  BY <1>1, IntMaxAssumption DEF ReplyParser_reset, ScalarsOK, MarkInv, CInt
<1>5. CountOK'
  BY DEF ReplyParser_reset, CountOK
<1> QED
  BY <1>2, <1>3, <1>4, <1>5, InvPartsPrime

LEMMA NextInv == Inv /\ [Next]_vars => Inv'
<1> SUFFICES ASSUME Inv, [Next]_vars PROVE Inv'
  OBVIOUS
<1>0. ScalarsOK
  BY InvParts
<1>1. CASE Unexpected \/ BufferEnd \/ NextReply
  BY <1>0, <1>1, StandstillKeeps DEF Unexpected, BufferEnd, NextReply, ScalarsOK
<1>2. ASSUME NEW k \in 1..Len(stream), Recv(k) PROVE Inv'
  <2>1. len' \in Nat /\ len <= len'
    BY <1>0, <1>2 DEF Recv, ScalarsOK
  <2> QED
    BY <1>2, <2>1, StandstillKeeps DEF Recv
<1>3. CASE UNCHANGED vars
  BY <1>0, <1>3, StandstillKeeps DEF vars, ScalarsOK
<1>4. CASE ReplyParser_execute
  BY <1>1, <1>4, FirstByteKeeps, LineByteKeeps, LineEndKeeps, CountStartKeeps,
     NilCountKeeps, NilBulkKeeps, NilMultibulkKeeps, CountDigitKeeps,
     BulkCountEndKeeps, MultibulkCountEndKeeps, PayloadStartKeeps, PayloadKeeps,
     PayloadEndKeeps, BulkEndKeeps, MultibulkStartKeeps
     DEF ReplyParser_execute
<1> QED
  BY <1>1, <1>2, <1>3, <1>4, ResetKeeps DEF Next

\* The inductive invariant of the parser, for every stream and every way the
\* reads cut it.
THEOREM ParserInvariance == Spec => []Inv
  BY InitInv, NextInv, PTL DEF Spec

\* The counters stay in the range of a C int whatever atoi returns, and what the
\* parser keeps open is nothing or one multibulk reply of one-level elements.
THEOREM TypesAreRight == Spec => []TypeOK
<1>1. Inv => TypeOK
  BY DEF Inv
<1> QED
  BY <1>1, InitInv, NextInv, PTL DEF Spec

\* The parser stays within the read buffer, a bulk reply ends when all its bytes
\* were read, and an element always has a multibulk reply to go to: no assertion
\* of ReplyParser_execute can fail, whatever a server sends.
THEOREM ParserAssertions == Spec => []AssertionsHold
<1>1. Inv => AssertionsHold
  <2> SUFFICES ASSUME Inv PROVE AssertionsHold
    OBVIOUS
  <2>1. ScalarsOK /\ CountOK
    BY InvParts
  <2>2. multibulk_count > 0 => multibulk_reply # NULL
    BY <2>1 DEF CountOK
  <2> QED
    BY <2>1, <2>2 DEF AssertionsHold, ScalarsOK
<1> QED
  BY <1>1, InitInv, NextInv, PTL DEF Spec

\* A multibulk reply is returned with exactly the elements it announced.
THEOREM MultibulksAreComplete == Spec => []MultibulksComplete
<1>1. Inv => MultibulksComplete
  BY DEF Inv, ParserInv
<1> QED
  BY <1>1, InitInv, NextInv, PTL DEF Spec

-----------------------------------------------------------------------------
(***************************************************************************)
(* The rest of the module is about ReplyGrammar.  First, induction over    *)
(* the naturals, for a set: what is in it instead of what holds.           *)
(***************************************************************************)
LEMMA NaturalInduction ==
  ASSUME NEW S \in SUBSET Nat, 0 \in S, \A k \in S : k + 1 \in S
  PROVE  S = Nat
<1> SUFFICES ASSUME Nat \ S # {} PROVE FALSE
  OBVIOUS
<1> DEFINE R == OpToRel(<, Nat)
<1>1. IsWellFoundedOn(R, Nat)
  BY NatLessThanWellFounded
<1>2. \A k, m \in Nat : k < m => <<k, m>> \in R
  BY DEF OpToRel
<1> HIDE DEF R
<1>3. PICK m \in Nat \ S : \A k \in Nat \ S : <<k, m>> \notin R
  BY <1>1, WFMin
<1>4. m \in Nat /\ m - 1 \in Nat /\ m - 1 < m /\ (m - 1) + 1 = m
  BY <1>3
<1>5. m - 1 \in S
  BY <1>2, <1>3, <1>4
<1> QED
  BY <1>3, <1>4, <1>5

-----------------------------------------------------------------------------
(***************************************************************************)
(* The value of a text of digits.                                          *)
(***************************************************************************)

\* A function on a..b gives the digits D from position i on their value.
Adds(f, a, b, i, D) ==
    f = [k \in a..b |-> IF k < i THEN 0 ELSE 10 * f[k - 1] + D[k]]

LEMMA ValueExists ==
  ASSUME NEW a \in Nat, NEW i \in Nat, a < i, NEW D, NEW b \in Nat
  PROVE  \E f : Adds(f, a, b, i, D)
<1> DEFINE S == {n \in Nat : \E f : Adds(f, a, n, i, D)}
<1>1. 0 \in S
  <2>1. Adds([k \in a..0 |-> 0], a, 0, i, D)
    BY DEF Adds
  <2> QED
    BY <2>1
<1>2. ASSUME NEW n \in S PROVE n + 1 \in S
  <2>1. PICK f : Adds(f, a, n, i, D)
    OBVIOUS
  <2> DEFINE g == [k \in a..n + 1 |-> IF k <= n THEN f[k]
                     ELSE IF k < i THEN 0 ELSE 10 * f[k - 1] + D[k]]
  <2>2. \A k \in a..n + 1 : k <= n => g[k] = f[k]
    OBVIOUS
  <2>3. ASSUME NEW k \in a..n + 1
        PROVE  g[k] = IF k < i THEN 0 ELSE 10 * g[k - 1] + D[k]
    <3>1. ~(k < i) => g[k - 1] = f[k - 1]
      BY <2>2
    <3>2. k <= n => f[k] = IF k < i THEN 0 ELSE 10 * f[k - 1] + D[k]
      BY <2>1 DEF Adds
    <3> QED
      BY <2>2, <3>1, <3>2
  <2>4. Adds(g, a, n + 1, i, D)
    BY <2>3 DEF Adds
  <2> QED
    BY <2>4
<1> HIDE DEF S
<1>3. S = Nat
  BY <1>1, <1>2, NaturalInduction DEF S
<1> QED
  BY <1>3 DEF S

LEMMA ValueIsUnique ==
  ASSUME NEW a \in Nat, NEW a2 \in Nat, NEW i \in Nat, a < i, a2 < i,
         NEW b \in Nat, i <= b, NEW D, NEW D2,
         \A k \in i..b : D[k] = D2[k] /\ D[k] \in Nat,
         NEW f, Adds(f, a, b, i, D), NEW g, Adds(g, a2, b, i, D2)
  PROVE  f[b] = g[b] /\ f[b] \in Nat
<1> DEFINE S == {n \in Nat : i - 1 + n <= b =>
                     f[i - 1 + n] = g[i - 1 + n] /\ f[i - 1 + n] \in Nat}
<1>1. 0 \in S
  BY DEF Adds
<1>2. ASSUME NEW n \in S PROVE n + 1 \in S
  <2> SUFFICES ASSUME i + n <= b
               PROVE  f[i + n] = g[i + n] /\ f[i + n] \in Nat
    OBVIOUS
  <2>1. f[i + n] = 10 * f[i - 1 + n] + D[i + n]
    BY DEF Adds
  <2>2. g[i + n] = 10 * g[i - 1 + n] + D2[i + n]
    BY DEF Adds
  <2> QED
    BY <2>1, <2>2
<1> HIDE DEF S
<1>3. S = Nat
  BY <1>1, <1>2, NaturalInduction DEF S
<1>4. b - i + 1 \in S
  BY <1>3
<1> QED
  BY <1>4 DEF S

DigitAt(s, k) == CHOOSE d \in 0..9 : Grammar!Digit[d + 1] = s[k]

LEMMA DigitIsNatural ==
  ASSUME NEW s, NEW k, s[k] \in Grammar!DigitSet
  PROVE  DigitAt(s, k) \in Nat
<1>1. PICK e \in 1..10 : Grammar!Digit[e] = s[k]
  BY DEF Grammar!DigitSet
<1>2. e - 1 \in 0..9 /\ Grammar!Digit[(e - 1) + 1] = s[k]
  BY <1>1
<1>3. \E d \in 0..9 : Grammar!Digit[d + 1] = s[k]
  BY <1>2
<1>4. DigitAt(s, k) \in 0..9
  BY <1>3 DEF DigitAt
<1> QED
  BY <1>4

\* The two ways to write a digit's value.
LEMMA SameDigits ==
  ASSUME NEW b
  PROVE  /\ b \in DOMAIN Digits <=> b \in Grammar!DigitSet
         /\ b \in DOMAIN Digits =>
              /\ Digits[b] \in 0..9
              /\ \A d \in 0..9 : Grammar!Digit[d + 1] = b <=> d = Digits[b]
<1>1. DOMAIN Digits = {"0", "1", "2", "3", "4", "5", "6", "7", "8", "9"}
  BY DEF Digits
<1>2. Grammar!DigitSet = {"0", "1", "2", "3", "4", "5", "6", "7", "8", "9"}
  BY DEF Grammar!DigitSet, Grammar!Digit
<1>3. ASSUME b \in DOMAIN Digits
      PROVE  /\ Digits[b] \in 0..9
             /\ \A d \in 0..9 : Grammar!Digit[d + 1] = b <=> d = Digits[b]
  BY <1>1, <1>3 DEF Digits, Grammar!Digit
<1> QED
  BY <1>1, <1>2, <1>3

LEMMA NumberIsValue ==
  ASSUME NEW s, NEW i \in Nat, i > 0, NEW j \in Nat, i <= j
  PROVE  \E f : /\ Adds(f, i - 1, j, i, [k \in i..j |-> DigitAt(s, k)])
                /\ Grammar!Number(s, i, j) = f[j]
<1> DEFINE D == [k \in i..j |-> DigitAt(s, k)]
           P(f) == f = [k \in i - 1 .. j |->
                         IF k < i THEN 0
                         ELSE 10 * f[k - 1]
                           + (CHOOSE d \in 0..9 : Grammar!Digit[d + 1] = s[k])]
           n == CHOOSE f : P(f)
<1>1. ASSUME NEW f PROVE P(f) <=> Adds(f, i - 1, j, i, D)
  <2>1. \A k \in i - 1 .. j : ~(k < i) => D[k] = DigitAt(s, k)
    OBVIOUS
  <2> HIDE DEF D
  <2>2. [k \in i - 1 .. j |-> IF k < i THEN 0 ELSE 10 * f[k - 1] + D[k]]
          = [k \in i - 1 .. j |->
               IF k < i THEN 0 ELSE 10 * f[k - 1] + DigitAt(s, k)]
    BY <2>1
  <2> QED
    BY <2>2 DEF Adds, DigitAt
<1>2. \E f : Adds(f, i - 1, j, i, D)
  <2>1. i - 1 \in Nat /\ i - 1 < i
    OBVIOUS
  <2> HIDE DEF D
  <2> QED
    BY <2>1, ValueExists
<1>3. P(n)
  <2>1. PICK f : Adds(f, i - 1, j, i, D)
    BY <1>2
  <2>2. P(f)
    BY <1>1, <2>1, Zenon
  <2> QED
    BY <2>2, Zenon
<1>4. Grammar!Number(s, i, j) = n[j]
  BY DEF Grammar!Number
<1> HIDE DEF P, n, D
<1> QED
  BY <1>1, <1>3, <1>4 DEF D

\* The number that digits stand for depends on those digits only.
LEMMA SameNumber ==
  ASSUME NEW s, NEW t, NEW i \in Nat, i > 0, NEW j \in Nat, i <= j,
         \A k \in i..j : s[k] = t[k] /\ s[k] \in Grammar!DigitSet
  PROVE  /\ Grammar!Number(s, i, j) = Grammar!Number(t, i, j)
         /\ Grammar!Number(s, i, j) \in Nat
<1>1. PICK f : /\ Adds(f, i - 1, j, i, [k \in i..j |-> DigitAt(s, k)])
               /\ Grammar!Number(s, i, j) = f[j]
  BY NumberIsValue
<1>2. PICK g : /\ Adds(g, i - 1, j, i, [k \in i..j |-> DigitAt(t, k)])
               /\ Grammar!Number(t, i, j) = g[j]
  BY NumberIsValue
<1>3. \A k \in i..j : DigitAt(s, k) = DigitAt(t, k) /\ DigitAt(s, k) \in Nat
  BY DigitIsNatural DEF DigitAt
<1> DEFINE D == [k \in i..j |-> DigitAt(s, k)]
           D2 == [k \in i..j |-> DigitAt(t, k)]
<1>4. \A k \in i..j : D[k] = D2[k] /\ D[k] \in Nat
  BY <1>3
<1>5. Adds(f, i - 1, j, i, D) /\ Adds(g, i - 1, j, i, D2)
  BY <1>1, <1>2
<1>6. i - 1 \in Nat /\ i - 1 < i
  OBVIOUS
<1> HIDE DEF D, D2
<1>7. f[j] = g[j] /\ f[j] \in Nat
  BY <1>4, <1>5, <1>6, ValueIsUnique
<1> QED
  BY <1>1, <1>2, <1>7

\* What atoi returns is the number of the grammar.
LEMMA AtoiIsNumber ==
  ASSUME mark \in Nat, p \in Nat, mark < p,
         \A k \in mark + 1 .. p : stream[k] \in Grammar!DigitSet
  PROVE  Number = Grammar!Number(stream, mark + 1, p)
<1> DEFINE D == [k \in mark + 1 .. p |-> Digits[stream[k]]]
           P(f) == f = [i \in 0..p |-> IF i <= mark THEN 0
                          ELSE 10 * f[i - 1] + Digits[stream[i]]]
           value == CHOOSE f : P(f)
<1>1. ASSUME NEW f PROVE P(f) <=> Adds(f, 0, p, mark + 1, D)
  <2>1. \A k \in 0..p : (k < mark + 1 <=> k <= mark)
                          /\ (~(k <= mark) => D[k] = Digits[stream[k]])
    OBVIOUS
  <2> HIDE DEF D
  <2>2. [k \in 0..p |-> IF k < mark + 1 THEN 0 ELSE 10 * f[k - 1] + D[k]]
          = [k \in 0..p |->
               IF k <= mark THEN 0 ELSE 10 * f[k - 1] + Digits[stream[k]]]
    BY <2>1
  <2> QED
    BY <2>2 DEF Adds
<1>2. mark + 1 \in Nat /\ 0 < mark + 1 /\ (mark + 1) - 1 \in Nat
      /\ (mark + 1) - 1 < mark + 1 /\ mark + 1 <= p
  OBVIOUS
<1>3. \E f : Adds(f, 0, p, mark + 1, D)
  <2> HIDE DEF D
  <2> QED
    BY <1>2, ValueExists
<1>4. P(value)
  <2>1. \E f : P(f)
    BY <1>1, <1>3
  <2> QED
    BY <2>1, Zenon
<1>5. Number = value[p]
  BY DEF Number
<1>6. Adds(value, 0, p, mark + 1, D)
  BY <1>1, <1>4
<1> DEFINE D2 == [k \in mark + 1 .. p |-> DigitAt(stream, k)]
<1>7. PICK g : /\ Adds(g, (mark + 1) - 1, p, mark + 1, D2)
               /\ Grammar!Number(stream, mark + 1, p) = g[p]
  BY <1>2, NumberIsValue
<1>8. \A k \in mark + 1 .. p : D[k] = D2[k] /\ D[k] \in Nat
  <2> SUFFICES ASSUME NEW k \in mark + 1 .. p
               PROVE  DigitAt(stream, k) = Digits[stream[k]]
                      /\ Digits[stream[k]] \in Nat
    OBVIOUS
  <2>1. /\ Digits[stream[k]] \in 0..9
        /\ \A d \in 0..9 :
              Grammar!Digit[d + 1] = stream[k] <=> d = Digits[stream[k]]
    BY SameDigits
  <2> QED
    BY <2>1 DEF DigitAt
<1> HIDE DEF value, P, D, D2
<1>9. value[p] = g[p]
  BY <1>2, <1>6, <1>7, <1>8, ValueIsUnique
<1> QED
  BY <1>5, <1>7, <1>9

-----------------------------------------------------------------------------
(***************************************************************************)
(* What the grammar finds in the bytes read so far, state by state.        *)
(***************************************************************************)

LEMMA PrefixFacts ==
  ASSUME stream \in Seq(STRING), NEW n \in Nat, n <= Len(stream)
  PROVE  /\ Prefix(n) \in Seq(STRING) /\ Len(Prefix(n)) = n
         /\ \A k \in 1..n : Prefix(n)[k] = stream[k]
         /\ Len(stream) \in Nat
BY DEF Prefix

LEMMA FirstIs ==
  ASSUME NEW s \in Seq(STRING), NEW S, NEW i \in Nat,
         NEW e \in i .. Len(s) + 1, e > Len(s) \/ s[e] \notin S,
         \A k \in i .. e - 1 : s[k] \in S, i > 0
  PROVE  Grammar!FirstNotIn(s, i, S) = e
<1> DEFINE P(j) == /\ j > Len(s) \/ s[j] \notin S
                   /\ \A k \in i .. j - 1 : s[k] \in S
<1>1. P(e)
  OBVIOUS
<1>2. ASSUME NEW j \in i .. Len(s) + 1, P(j) PROVE j = e
  <2>1. ~(j < e)
    BY <1>2
  <2>2. ~(e < j)
    BY <1>2
  <2> QED
    BY <2>1, <2>2
<1>3. Grammar!FirstNotIn(s, i, S) = CHOOSE j \in i .. Len(s) + 1 : P(j)
  BY DEF Grammar!FirstNotIn
<1> HIDE DEF P
<1> QED
  BY <1>1, <1>2, <1>3

\* A line whose first CR is at e, or which has none.
LEMMA LineIs ==
  ASSUME NEW s \in Seq(STRING), NEW i \in Nat, i > 0, NEW type,
         NEW e \in i .. Len(s) + 1, e > Len(s) \/ s[e] = "CR",
         \A k \in i .. e - 1 : s[k] # "CR"
  PROVE  Grammar!Line(s, i, type) =
           Grammar!LineEnd(s, e, Grammar!Found(
             Grammar!Piece(type, i - 1, e - i, <<>>), e + 2))
<1>1. \A k \in i .. e - 1 : s[k] \in STRING \ {"CR"}
  <2> SUFFICES ASSUME NEW k \in i .. e - 1 PROVE s[k] \in STRING \ {"CR"}
    OBVIOUS
  <2>1. k \in 1..Len(s)
    OBVIOUS
  <2> QED
    BY <2>1
<1>2. Grammar!FirstNotIn(s, i, STRING \ {"CR"}) = e
  BY <1>1, FirstIs
<1> QED
  BY <1>2 DEF Grammar!Line

\* A count whose first byte that is no digit is at e, or which has none.
LEMMA CountIs ==
  ASSUME NEW s \in Seq(STRING), NEW i \in Nat, i > 0, i <= Len(s), s[i] # "-",
         NEW e \in i + 1 .. Len(s) + 1,
         e > Len(s) \/ s[e] \notin Grammar!DigitSet,
         \A k \in i .. e - 1 : s[k] \in Grammar!DigitSet
  PROVE  Grammar!Count(s, i) =
           Grammar!LineEnd(s, e, Grammar!Found(
             Grammar!Number(s, i, e - 1), e + 2))
<1>1. Grammar!FirstNotIn(s, i, Grammar!DigitSet) = e
  BY FirstIs
<1>2. e # i /\ ~(i > Len(s))
  OBVIOUS
<1> QED
  BY <1>1, <1>2 DEF Grammar!Count

\* A nil count.
LEMMA NilCountIs ==
  ASSUME NEW s, NEW i \in Nat, Len(s) \in Nat, i <= Len(s), s[i] = "-"
  PROVE  Grammar!Count(s, i) =
           IF i + 1 > Len(s) THEN Grammar!More
           ELSE IF s[i + 1] # "1" THEN Grammar!Error
           ELSE Grammar!LineEnd(s, i + 2, Grammar!Found(-1, i + 4))
<1>1. ~(i > Len(s))
  OBVIOUS
<1> QED
  BY <1>1 DEF Grammar!Count

LEMMA NoDigits ==
  /\ "-" \notin Grammar!DigitSet /\ "CR" \notin Grammar!DigitSet
  /\ "LF" \notin Grammar!DigitSet /\ "$" \notin Grammar!DigitSet
BY DEF Grammar!DigitSet, Grammar!Digit

InStream == ScalarsOK /\ len <= Len(stream)

\* A count of digits that ends at e, in any bytes that go beyond it.
LEMMA DigitsCounted ==
  ASSUME stream \in Seq(STRING), NEW q \in Nat, q > 0, NEW e \in Nat, q + 1 < e,
         NEW n \in Nat, n <= Len(stream), e - 1 <= n,
         \A k \in q + 1 .. e - 1 : stream[k] \in Grammar!DigitSet,
         e > n \/ stream[e] \notin Grammar!DigitSet
  PROVE  Grammar!Count(Prefix(n), q + 1) =
           Grammar!LineEnd(Prefix(n), e, Grammar!Found(
             Grammar!Number(stream, q + 1, e - 1), e + 2))
<1> DEFINE t == Prefix(n)
<1>1. /\ t \in Seq(STRING) /\ Len(t) = n
      /\ \A k \in 1..n : t[k] = stream[k]
  BY PrefixFacts
<1> HIDE DEF t
<1>2. \A k \in q + 1 .. e - 1 : t[k] = stream[k]
  BY <1>1
<1>3. t[q + 1] # "-"
  BY <1>2, NoDigits
<1>4. e > Len(t) \/ t[e] \notin Grammar!DigitSet
  BY <1>1
<1>5. e \in (q + 1) + 1 .. Len(t) + 1 /\ q + 1 \in Nat /\ q + 1 > 0 /\ q + 1 <= Len(t)
      /\ e - 1 \in Nat /\ q + 1 <= e - 1
  BY <1>1
<1>6. \A k \in q + 1 .. e - 1 : t[k] \in Grammar!DigitSet
  BY <1>2
<1>7. Grammar!Count(t, q + 1) =
        Grammar!LineEnd(t, e, Grammar!Found(
          Grammar!Number(t, q + 1, e - 1), e + 2))
  BY <1>1, <1>3, <1>4, <1>5, <1>6, CountIs
<1>8. Grammar!Number(t, q + 1, e - 1) = Grammar!Number(stream, q + 1, e - 1)
  BY <1>2, <1>5, <1>6, SameNumber
<1> QED
  BY <1>7, <1>8 DEF t

LEMMA CountFound ==
  ASSUME InStream, NEW q \in Nat, q > 0, NEW first \in {5, 13},
         CountText(q, first), p < len, c = "LF",
         NEW n \in Nat, n <= Len(stream), p + 1 <= n
  PROVE  /\ cs = first + 3 =>
              Grammar!Count(Prefix(n), q + 1) = Grammar!Found(-1, p + 2)
         /\ cs = first + 5 =>
              Grammar!Count(Prefix(n), q + 1) =
                Grammar!Found(Grammar!Number(stream, q + 1, p - 1), p + 2)
<1> DEFINE t == Prefix(n)
<1>1. stream \in Seq(STRING) /\ p \in Nat /\ len \in Nat
  BY DEF InStream, ScalarsOK
<1>2. /\ t \in Seq(STRING) /\ Len(t) = n
      /\ \A k \in 1..n : t[k] = stream[k]
  BY <1>1, PrefixFacts
<1> HIDE DEF t
<1>3. t[p + 1] = "LF"
  BY <1>1, <1>2 DEF c
<1>4. ASSUME cs = first + 3
      PROVE  Grammar!Count(t, q + 1) = Grammar!Found(-1, p + 2)
  <2>1. /\ p = q + 3 /\ t[q + 1] = "-" /\ t[q + 2] = "1" /\ t[q + 3] = "CR"
        /\ t[q + 4] = "LF" /\ q + 4 <= Len(t)
    BY <1>1, <1>2, <1>3, <1>4 DEF CountText
  <2> QED
    BY <1>2, <2>1 DEF Grammar!Count, Grammar!LineEnd
<1>5. ASSUME cs = first + 5
      PROVE  Grammar!Count(t, q + 1) =
               Grammar!Found(Grammar!Number(stream, q + 1, p - 1), p + 2)
  <2>1. /\ q + 1 < p /\ stream[p] = "CR" /\ p - 1 <= n
        /\ \A k \in q + 1 .. p - 1 : stream[k] \in Grammar!DigitSet
    BY <1>1, <1>5 DEF CountText
  <2>2. Grammar!Count(t, q + 1) =
          Grammar!LineEnd(t, p, Grammar!Found(
            Grammar!Number(stream, q + 1, p - 1), p + 2))
    BY <1>1, <2>1, NoDigits, DigitsCounted DEF t
  <2>3. t[p] = "CR" /\ p + 1 <= Len(t)
    BY <1>1, <1>2, <2>1
  <2> QED
    BY <1>1, <1>3, <2>2, <2>3 DEF Grammar!LineEnd
<1> QED
  BY <1>4, <1>5 DEF t

LEMMA CountUnfinished ==
  ASSUME InStream, NEW q \in Nat, q > 0, NEW first \in {5, 13},
         CountText(q, first), cs \in first .. first + 5
  PROVE  /\ p = len => Grammar!Count(Prefix(len), q + 1) = Grammar!More
         /\ p < len /\ ~Accepts =>
              Grammar!Count(Prefix(len), q + 1) = Grammar!Error
<1> DEFINE t == Prefix(len)
           Verdict == /\ p = len => Grammar!Count(t, q + 1) = Grammar!More
                      /\ p < len /\ ~Accepts =>
                           Grammar!Count(t, q + 1) = Grammar!Error
<1> SUFFICES Verdict
  OBVIOUS
<1>1. stream \in Seq(STRING) /\ p \in Nat /\ len \in Nat /\ len <= Len(stream)
  BY DEF InStream, ScalarsOK
<1>2. /\ t \in Seq(STRING) /\ Len(t) = len
      /\ \A k \in 1..len : t[k] = stream[k]
  BY <1>1, PrefixFacts
<1> HIDE DEF t
<1>3. p < len => t[p + 1] = c
  BY <1>1, <1>2 DEF c
<1>4. isdigit(c) <=> c \in Grammar!DigitSet
  BY SameDigits DEF isdigit
<1>nil. ASSUME q + 1 <= Len(t), t[q + 1] = "-"
        PROVE  Grammar!Count(t, q + 1) =
                 IF q + 2 > Len(t) THEN Grammar!More
                 ELSE IF t[q + 2] # "1" THEN Grammar!Error
                 ELSE Grammar!LineEnd(t, q + 3, Grammar!Found(-1, q + 5))
  <2>1. PICK i \in Nat : i = q + 1
    OBVIOUS
  <2>2. i + 1 = q + 2 /\ i + 2 = q + 3 /\ i + 4 = q + 5
    BY <2>1
  <2>3. Len(t) \in Nat /\ i <= Len(t) /\ t[i] = "-"
    BY <1>1, <1>2, <1>nil, <2>1
  <2>4. Grammar!Count(t, i) =
          IF i + 1 > Len(t) THEN Grammar!More
          ELSE IF t[i + 1] # "1" THEN Grammar!Error
          ELSE Grammar!LineEnd(t, i + 2, Grammar!Found(-1, i + 4))
    BY <2>3, NilCountIs
  <2> QED
    BY <2>1, <2>2, <2>4
<1>5. CASE cs = first
  <2>1. p = q
    BY <1>5 DEF CountText
  <2>2. p = len => q + 1 > Len(t)
    BY <1>2, <2>1
  <2>3. p < len /\ ~Accepts => t[q + 1] # "-" /\ t[q + 1] \notin Grammar!DigitSet
    BY <1>3, <1>4, <1>5, <2>1 DEF Accepts
  <2>4. p < len /\ ~Accepts
          => Grammar!FirstNotIn(t, q + 1, Grammar!DigitSet) = q + 1
    <3> SUFFICES ASSUME p < len, ~Accepts
                 PROVE  Grammar!FirstNotIn(t, q + 1, Grammar!DigitSet) = q + 1
      OBVIOUS
    <3>1. q + 1 \in q + 1 .. Len(t) + 1 /\ q + 1 \in Nat /\ q + 1 > 0
      BY <1>1, <1>2, <2>1
    <3>2. \A k \in q + 1 .. (q + 1) - 1 : t[k] \in Grammar!DigitSet
      OBVIOUS
    <3> QED
      BY <1>2, <2>3, <3>1, <3>2, FirstIs
  <2>5. p < len => ~(q + 1 > Len(t))
    BY <1>1, <1>2, <2>1
  <2> QED
    BY <2>2, <2>3, <2>4, <2>5 DEF Grammar!Count
<1>6. CASE cs = first + 1
  <2>1. p = q + 1 /\ stream[q + 1] = "-"
    BY <1>6 DEF CountText
  <2>2. t[q + 1] = "-" /\ ~(q + 1 > Len(t))
    BY <1>1, <1>2, <2>1 DEF InStream, ScalarsOK
  <2>3. p < len /\ ~Accepts => t[q + 2] # "1"
    BY <1>3, <1>6, <2>1 DEF Accepts
  <2>4. Grammar!Count(t, q + 1) =
          IF q + 2 > Len(t) THEN Grammar!More
          ELSE IF t[q + 2] # "1" THEN Grammar!Error
          ELSE Grammar!LineEnd(t, q + 3, Grammar!Found(-1, q + 5))
    BY <1>2, <2>2, <1>nil
  <2> QED
    BY <1>1, <1>2, <2>1, <2>3, <2>4
<1>7. CASE cs = first + 2
  <2>1. p = q + 2 /\ stream[q + 1] = "-" /\ stream[q + 2] = "1"
    BY <1>7 DEF CountText
  <2>2. t[q + 1] = "-" /\ t[q + 2] = "1" /\ q + 2 <= Len(t)
    BY <1>1, <1>2, <2>1 DEF InStream, ScalarsOK
  <2>3. p < len /\ ~Accepts => t[q + 3] # "CR"
    BY <1>3, <1>7, <2>1 DEF Accepts
  <2>4. Grammar!Count(t, q + 1) =
          IF q + 2 > Len(t) THEN Grammar!More
          ELSE IF t[q + 2] # "1" THEN Grammar!Error
          ELSE Grammar!LineEnd(t, q + 3, Grammar!Found(-1, q + 5))
    BY <1>2, <2>2, <1>nil
  <2>5. Grammar!Count(t, q + 1) = Grammar!LineEnd(t, q + 3, Grammar!Found(-1, q + 5))
    BY <1>1, <1>2, <2>2, <2>4
  <2> QED
    BY <1>1, <1>2, <2>1, <2>2, <2>3, <2>5 DEF Grammar!LineEnd
<1>8. CASE cs = first + 3
  <2>1. /\ p = q + 3 /\ stream[q + 1] = "-" /\ stream[q + 2] = "1"
        /\ stream[q + 3] = "CR"
    BY <1>8 DEF CountText
  <2>2. /\ t[q + 1] = "-" /\ t[q + 2] = "1" /\ t[q + 3] = "CR"
        /\ q + 3 <= Len(t)
    BY <1>1, <1>2, <2>1 DEF InStream, ScalarsOK
  <2>3. p < len /\ ~Accepts => t[q + 4] # "LF"
    BY <1>3, <1>8, <2>1 DEF Accepts
  <2>4. Grammar!Count(t, q + 1) =
          IF q + 2 > Len(t) THEN Grammar!More
          ELSE IF t[q + 2] # "1" THEN Grammar!Error
          ELSE Grammar!LineEnd(t, q + 3, Grammar!Found(-1, q + 5))
    BY <1>2, <2>2, <1>nil
  <2>5. Grammar!Count(t, q + 1) = Grammar!LineEnd(t, q + 3, Grammar!Found(-1, q + 5))
    BY <1>1, <1>2, <2>2, <2>4
  <2> QED
    BY <1>1, <1>2, <2>1, <2>2, <2>3, <2>5 DEF Grammar!LineEnd
<1>9. CASE cs = first + 4
  <2>1. q < p /\ \A k \in q + 1 .. p : stream[k] \in Grammar!DigitSet
    BY <1>9 DEF CountText
  <2>2. p < len /\ ~Accepts => c \notin Grammar!DigitSet /\ c # "CR"
    BY <1>4, <1>9 DEF Accepts
  <2>3. ASSUME p = len \/ ~Accepts, p <= len
        PROVE  Grammar!Count(t, q + 1) =
                 Grammar!LineEnd(t, p + 1, Grammar!Found(
                   Grammar!Number(stream, q + 1, (p + 1) - 1), (p + 1) + 2))
    <3>1. p + 1 > len \/ stream[p + 1] \notin Grammar!DigitSet
      BY <1>1, <2>2, <2>3 DEF c
    <3>2. p + 1 \in Nat /\ q + 1 < p + 1 /\ (p + 1) - 1 <= len /\ (p + 1) - 1 = p
      BY <1>1, <2>1, <2>3
    <3> QED
      BY <1>1, <2>1, <3>1, <3>2, DigitsCounted DEF t
  <2>4. p <= len
    BY DEF InStream, ScalarsOK
  <2> QED
    BY <1>1, <1>2, <1>3, <2>2, <2>3, <2>4 DEF Grammar!LineEnd
<1>10. CASE cs = first + 5
  <2>1. /\ q + 1 < p /\ stream[p] = "CR" /\ p <= len
        /\ \A k \in q + 1 .. p - 1 : stream[k] \in Grammar!DigitSet
    BY <1>10 DEF CountText, InStream, ScalarsOK
  <2>2. Grammar!Count(t, q + 1) =
          Grammar!LineEnd(t, p, Grammar!Found(
            Grammar!Number(stream, q + 1, p - 1), p + 2))
    <3>1. p - 1 <= len
      BY <1>1, <2>1
    <3> QED
      BY <1>1, <2>1, <3>1, NoDigits, DigitsCounted DEF t
  <2>3. t[p] = "CR" /\ p <= Len(t)
    BY <1>1, <1>2, <2>1
  <2>4. p < len /\ ~Accepts => t[p + 1] # "LF"
    BY <1>3, <1>10 DEF Accepts
  <2> QED
    BY <1>1, <1>2, <2>2, <2>3, <2>4 DEF Grammar!LineEnd
<1>11. cs \in {first, first + 1, first + 2, first + 3, first + 4, first + 5}
  BY DEF InStream, ScalarsOK
<1> QED
  BY <1>5, <1>6, <1>7, <1>8, <1>9, <1>10, <1>11

LEMMA ReplyAtIs ==
  ASSUME NEW s, NEW i \in Nat, Len(s) \in Nat
  PROVE  /\ i > Len(s) => Grammar!ReplyAt(s, i) = Grammar!More
         /\ i <= Len(s) =>
              /\ s[i] = "+" => Grammar!ReplyAt(s, i) = Grammar!Line(s, i + 1, "OK")
              /\ s[i] = "-" => Grammar!ReplyAt(s, i) = Grammar!Line(s, i + 1, "ERROR")
              /\ s[i] = ":" => Grammar!ReplyAt(s, i) = Grammar!Line(s, i + 1, "INTEGER")
              /\ s[i] = "$" => Grammar!ReplyAt(s, i) = Grammar!Bulk(s, i)
              /\ s[i] = "*" => Grammar!ReplyAt(s, i) = Grammar!Multibulk(s, i)
              /\ s[i] \notin {"+", "-", ":", "$", "*"} =>
                   Grammar!ReplyAt(s, i) = Grammar!Error
<1>1. i <= Len(s) => ~(i > Len(s))
  OBVIOUS
<1> QED
  BY <1>1 DEF Grammar!ReplyAt

\* The line that begins at start, in any bytes that contain what was read of it.
LEMMA LineInPrefix ==
  ASSUME InStream, cs \in {1, 2, 3, 4, 19, 20}, LineText,
         NEW n \in Nat, n <= Len(stream), start < n,
         NEW e \in Nat, start + 2 <= e, e <= n + 1,
         e > n \/ stream[e] = "CR",
         \A k \in start + 2 .. e - 1 : stream[k] # "CR"
  PROVE  Grammar!ReplyAt(Prefix(n), start + 1) =
           Grammar!LineEnd(Prefix(n), e, Grammar!Found(
             Reply_new(CASE cs \in {1, 2} -> "OK" [] cs \in {3, 4} -> "ERROR"
                         [] cs \in {19, 20} -> "INTEGER",
                       mark, e - 1 - mark), e + 2))
<1> DEFINE t == Prefix(n)
           type == CASE cs \in {1, 2} -> "OK" [] cs \in {3, 4} -> "ERROR"
                     [] cs \in {19, 20} -> "INTEGER"
<1>1. stream \in Seq(STRING) /\ start \in Nat
  BY DEF InStream, ScalarsOK
<1>2. /\ t \in Seq(STRING) /\ Len(t) = n
      /\ \A k \in 1..n : t[k] = stream[k]
  BY <1>1, PrefixFacts
<1> SUFFICES Grammar!ReplyAt(t, start + 1) =
               Grammar!LineEnd(t, e, Grammar!Found(
                 Reply_new(type, mark, e - 1 - mark), e + 2))
  OBVIOUS
<1> HIDE DEF t
<1>3. /\ start + 1 \in Nat /\ start + 1 <= Len(t) /\ t[start + 1] = stream[start + 1]
      /\ start + 2 \in Nat /\ start + 2 > 0 /\ (start + 1) + 1 = start + 2
      /\ e \in start + 2 .. Len(t) + 1
  BY <1>1, <1>2
<1>4. Grammar!ReplyAt(t, start + 1) = Grammar!Line(t, start + 2, type)
  <2>1. CASE cs \in {1, 2}
    BY <1>2, <1>3, <2>1, ReplyAtIs DEF LineText
  <2>2. CASE cs \in {3, 4}
    BY <1>2, <1>3, <2>2, ReplyAtIs DEF LineText
  <2>3. CASE cs \in {19, 20}
    BY <1>2, <1>3, <2>3, ReplyAtIs DEF LineText
  <2> QED
    BY <2>1, <2>2, <2>3
<1>5. e > Len(t) \/ t[e] = "CR"
  BY <1>1, <1>2
<1>6. \A k \in start + 2 .. e - 1 : t[k] # "CR"
  BY <1>1, <1>2
<1> HIDE DEF type
<1>7. Grammar!Line(t, start + 2, type) =
        Grammar!LineEnd(t, e, Grammar!Found(
          Grammar!Piece(type, (start + 2) - 1, e - (start + 2), <<>>), e + 2))
  BY <1>2, <1>3, <1>5, <1>6, LineIs
<1>8. (start + 2) - 1 = mark /\ e - (start + 2) = e - 1 - mark
  BY <1>1 DEF LineText
<1> QED
  BY <1>4, <1>7, <1>8 DEF Reply_new, Grammar!Piece

LEMMA LineFound ==
  ASSUME InStream, cs \in {2, 4, 20}, LineText, p < len, c = "LF",
         NEW n \in Nat, n <= Len(stream), p + 1 <= n
  PROVE  Grammar!ReplyAt(Prefix(n), start + 1) =
           Grammar!Found(Reply_new(LineTypes[cs], mark, p - 1 - mark), p + 2)
<1>1. /\ stream \in Seq(STRING) /\ start \in Nat /\ p \in Nat /\ len \in Nat
      /\ mark < p
  BY DEF InStream, ScalarsOK, MarkInv
<1>2. start < n /\ start + 2 <= p /\ p <= n + 1
  BY <1>1 DEF LineText
<1>3. Grammar!ReplyAt(Prefix(n), start + 1) =
           Grammar!LineEnd(Prefix(n), p, Grammar!Found(
             Reply_new(CASE cs \in {1, 2} -> "OK" [] cs \in {3, 4} -> "ERROR"
                         [] cs \in {19, 20} -> "INTEGER",
                       mark, p - 1 - mark), p + 2))
  BY <1>1, <1>2, LineInPrefix DEF LineText
<1>4. /\ Len(Prefix(n)) = n /\ Prefix(n)[p] = "CR" /\ Prefix(n)[p + 1] = "LF"
      /\ ~(p > n) /\ ~(p + 1 > n)
  <2>1. /\ Len(Prefix(n)) = n
        /\ \A k \in 1..n : Prefix(n)[k] = stream[k]
    BY <1>1, PrefixFacts
  <2> QED
    BY <1>1, <1>2, <2>1 DEF LineText, c
<1>5. LineTypes[cs] = CASE cs \in {1, 2} -> "OK" [] cs \in {3, 4} -> "ERROR"
                         [] cs \in {19, 20} -> "INTEGER"
  BY DEF LineTypes
<1> QED
  BY <1>3, <1>4, <1>5 DEF Grammar!LineEnd

LEMMA LineUnfinished ==
  ASSUME InStream, cs \in {1, 2, 3, 4, 19, 20}, LineText
  PROVE  /\ p = len => Grammar!ReplyAt(Prefix(len), start + 1) = Grammar!More
         /\ p < len /\ ~Accepts =>
              Grammar!ReplyAt(Prefix(len), start + 1) = Grammar!Error
<1>1. /\ stream \in Seq(STRING) /\ start \in Nat /\ p \in Nat /\ len \in Nat
      /\ p <= len /\ len <= Len(stream)
      /\ cs \in {1, 3, 19} => mark <= p
      /\ cs \in {2, 4, 20} => mark < p
  BY DEF InStream, ScalarsOK, MarkInv
<1>2. /\ Len(Prefix(len)) = len
      /\ \A k \in 1..len : Prefix(len)[k] = stream[k]
  BY <1>1, PrefixFacts
<1>3. CASE cs \in {1, 3, 19}
  <2>1. Accepts
    BY <1>3 DEF Accepts
  <2>2. ASSUME p = len
        PROVE  Grammar!ReplyAt(Prefix(len), start + 1) = Grammar!More
    <3>1. /\ start < len /\ p + 1 \in Nat /\ start + 2 <= p + 1 /\ p + 1 <= len + 1
          /\ p + 1 > len
          /\ \A k \in start + 2 .. (p + 1) - 1 : stream[k] # "CR"
      BY <1>1, <1>3, <2>2 DEF LineText
    <3>2. \E v : Grammar!ReplyAt(Prefix(len), start + 1) =
                   Grammar!LineEnd(Prefix(len), p + 1, v)
      BY <1>1, <3>1, LineInPrefix
    <3> QED
      BY <1>2, <3>1, <3>2 DEF Grammar!LineEnd
  <2> QED
    BY <2>1, <2>2
<1>4. CASE cs \in {2, 4, 20}
  <2>1. /\ start < len /\ start + 2 <= p /\ p <= len + 1 /\ stream[p] = "CR"
        /\ \A k \in start + 2 .. p - 1 : stream[k] # "CR"
    BY <1>1, <1>4 DEF LineText
  <2>2. \E v : Grammar!ReplyAt(Prefix(len), start + 1) =
                 Grammar!LineEnd(Prefix(len), p, v)
    BY <1>1, <2>1, LineInPrefix
  <2>3. Prefix(len)[p] = "CR" /\ ~(p > len)
    BY <1>1, <1>2, <2>1
  <2>4. p < len /\ ~Accepts => Prefix(len)[p + 1] # "LF" /\ ~(p + 1 > len)
    BY <1>1, <1>2, <1>4 DEF Accepts, c
  <2>5. p = len => p + 1 > len
    BY <1>1
  <2> QED
    BY <1>2, <2>2, <2>3, <2>4, <2>5 DEF Grammar!LineEnd
<1> QED
  BY <1>3, <1>4

LEMMA CountedBulkIs ==
  ASSUME NEW s, NEW i \in Nat, Len(s) \in Nat, i <= Len(s), s[i] = "$",
         NEW j \in Nat, NEW n \in Nat, Grammar!Count(s, i + 1) = Grammar!Found(n, j)
  PROVE  Grammar!Bulk(s, i) =
           Grammar!LineEnd(s, j + n, Grammar!Found(
             Reply_new("BULK", j - 1, n), j + n + 2))
<1>1. /\ Grammar!Count(s, i + 1).verdict = "found"
      /\ Grammar!Count(s, i + 1).what = n /\ Grammar!Count(s, i + 1).next = j
      /\ n # -1 /\ ~(i > Len(s))
  BY DEF Grammar!Found
<1> QED
  BY <1>1 DEF Grammar!Bulk, Grammar!Piece, Reply_new

LEMMA BulkIs ==
  ASSUME NEW s, NEW i \in Nat, Len(s) \in Nat
  PROVE  /\ i > Len(s) => Grammar!Bulk(s, i) = Grammar!More
         /\ i <= Len(s) /\ s[i] # "$" => Grammar!Bulk(s, i) = Grammar!Error
         /\ i <= Len(s) /\ s[i] = "$" =>
              /\ Grammar!Count(s, i + 1) \in {Grammar!More, Grammar!Error}
                   => Grammar!Bulk(s, i) = Grammar!Count(s, i + 1)
              /\ \A j : Grammar!Count(s, i + 1) = Grammar!Found(-1, j) =>
                   Grammar!Bulk(s, i) =
                     Grammar!Found(Reply_new("BULK_NIL", 0, 0), j)
<1>1. i <= Len(s) => ~(i > Len(s))
  OBVIOUS
<1>2. ASSUME i <= Len(s), s[i] = "$",
             Grammar!Count(s, i + 1) \in {Grammar!More, Grammar!Error}
      PROVE  Grammar!Bulk(s, i) = Grammar!Count(s, i + 1)
  <2>1. Grammar!Count(s, i + 1).verdict # "found"
    BY <1>2 DEF Grammar!More, Grammar!Error
  <2> QED
    BY <1>1, <1>2, <2>1 DEF Grammar!Bulk
<1>3. ASSUME i <= Len(s), s[i] = "$",
             NEW j, Grammar!Count(s, i + 1) = Grammar!Found(-1, j)
      PROVE  Grammar!Bulk(s, i) = Grammar!Found(Reply_new("BULK_NIL", 0, 0), j)
  <2>1. /\ Grammar!Count(s, i + 1).verdict = "found"
        /\ Grammar!Count(s, i + 1).what = -1 /\ Grammar!Count(s, i + 1).next = j
    BY <1>3 DEF Grammar!Found
  <2> QED
    BY <1>1, <1>3, <2>1 DEF Grammar!Bulk, Grammar!Piece, Reply_new
<1>4. /\ i > Len(s) => Grammar!Bulk(s, i) = Grammar!More
      /\ i <= Len(s) /\ s[i] # "$" => Grammar!Bulk(s, i) = Grammar!Error
  BY <1>1 DEF Grammar!Bulk
<1> QED
  BY <1>2, <1>3, <1>4

LEMMA HeaderCounted ==
  ASSUME InStream, NEW q \in Nat, q > 0, NEW h \in Nat, Header(q, h),
         NEW n \in Nat, n <= Len(stream), h <= n
  PROVE  Grammar!Count(Prefix(n), q + 1) =
           Grammar!Found(Grammar!Number(stream, q + 1, h - 2), h + 1)
<1>1. /\ stream \in Seq(STRING) /\ h - 1 \in Nat /\ q + 1 < h - 1
      /\ (h - 1) - 1 <= n /\ (h - 1) - 1 = h - 2 /\ (h - 1) + 2 = h + 1
      /\ stream[h - 1] \notin Grammar!DigitSet
  BY NoDigits DEF InStream, ScalarsOK, Header
<1>2. \A k \in q + 1 .. (h - 1) - 1 : stream[k] \in Grammar!DigitSet
  BY <1>1 DEF Header
<1>3. Grammar!Count(Prefix(n), q + 1) =
        Grammar!LineEnd(Prefix(n), h - 1, Grammar!Found(
          Grammar!Number(stream, q + 1, (h - 1) - 1), (h - 1) + 2))
  BY <1>1, <1>2, DigitsCounted
<1>4. /\ Len(Prefix(n)) = n /\ Prefix(n)[h - 1] = "CR"
      /\ Prefix(n)[(h - 1) + 1] = "LF" /\ ~(h - 1 > n) /\ ~((h - 1) + 1 > n)
  BY <1>1, PrefixFacts DEF Header
<1> QED
  BY <1>1, <1>3, <1>4 DEF Grammar!LineEnd

LEMMA BulkFound ==
  ASSUME InStream, NEW q \in Nat, q > 0, cs \in {8, 12}, BulkText(q),
         p < len, c = "LF", NEW n \in Nat, n <= Len(stream), p + 1 <= n
  PROVE  Grammar!Bulk(Prefix(n), q) =
           Grammar!Found(IF cs = 8 THEN Reply_new("BULK_NIL", 0, 0)
                         ELSE Reply_new("BULK", mark, p - 1 - mark), p + 2)
<1>1. /\ stream \in Seq(STRING) /\ p \in Nat /\ len \in Nat /\ mark \in Nat
      /\ cs = 12 => mark < p
  BY DEF InStream, ScalarsOK, MarkInv
<1>2. /\ Len(Prefix(n)) = n
      /\ \A k \in 1..n : Prefix(n)[k] = stream[k]
  BY <1>1, PrefixFacts
<1>3. Prefix(n)[q] = "$" /\ q <= n /\ CountText(q, 5)
  BY <1>1, <1>2 DEF BulkText
<1>4. CASE cs = 8
  <2>1. Grammar!Count(Prefix(n), q + 1) = Grammar!Found(-1, p + 2)
    BY <1>3, <1>4, CountFound
  <2> QED
    BY <1>2, <1>3, <1>4, <2>1, BulkIs
<1>5. CASE cs = 12
  <2>1. /\ Header(q, mark) /\ stream[p] = "CR"
        /\ p - 1 - mark = Grammar!Number(stream, q + 1, mark - 2)
    BY <1>5 DEF BulkText
  <2> DEFINE size == p - 1 - mark
  <2>2. Grammar!Count(Prefix(n), q + 1) = Grammar!Found(size, mark + 1)
    BY <1>1, <1>5, <2>1, HeaderCounted
  <2>3. /\ mark + 1 \in Nat /\ size \in Nat
        /\ (mark + 1) + size = p /\ (mark + 1) - 1 = mark
    BY <1>1, <1>5
  <2> HIDE DEF size
  <2>4. Grammar!Bulk(Prefix(n), q) =
          Grammar!LineEnd(Prefix(n), (mark + 1) + size, Grammar!Found(
            Reply_new("BULK", (mark + 1) - 1, size), (mark + 1) + size + 2))
    BY <1>2, <1>3, <2>2, <2>3, CountedBulkIs
  <2>5. /\ Prefix(n)[p] = "CR" /\ Prefix(n)[p + 1] = "LF" /\ ~(p > n)
        /\ ~(p + 1 > n)
    BY <1>1, <1>2, <1>5, <2>1 DEF c
  <2>6. \A v : Grammar!LineEnd(Prefix(n), p, v) = v
    BY <1>2, <2>5 DEF Grammar!LineEnd
  <2>7. Grammar!Bulk(Prefix(n), q) = Grammar!Found(Reply_new("BULK", mark, size), p + 2)
    BY <2>3, <2>4, <2>6
  <2> QED
    BY <1>5, <2>7 DEF size
<1> QED
  BY <1>4, <1>5

LEMMA BulkUnfinished ==
  ASSUME InStream, NEW q \in Nat, q > 0, cs \in {0} \cup (5..12), BulkText(q)
  PROVE  /\ p = len => Grammar!Bulk(Prefix(len), q) = Grammar!More
         /\ p < len /\ ~Accepts /\ (cs = 0 => c # "$") =>
              Grammar!Bulk(Prefix(len), q) = Grammar!Error
<1>1. /\ stream \in Seq(STRING) /\ p \in Nat /\ len \in Nat /\ mark \in Nat
      /\ p <= len /\ len <= Len(stream) /\ bulk_count \in Int
      /\ cs = 11 => mark <= p
      /\ cs = 12 => mark < p
  BY DEF InStream, ScalarsOK, MarkInv, CInt
<1>2. /\ Len(Prefix(len)) = len
      /\ \A k \in 1..len : Prefix(len)[k] = stream[k]
  BY <1>1, PrefixFacts
<1>3. cs # 0 => Prefix(len)[q] = "$" /\ q <= len
  BY <1>1, <1>2 DEF BulkText
<1>4. CASE cs = 0
  <2>1. p + 1 = q
    BY <1>4 DEF BulkText
  <2>2. p < len => Prefix(len)[q] = c /\ q <= len
    BY <1>1, <1>2, <2>1 DEF c
  <2>3. p = len => q > len
    BY <1>1, <2>1
  <2> QED
    BY <1>2, <1>4, <2>2, <2>3, BulkIs
<1>5. CASE cs \in 5..10
  <2>1. CountText(q, 5) /\ cs \in 5 .. 5 + 5
    BY <1>5 DEF BulkText
  <2>2. /\ p = len => Grammar!Count(Prefix(len), q + 1) = Grammar!More
        /\ p < len /\ ~Accepts =>
             Grammar!Count(Prefix(len), q + 1) = Grammar!Error
    BY <2>1, CountUnfinished
  <2> QED
    BY <1>2, <1>3, <1>5, <2>2, BulkIs
<1>6. CASE cs \in {11, 12}
  <2> DEFINE size == Grammar!Number(stream, q + 1, mark - 2)
  <2>1. /\ Header(q, mark) /\ mark <= len /\ bulk_count >= 0
        /\ cs = 11 => bulk_count + (p - mark) = size
        /\ cs = 12 => p - 1 - mark = size /\ stream[p] = "CR"
    BY <1>1, <1>6 DEF BulkText
  <2>2. Grammar!Count(Prefix(len), q + 1) = Grammar!Found(size, mark + 1)
    BY <1>1, <2>1, HeaderCounted
  <2> HIDE DEF size
  <2>3. size \in Nat /\ mark + 1 \in Nat
    BY <1>1, <1>6, <2>1
  <2>4. Grammar!Bulk(Prefix(len), q) =
          Grammar!LineEnd(Prefix(len), (mark + 1) + size, Grammar!Found(
            Reply_new("BULK", (mark + 1) - 1, size), (mark + 1) + size + 2))
    BY <1>2, <1>3, <1>6, <2>2, <2>3, CountedBulkIs
  <2>5. CASE cs = 11
    <3>1. (mark + 1) + size = p + 1 + bulk_count
      BY <1>1, <2>1, <2>3, <2>5
    <3>2. p = len => (mark + 1) + size > len
      BY <1>1, <2>1, <3>1
    <3>3. p < len /\ ~Accepts => Prefix(len)[p + 1] # "CR" /\ bulk_count = 0
      <4> SUFFICES ASSUME p < len, ~Accepts
                   PROVE  Prefix(len)[p + 1] # "CR" /\ bulk_count = 0
        OBVIOUS
      <4>1. ~(PayloadLength > 0) /\ c # "CR"
        BY <2>5 DEF Accepts
      <4>2. bulk_count = 0
        BY <1>1, <2>1, <4>1 DEF PayloadLength
      <4> QED
        BY <1>1, <1>2, <4>1, <4>2 DEF c
    <3> QED
      BY <1>1, <1>2, <2>4, <2>5, <3>1, <3>2, <3>3 DEF Grammar!LineEnd
  <2>6. CASE cs = 12
    <3>1. (mark + 1) + size = p
      BY <1>1, <2>1, <2>3, <2>6
    <3>2. Prefix(len)[p] = "CR" /\ ~(p > len)
      BY <1>1, <1>2, <2>1, <2>6
    <3>3. p < len /\ ~Accepts => Prefix(len)[p + 1] # "LF" /\ ~(p + 1 > len)
      BY <1>1, <1>2, <2>6 DEF Accepts, c
    <3>4. p = len => p + 1 > len
      BY <1>1
    <3> QED
      BY <1>2, <2>4, <2>6, <3>1, <3>2, <3>3, <3>4 DEF Grammar!LineEnd
  <2> QED
    BY <1>6, <2>5, <2>6
<1> QED
  BY <1>4, <1>5, <1>6

-----------------------------------------------------------------------------
(***************************************************************************)
(* Multibulk replies: the elements found one after the other are those     *)
(* that the grammar finds.                                                 *)
(***************************************************************************)

\* What the grammar has found after one more element.
WithElement(s, before) ==
    LET element == Grammar!Bulk(s, before.next)
    IN IF before.verdict # "found" THEN before
       ELSE IF element.verdict # "found" THEN element
       ELSE Grammar!Found(
              [before.what EXCEPT !.children = Append(@, element.what)],
              element.next)

Collects(f, s, v, n) ==
    f = [k \in 0..n |-> IF k = 0 THEN v ELSE WithElement(s, f[k - 1])]

LEMMA ElementsExist ==
  ASSUME NEW s, NEW v, NEW n \in Nat
  PROVE  \E f : Collects(f, s, v, n)
<1> DEFINE P(m, f) == Collects(f, s, v, m)
           S == {m \in Nat : \E f : P(m, f)}
<1>1. 0 \in S
  <2>1. P(0, [k \in 0..0 |-> v])
    BY DEF Collects
  <2> HIDE DEF P
  <2> QED
    BY <2>1
<1>2. ASSUME NEW m \in S PROVE m + 1 \in S
  <2>1. PICK f : P(m, f)
    OBVIOUS
  <2> DEFINE g == [k \in 0..m + 1 |-> IF k <= m THEN f[k]
                                      ELSE WithElement(s, f[k - 1])]
  <2>2. \A k \in 0..m + 1 : k <= m => g[k] = f[k]
    OBVIOUS
  <2>3. ASSUME NEW k \in 0..m + 1
        PROVE  g[k] = IF k = 0 THEN v ELSE WithElement(s, g[k - 1])
    <3>1. k # 0 => g[k - 1] = f[k - 1]
      BY <2>2
    <3>2. k <= m => f[k] = IF k = 0 THEN v ELSE WithElement(s, f[k - 1])
      BY <2>1 DEF Collects
    <3> QED
      BY <2>2, <3>1, <3>2
  <2> HIDE DEF g
  <2>4. [k \in 0..m + 1 |-> g[k]]
          = [k \in 0..m + 1 |-> IF k = 0 THEN v ELSE WithElement(s, g[k - 1])]
    BY <2>3
  <2>5. g = [k \in 0..m + 1 |-> g[k]]
    BY DEF g
  <2>6. P(m + 1, g)
    BY <2>4, <2>5 DEF Collects
  <2> HIDE DEF P
  <2> QED
    BY <2>6
<1> HIDE DEF S
<1>3. S = Nat
  BY <1>1, <1>2, NaturalInduction DEF S
<1> QED
  BY <1>3 DEF S

\* The values that the grammar's count of elements goes through.
Unfolds(f, s, i, n) ==
    /\ Grammar!Elements(s, i, n) = f[n]
    /\ f[0] = Grammar!Found(Grammar!Piece("MULTIBULK", 0, n, <<>>), i)
    /\ \A k \in 1..n : f[k] = WithElement(s, f[k - 1])

LEMMA ElementsUnfold ==
  ASSUME NEW s, NEW i, NEW n \in Nat
  PROVE  \E f : Unfolds(f, s, i, n)
<1> DEFINE v == Grammar!Found(Grammar!Piece("MULTIBULK", 0, n, <<>>), i)
           first == CHOOSE f : Collects(f, s, v, n)
<1>1. \E f : Collects(f, s, v, n)
  BY ElementsExist
<1>2. Collects(first, s, v, n)
  BY <1>1, Zenon
<1>3. Grammar!Elements(s, i, n) = first[n]
  BY DEF Grammar!Elements, WithElement, Collects
<1> HIDE DEF first
<1>4. first[0] = v /\ \A k \in 1..n : first[k] = WithElement(s, first[k - 1])
  BY <1>2 DEF Collects
<1>5. Unfolds(first, s, i, n)
  BY <1>3, <1>4 DEF Unfolds
<1> QED
  BY <1>5

LEMMA SubSeqAppend ==
  ASSUME NEW T, NEW s \in Seq(T), NEW k \in Nat, k < Len(s)
  PROVE  Append(SubSeq(s, 1, k), s[k + 1]) = SubSeq(s, 1, k + 1)
OBVIOUS

\* The elements of a multibulk reply of n elements that were found so far.
SoFar(n, elements) ==
    [type |-> "MULTIBULK", offset |-> 0, len |-> n, children |-> elements]

LEMMA OneMore ==
  ASSUME NEW n, NEW elements, NEW r
  PROVE  [SoFar(n, elements) EXCEPT !.children = Append(@, r)]
           = SoFar(n, Append(elements, r))
BY DEF SoFar

LEMMA WithElementIs ==
  ASSUME NEW s, NEW n, NEW elements, NEW i, NEW r, NEW x,
         Grammar!Bulk(s, i) = Grammar!Found(r, x)
  PROVE  WithElement(s, Grammar!Found(SoFar(n, elements), i))
           = Grammar!Found(SoFar(n, Append(elements, r)), x)
<1> DEFINE before == SoFar(n, elements)
<1>1. [before EXCEPT !.children = Append(@, r)] = SoFar(n, Append(elements, r))
  BY OneMore
<1> HIDE DEF before
<1>2. /\ Grammar!Found(before, i).verdict = "found"
      /\ Grammar!Found(before, i).what = before /\ Grammar!Found(before, i).next = i
      /\ Grammar!Found(r, x).verdict = "found"
      /\ Grammar!Found(r, x).what = r /\ Grammar!Found(r, x).next = x
  BY DEF Grammar!Found
<1>3. WithElement(s, Grammar!Found(before, i))
        = Grammar!Found([before EXCEPT !.children = Append(@, r)], x)
  BY <1>2 DEF WithElement
<1> QED
  BY <1>1, <1>3 DEF before

LEMMA ElementsAre ==
  ASSUME NEW s, NEW i, NEW n \in Nat, NEW kids \in Seq(Simple), Len(kids) <= n,
         NEW ats, ats[0] = i,
         \A k \in 1..Len(kids) :
            Grammar!Bulk(s, ats[k - 1]) = Grammar!Found(kids[k], ats[k])
  PROVE  /\ Len(kids) = n =>
              Grammar!Elements(s, i, n) = Grammar!Found(SoFar(n, kids), ats[n])
         /\ /\ Len(kids) < n
            /\ Grammar!Bulk(s, ats[Len(kids)]) \in {Grammar!More, Grammar!Error}
            => Grammar!Elements(s, i, n) = Grammar!Bulk(s, ats[Len(kids)])
<1>0. PICK f : Unfolds(f, s, i, n)
  BY ElementsUnfold
<1>1. /\ Grammar!Elements(s, i, n) = f[n]
      /\ f[0] = Grammar!Found(Grammar!Piece("MULTIBULK", 0, n, <<>>), i)
      /\ \A k \in 1..n : f[k] = WithElement(s, f[k - 1])
  BY <1>0 DEF Unfolds
<1> DEFINE S == {k \in Nat : k <= Len(kids) =>
                   f[k] = Grammar!Found(SoFar(n, SubSeq(kids, 1, k)), ats[k])}
<1>2. 0 \in S
  BY <1>1 DEF SoFar, Grammar!Piece
<1>3. ASSUME NEW k \in S PROVE k + 1 \in S
  <2> SUFFICES ASSUME k + 1 <= Len(kids)
               PROVE  f[k + 1] = Grammar!Found(SoFar(n, SubSeq(kids, 1, k + 1)),
                                               ats[k + 1])
    OBVIOUS
  <2>1. f[k] = Grammar!Found(SoFar(n, SubSeq(kids, 1, k)), ats[k])
    OBVIOUS
  <2>2. /\ k + 1 \in 1..n /\ (k + 1) - 1 = k /\ k + 1 \in 1..Len(kids)
        /\ k < Len(kids)
    OBVIOUS
  <2>3. f[k + 1] = WithElement(s, f[k])
    BY <1>1, <2>2
  <2>4. Grammar!Bulk(s, ats[k]) = Grammar!Found(kids[k + 1], ats[k + 1])
    BY <2>2
  <2>5. f[k + 1] = Grammar!Found(
          SoFar(n, Append(SubSeq(kids, 1, k), kids[k + 1])), ats[k + 1])
    BY <2>1, <2>3, <2>4, WithElementIs
  <2>6. Append(SubSeq(kids, 1, k), kids[k + 1]) = SubSeq(kids, 1, k + 1)
    BY <2>2, SubSeqAppend
  <2> QED
    BY <2>5, <2>6
<1> HIDE DEF S
<1>4. S = Nat
  BY <1>2, <1>3, NaturalInduction DEF S
<1> DEFINE m == Len(kids)
<1>5. m \in Nat /\ SubSeq(kids, 1, m) = kids
  OBVIOUS
<1>6. f[m] = Grammar!Found(SoFar(n, kids), ats[m])
  <2>1. m \in S /\ m <= Len(kids)
    BY <1>4, <1>5
  <2>2. f[m] = Grammar!Found(SoFar(n, SubSeq(kids, 1, m)), ats[m])
    BY <2>1 DEF S
  <2> QED
    BY <1>5, <2>2
<1>7. ASSUME m < n, Grammar!Bulk(s, ats[m]) \in {Grammar!More, Grammar!Error}
      PROVE  Grammar!Elements(s, i, n) = Grammar!Bulk(s, ats[m])
  <2> DEFINE v == Grammar!Bulk(s, ats[m])
             T == {k \in Nat : m + 1 + k <= n => f[m + 1 + k] = v}
  <2>1. v.verdict # "found"
    BY <1>7 DEF Grammar!More, Grammar!Error
  <2>2. m + 1 \in 1..n /\ (m + 1) - 1 = m
    BY <1>5, <1>7
  <2>3. f[m + 1] = v
    <3>1. f[m + 1] = WithElement(s, f[m])
      BY <1>1, <2>2
    <3> QED
      BY <1>6, <2>1, <3>1 DEF WithElement, Grammar!Found
  <2> HIDE DEF m, v
  <2>4. 0 \in T
    BY <1>5, <2>3
  <2>5. ASSUME NEW k \in T PROVE k + 1 \in T
    <3> SUFFICES ASSUME m + 1 + (k + 1) <= n PROVE f[m + 1 + (k + 1)] = v
      OBVIOUS
    <3>1. /\ m + 1 + (k + 1) \in 1..n
          /\ (m + 1 + (k + 1)) - 1 = m + 1 + k /\ m + 1 + k <= n
      BY <1>5
    <3>2. f[m + 1 + (k + 1)] = WithElement(s, f[m + 1 + k]) /\ f[m + 1 + k] = v
      BY <1>1, <3>1
    <3> QED
      BY <2>1, <3>2 DEF WithElement
  <2> HIDE DEF T
  <2>6. T = Nat
    BY <2>4, <2>5, NaturalInduction DEF T
  <2>7. n - m - 1 \in T /\ m + 1 + (n - m - 1) = n
    BY <1>5, <1>7, <2>6
  <2>8. f[n] = v
    BY <2>7 DEF T
  <2> QED
    BY <1>1, <2>8 DEF v
<1> QED
  BY <1>1, <1>6, <1>7

LEMMA NoElements ==
  ASSUME NEW s, NEW i
  PROVE  Grammar!Elements(s, i, 0) = Grammar!Found(SoFar(0, <<>>), i)
<1>1. PICK f : Unfolds(f, s, i, 0)
  BY ElementsUnfold
<1> QED
  BY <1>1 DEF Unfolds, SoFar, Grammar!Piece

LEMMA MultibulkIs ==
  ASSUME NEW s, NEW i \in Nat
  PROVE  /\ Grammar!Count(s, i + 1) \in {Grammar!More, Grammar!Error}
              => Grammar!Multibulk(s, i) = Grammar!Count(s, i + 1)
         /\ \A j : Grammar!Count(s, i + 1) = Grammar!Found(-1, j) =>
              Grammar!Multibulk(s, i) =
                Grammar!Found(Reply_new("MULTIBULK_NIL", 0, 0), j)
         /\ \A j, n : Grammar!Count(s, i + 1) = Grammar!Found(n, j) /\ n \in Nat =>
              Grammar!Multibulk(s, i) = Grammar!Elements(s, j, n)
<1>1. Grammar!Count(s, i + 1) \in {Grammar!More, Grammar!Error}
        => Grammar!Count(s, i + 1).verdict # "found"
  BY DEF Grammar!More, Grammar!Error
<1>2. ASSUME NEW j, Grammar!Count(s, i + 1) = Grammar!Found(-1, j)
      PROVE  Grammar!Multibulk(s, i) =
               Grammar!Found(Reply_new("MULTIBULK_NIL", 0, 0), j)
  <2>1. /\ Grammar!Count(s, i + 1).verdict = "found"
        /\ Grammar!Count(s, i + 1).what = -1 /\ Grammar!Count(s, i + 1).next = j
    BY <1>2 DEF Grammar!Found
  <2> QED
    BY <2>1 DEF Grammar!Multibulk, Grammar!Piece, Reply_new
<1>3. ASSUME NEW j, NEW n, Grammar!Count(s, i + 1) = Grammar!Found(n, j), n \in Nat
      PROVE  Grammar!Multibulk(s, i) = Grammar!Elements(s, j, n)
  <2>1. /\ Grammar!Count(s, i + 1).verdict = "found"
        /\ Grammar!Count(s, i + 1).what = n /\ Grammar!Count(s, i + 1).next = j
        /\ n # -1
    BY <1>3 DEF Grammar!Found
  <2> QED
    BY <2>1 DEF Grammar!Multibulk
<1> QED
  BY <1>1, <1>2, <1>3 DEF Grammar!Multibulk

LEMMA OpenVerdict ==
  ASSUME InStream, NEW ats, Opened(ats), multibulk_reply \in Multibulk,
         multibulk_count > 0,
         Len(multibulk_reply.children) + multibulk_count = multibulk_reply.len,
         NEW n \in Nat, p <= n, n <= Len(stream)
  PROVE  LET v == Grammar!Bulk(Prefix(n), ats[Len(multibulk_reply.children)])
         IN  /\ v \in {Grammar!More, Grammar!Error} =>
                  Grammar!ReplyAt(Prefix(n), start + 1) = v
             /\ \A r \in Simple : \A x :
                v = Grammar!Found(r, x) /\ multibulk_count = 1 =>
                  Grammar!ReplyAt(Prefix(n), start + 1) = Grammar!Found(
                    [multibulk_reply EXCEPT !.children = Append(@, r)], x)
<1> DEFINE kids == multibulk_reply.children
           size == multibulk_reply.len
           t == Prefix(n)
<1>1. /\ stream \in Seq(STRING) /\ start \in Nat /\ p \in Nat
      /\ multibulk_count \in Int
  BY DEF InStream, ScalarsOK, CInt
<1>2. kids \in Seq(Simple) /\ Len(kids) \in Nat /\ size \in Nat /\ Len(kids) < size
      /\ multibulk_reply = SoFar(size, kids)
  <2>1. kids \in Seq(Simple) /\ multibulk_reply = SoFar(size, kids)
    BY DEF Multibulk, SoFar
  <2>2. Len(kids) \in Nat
    BY <2>1
  <2> QED
    BY <1>1, <2>1, <2>2
<1>3. Len(t) = n /\ t[start + 1] = "*" /\ start + 1 <= n
  BY <1>1, PrefixFacts DEF Opened
<1>4. /\ Grammar!Count(t, start + 2) = Grammar!Found(size, ats[0])
      /\ \A k \in 1..Len(kids) :
            Grammar!Bulk(t, ats[k - 1]) = Grammar!Found(kids[k], ats[k])
      /\ ats \in [0..Len(kids) -> 1 .. p + 1]
  <2>1. \A k \in 0..Len(kids) : ats[k] <= n + 1
    BY <1>1, <1>2 DEF Opened
  <2>2. 0 \in 0..Len(kids) /\ \A k \in 1..Len(kids) : k \in 0..Len(kids)
    BY <1>2
  <2> QED
    BY <1>1, <2>1, <2>2 DEF Opened
<1> HIDE DEF t
<1>5. Grammar!ReplyAt(t, start + 1) = Grammar!Elements(t, ats[0], size)
  <2>1. Grammar!Multibulk(t, start + 1) = Grammar!Elements(t, ats[0], size)
    <3>1. start + 1 \in Nat /\ (start + 1) + 1 = start + 2
      BY <1>1
    <3> HIDE DEF size
    <3> QED
      BY <1>2, <1>4, <3>1, MultibulkIs
  <2>2. start + 1 \in Nat
    BY <1>1
  <2> QED
    BY <1>3, <2>1, <2>2, ReplyAtIs
<1> HIDE DEF kids, size
<1>6. ASSUME Grammar!Bulk(t, ats[Len(kids)]) \in {Grammar!More, Grammar!Error}
      PROVE  Grammar!ReplyAt(t, start + 1) = Grammar!Bulk(t, ats[Len(kids)])
  BY <1>2, <1>4, <1>5, <1>6, ElementsAre
<1>7. ASSUME NEW r \in Simple, NEW x, multibulk_count = 1,
             Grammar!Bulk(t, ats[Len(kids)]) = Grammar!Found(r, x)
      PROVE  Grammar!ReplyAt(t, start + 1) = Grammar!Found(
               [multibulk_reply EXCEPT !.children = Append(@, r)], x)
  <2> DEFINE kids2 == Append(kids, r)
             ats2 == [k \in 0 .. Len(kids) + 1 |->
                        IF k <= Len(kids) THEN ats[k] ELSE x]
  <2>1. kids2 \in Seq(Simple) /\ Len(kids2) = size /\ Len(kids2) = Len(kids) + 1
    BY <1>2, <1>7 DEF kids, size
  <2>2. ats2[0] = ats[0] /\ ats2[size] = x
    BY <1>2, <2>1
  <2>3. ASSUME NEW k \in 1..Len(kids2)
        PROVE  Grammar!Bulk(t, ats2[k - 1]) = Grammar!Found(kids2[k], ats2[k])
    <3>1. CASE k \in 1..Len(kids)
      <4>1. ats2[k - 1] = ats[k - 1] /\ ats2[k] = ats[k] /\ kids2[k] = kids[k]
        BY <1>2, <3>1
      <4> QED
        BY <1>4, <3>1, <4>1
    <3>2. CASE k = Len(kids) + 1
      <4>1. ats2[k - 1] = ats[Len(kids)] /\ ats2[k] = x /\ kids2[k] = r
        BY <1>2, <3>2
      <4> QED
        BY <1>7, <4>1
    <3> QED
      BY <1>2, <2>1, <3>1, <3>2
  <2> HIDE DEF kids2, ats2
  <2>4. Grammar!Elements(t, ats[0], size) = Grammar!Found(SoFar(size, kids2), x)
    <3>1. size \in Nat /\ kids2 \in Seq(Simple) /\ Len(kids2) = size
          /\ Len(kids2) <= size
      BY <1>2, <2>1
    <3>2. Len(kids2) = size =>
            Grammar!Elements(t, ats[0], size)
              = Grammar!Found(SoFar(size, kids2), ats2[size])
      <4>1. \A k \in 1..Len(kids2) :
              Grammar!Bulk(t, ats2[k - 1]) = Grammar!Found(kids2[k], ats2[k])
        BY <2>3
      <4> QED
        BY <2>2, <3>1, <4>1, ElementsAre, SMTT(60)
    <3> QED
      BY <2>2, <3>1, <3>2
  <2>5. SoFar(size, kids2) = [multibulk_reply EXCEPT !.children = Append(@, r)]
    <3>1. multibulk_reply.children = kids
      BY DEF kids
    <3>2. multibulk_reply = SoFar(size, kids)
      BY <1>2
    <3>3. \A ks : [SoFar(size, ks) EXCEPT !.children = Append(@, r)]
                   = SoFar(size, Append(ks, r))
      BY DEF SoFar
    <3> QED
      BY <3>1, <3>2, <3>3 DEF kids2
  <2> QED
    BY <1>5, <2>4, <2>5
<1> QED
  BY <1>6, <1>7 DEF t, kids

-----------------------------------------------------------------------------
(***************************************************************************)
(* What one more byte adds to what was read.                               *)
(***************************************************************************)
LEMMA CountStep ==
  ASSUME InStream, NEW q \in Nat, q > 0, NEW first \in {5, 13},
         CountText(q, first), cs \in first .. first + 5,
         CountStart \/ NilCount \/ CountDigit \/ BulkCountEnd \/ MultibulkCountEnd
  PROVE  CountText(q, first)' /\ cs' \in first + 1 .. first + 5 /\ p' = p + 1
<1>0. ScalarsOK /\ p \in Nat
  BY DEF InStream, ScalarsOK
<1>1. CASE CountStart
  <2> DEFINE s == IF c = "-" THEN cs + 1 ELSE cs + 4
  <2>1. Consume({5, 13}, s) /\ mark' = IF c = "-" THEN mark ELSE p
    BY <1>1 DEF CountStart
  <2>2. p' = p + 1 /\ cs \in {5, 13} /\ cs' = s /\ Accepts /\ stream' = stream
    BY <1>0, <2>1, ConsumeFacts
  <2>3. cs = first /\ p = q
    BY <2>2 DEF CountText
  <2>4. stream[q + 1] = c
    BY <2>3 DEF c
  <2>5. CASE c = "-"
    BY <2>2, <2>3, <2>4, <2>5 DEF CountText
  <2>6. CASE c # "-"
    <3>1. c \in Grammar!DigitSet
      BY <2>2, <2>6, SameDigits DEF Accepts, isdigit
    <3>2. cs' = first + 4 /\ mark' = q
      BY <2>1, <2>2, <2>3, <2>6
    <3>3. \A k \in q + 1 .. p' : k = q + 1
      BY <2>2, <2>3
    <3> QED
      BY <2>2, <2>3, <2>4, <3>1, <3>2, <3>3 DEF CountText
  <2> QED
    BY <2>5, <2>6
<1>2. CASE NilCount
  <2>1. Consume({6, 7, 14, 15}, cs + 1)
    BY <1>2 DEF NilCount
  <2>2. /\ p' = p + 1 /\ cs \in {6, 7, 14, 15} /\ cs' = cs + 1 /\ Accepts
        /\ stream' = stream
    BY <1>0, <2>1, ConsumeFacts
  <2>3. \/ cs = first + 1 /\ c = "1"
        \/ cs = first + 2 /\ c = "CR"
    BY <2>2 DEF Accepts
  <2> QED
    BY <2>2, <2>3 DEF CountText, c
<1>3. CASE CountDigit
  <2>1. Consume({9, 17}, cs) /\ isdigit(c) /\ mark' = mark
    BY <1>3 DEF CountDigit
  <2>2. p' = p + 1 /\ cs \in {9, 17} /\ cs' = cs /\ stream' = stream
    BY <1>0, <2>1, ConsumeFacts
  <2>3. cs = first + 4 /\ stream[p + 1] \in Grammar!DigitSet
    BY <2>1, <2>2, SameDigits DEF isdigit, c
  <2>4. /\ mark = q /\ q < p
        /\ \A k \in q + 1 .. p : stream[k] \in Grammar!DigitSet
    BY <2>3 DEF CountText
  <2>5. \A k \in q + 1 .. p + 1 : k \in q + 1 .. p \/ k = p + 1
    BY <1>0
  <2> QED
    BY <1>0, <2>1, <2>2, <2>3, <2>4, <2>5 DEF CountText
<1>4. CASE BulkCountEnd \/ MultibulkCountEnd
  <2>1. \/ Consume({9}, 10) /\ c = "CR"
        \/ Consume({17}, 18) /\ c = "CR"
    BY <1>4 DEF BulkCountEnd, MultibulkCountEnd
  <2>2. /\ p' = p + 1 /\ cs \in {9, 17} /\ cs' = cs + 1 /\ stream' = stream
        /\ c = "CR"
    BY <1>0, <2>1, ConsumeFacts
  <2>3. /\ cs = first + 4 /\ q < p
        /\ \A k \in q + 1 .. p : stream[k] \in Grammar!DigitSet
    BY <2>2 DEF CountText
  <2>4. stream[p + 1] = "CR" /\ (p + 1) - 1 = p
    BY <1>0, <2>2 DEF c
  <2> QED
    BY <1>0, <2>2, <2>3, <2>4 DEF CountText
<1> QED
  BY <1>1, <1>2, <1>3, <1>4

\* A count is what its digits say when an int can hold it.
LEMMA CountIsRight ==
  ASSUME InStream, Grammar!CountsFit(stream), NEW q \in Nat, q > 0,
         NEW first \in {5, 13}, CountText(q, first), cs = first + 4,
         stream[q] \in {"$", "*"}, NEW n, Holds(n, Number)
  PROVE  n = Grammar!Number(stream, q + 1, p) /\ n \in Nat
<1>1. /\ p \in Nat /\ p <= Len(stream) /\ mark = q /\ mark < p
      /\ \A k \in mark + 1 .. p : stream[k] \in Grammar!DigitSet
      /\ Len(stream) \in Nat /\ mark \in Nat
  BY DEF InStream, ScalarsOK, CountText
<1>2. Number = Grammar!Number(stream, q + 1, p)
  BY <1>1, AtoiIsNumber
<1>3. Grammar!Number(stream, q + 1, p) \in Nat
  BY <1>1, SameNumber
<1>4. Grammar!Number(stream, q + 1, p) <= IntMax
  BY <1>1 DEF Grammar!CountsFit
<1> QED
  BY <1>2, <1>3, <1>4, IntMaxAssumption DEF Holds, CInt

LEMMA BulkStep ==
  ASSUME InStream, Grammar!CountsFit(stream), NEW q \in Nat, q > 0,
         BulkText(q), cs \in {0} \cup (5..12),
         \/ FirstByte /\ c = "$"
         \/ CountStart \/ NilCount \/ CountDigit \/ BulkCountEnd
         \/ PayloadStart \/ Payload \/ PayloadEnd
  PROVE  BulkText(q)' /\ cs' \in 5..12 /\ p < p'
<1>0. /\ ScalarsOK /\ p \in Nat /\ len \in Nat /\ mark \in Nat /\ p <= len
      /\ bulk_count \in Int /\ stream \in Seq(STRING) /\ len <= Len(stream)
  BY DEF InStream, ScalarsOK, CInt
<1>1. CASE FirstByte /\ c = "$"
  <2>1. Consume({0}, FirstState[c])
    BY <1>1 DEF FirstByte
  <2>2. p' = p + 1 /\ cs = 0 /\ cs' = 5 /\ stream' = stream
    BY <1>0, <1>1, <2>1, ConsumeFacts DEF FirstState
  <2>3. p' = q /\ stream[q] = "$"
    BY <1>1, <2>2 DEF BulkText, c
  <2>4. CountText(q, 5)'
    BY <2>2, <2>3 DEF CountText
  <2>5. q <= p' /\ stream'[q] = "$"
    BY <1>0, <2>2, <2>3
  <2>6. BulkText(q)'
    BY <2>2, <2>4, <2>5 DEF BulkText
  <2> QED
    BY <1>0, <2>2, <2>6
<1>2. CASE CountStart \/ NilCount \/ CountDigit \/ BulkCountEnd
  <2>1. /\ cs \in 5..10 /\ stream' = stream
        /\ cs' = 10 => BulkCountEnd /\ cs = 9
    <3>1. CASE CountStart
      BY <1>0, <3>1, ConsumeFacts DEF CountStart
    <3>2. CASE NilCount
      BY <1>0, <3>2, ConsumeFacts DEF NilCount
    <3>3. CASE CountDigit
      BY <1>0, <3>3, ConsumeFacts DEF CountDigit
    <3>4. CASE BulkCountEnd
      BY <1>0, <3>4, ConsumeFacts DEF BulkCountEnd
    <3> QED
      BY <1>2, <3>1, <3>2, <3>3, <3>4
  <2>2. stream[q] = "$" /\ q <= p /\ CountText(q, 5)
    BY <2>1 DEF BulkText
  <2>3. CountText(q, 5)' /\ cs' \in 6..10 /\ p' = p + 1
    BY <1>2, <2>1, <2>2, CountStep
  <2>4. cs' = 10 => bulk_count' = Grammar!Number(stream, q + 1, p' - 1)
    <3> SUFFICES ASSUME cs' = 10
                 PROVE  bulk_count' = Grammar!Number(stream, q + 1, p)
      BY <1>0, <2>3
    <3>1. PICK n \in CInt : Holds(n, Number) /\ bulk_count' = n
      BY <2>1 DEF BulkCountEnd
    <3> QED
      BY <2>1, <2>2, <3>1, CountIsRight
  <2> QED
    BY <1>0, <2>1, <2>2, <2>3, <2>4 DEF BulkText
<1>3. CASE PayloadStart
  <2>1. Consume({10}, 11) /\ mark' = p + 1 /\ bulk_count' = bulk_count
    BY <1>3 DEF PayloadStart, counts
  <2>2. p' = p + 1 /\ cs = 10 /\ cs' = 11 /\ stream' = stream /\ Accepts
    BY <1>0, <2>1, ConsumeFacts
  <2>3. /\ stream[q] = "$" /\ q + 1 < p /\ stream[p] = "CR" /\ stream[p + 1] = "LF"
        /\ \A k \in q + 1 .. p - 1 : stream[k] \in Grammar!DigitSet
        /\ bulk_count = Grammar!Number(stream, q + 1, p - 1)
    BY <2>2 DEF BulkText, CountText, Accepts, c
  <2>4. bulk_count \in Nat
    BY <1>0, <2>3, SameNumber
  <2>5. /\ (p + 1) - 1 = p /\ (p + 1) - 2 = p - 1 /\ q + 2 < p + 1
        /\ bulk_count' + (p' - mark') = bulk_count
    BY <1>0, <2>1, <2>2, <2>3
  <2> QED
    BY <1>0, <2>1, <2>2, <2>3, <2>4, <2>5 DEF BulkText, CountText, Header
<1>4. CASE Payload
  <2>1. /\ cs = 11 /\ cs' = 11 /\ stream' = stream /\ mark' = mark /\ p < len
        /\ PayloadLength > 0 /\ p' = p + PayloadLength
    BY <1>4 DEF Payload, InLoop
  <2>2. PICK n \in CInt : Holds(n, bulk_count - PayloadLength) /\ bulk_count' = n
    BY <1>4 DEF Payload
  <2>3. /\ stream[q] = "$" /\ q <= p /\ Header(q, mark) /\ bulk_count >= 0
        /\ bulk_count + (p - mark) = Grammar!Number(stream, q + 1, mark - 2)
    BY <2>1 DEF BulkText
  <2>4. PayloadLength \in Nat /\ PayloadLength <= bulk_count
    BY <1>0, <2>1, <2>3 DEF PayloadLength
  <2>5. bulk_count - PayloadLength \in CInt
    BY <1>0, <2>3, <2>4, IntMaxAssumption DEF CInt, ScalarsOK
  <2>6. bulk_count' = bulk_count - PayloadLength /\ bulk_count' >= 0
    BY <1>0, <2>2, <2>4, <2>5 DEF Holds
  <2>7. bulk_count' + (p' - mark) = bulk_count + (p - mark)
    BY <1>0, <2>1, <2>4, <2>6
  <2> HIDE DEF PayloadLength
  <2> QED
    BY <1>0, <2>1, <2>3, <2>4, <2>6, <2>7 DEF BulkText, CountText, Header
<1>5. CASE PayloadEnd
  <2>1. Consume({11}, 12) /\ mark' = mark /\ bulk_count' = bulk_count
        /\ PayloadLength = 0
    BY <1>5 DEF PayloadEnd, counts
  <2>2. p' = p + 1 /\ cs = 11 /\ cs' = 12 /\ stream' = stream /\ Accepts /\ p < len
    BY <1>0, <2>1, ConsumeFacts DEF Consume, InLoop
  <2>3. /\ stream[q] = "$" /\ q <= p /\ Header(q, mark) /\ bulk_count >= 0
        /\ bulk_count + (p - mark) = Grammar!Number(stream, q + 1, mark - 2)
    BY <2>2 DEF BulkText
  <2>4. bulk_count = 0
    BY <1>0, <2>1, <2>2, <2>3 DEF PayloadLength
  <2>5. stream[p + 1] = "CR"
    BY <2>1, <2>2 DEF Accepts, c
  <2>6. (p + 1) - 1 - mark = bulk_count + (p - mark)
    BY <1>0, <2>4
  <2> QED
    BY <1>0, <2>1, <2>2, <2>3, <2>4, <2>5, <2>6 DEF BulkText, CountText, Header
<1> QED
  BY <1>1, <1>2, <1>3, <1>4, <1>5

LEMMA LineStep ==
  ASSUME InStream,
         \/ FirstByte /\ c \in {"+", "-", ":"} /\ p = start
         \/ LineByte /\ LineText /\ start < p
  PROVE  LineText' /\ cs' \in {1, 2, 3, 4, 19, 20} /\ p' = p + 1 /\ start' = start
<1>0. ScalarsOK /\ p \in Nat /\ start \in Nat
  BY DEF InStream, ScalarsOK
<1>1. CASE FirstByte /\ c \in {"+", "-", ":"} /\ p = start
  <2>1. Consume({0}, FirstState[c]) /\ mark' = p + 1 /\ start' = start
    BY <1>1 DEF FirstByte, Continue
  <2>2. p' = p + 1 /\ cs' = FirstState[c] /\ stream' = stream
    BY <1>0, <2>1, ConsumeFacts
  <2>3. \/ c = "+" /\ cs' = 1
        \/ c = "-" /\ cs' = 3
        \/ c = ":" /\ cs' = 19
    BY <1>1, <2>2 DEF FirstState
  <2>4. stream[start + 1] = c
    BY <1>1 DEF c
  <2>5. start + 2 .. p' = {}
    BY <1>0, <1>1, <2>2
  <2> QED
    BY <1>0, <1>1, <2>1, <2>2, <2>3, <2>4, <2>5 DEF LineText
<1>2. CASE LineByte /\ LineText /\ start < p
  <2> DEFINE s == IF c = "CR" THEN cs + 1 ELSE cs
  <2>1. Consume({1, 3, 19}, s) /\ mark' = mark /\ start' = start
    BY <1>2 DEF LineByte, Continue
  <2>2. p' = p + 1 /\ cs' = s /\ stream' = stream /\ cs \in {1, 3, 19}
    BY <1>0, <2>1, ConsumeFacts
  <2>3. \A k \in start + 2 .. p : stream[k] # "CR"
    BY <1>2, <2>2 DEF LineText
  <2>4. CASE c = "CR"
    <3>1. cs' = cs + 1 /\ stream[p + 1] = "CR" /\ (p + 1) - 1 = p
      BY <1>0, <2>2, <2>4 DEF c
    <3> QED
      BY <1>2, <2>1, <2>2, <2>3, <3>1 DEF LineText
  <2>5. CASE c # "CR"
    <3>1. cs' = cs /\ stream[p + 1] # "CR"
      BY <2>2, <2>5 DEF c
    <3>2. \A k \in start + 2 .. p + 1 : k \in start + 2 .. p \/ k = p + 1
      BY <1>0
    <3> QED
      BY <1>2, <2>1, <2>2, <2>3, <3>1, <3>2 DEF LineText
  <2> QED
    BY <2>4, <2>5
<1> QED
  BY <1>1, <1>2

-----------------------------------------------------------------------------
(***************************************************************************)
(* The steps that return nothing preserve GrammarInv.                      *)
(***************************************************************************)
LEMMA OpenStays ==
  ASSUME NEW ats, Opened(ats), multibulk_reply' = multibulk_reply,
         stream' = stream, start' = start, start \in Nat, p \in Nat, p' \in Nat,
         p <= p'
  PROVE  Opened(ats)'
<1>1. ats \in [0 .. Len(multibulk_reply.children) -> 1 .. p' + 1]
  BY DEF Opened
<1>2. start < p'
  BY DEF Opened
<1> QED
  BY <1>1, <1>2 DEF Opened, Prefix

LEMMA BulkBegins ==
  ASSUME NEW q, q = start' + 1, BulkText(q)'
  PROVE  BulkText(start + 1)'
BY DEF BulkText, CountText, Header

LEMMA CountBegins ==
  ASSUME NEW q, q = start' + 1, NEW first, CountText(q, first)'
  PROVE  CountText(start + 1, first)'
BY DEF CountText

\* The next state is that of a parser with nothing read of the next reply.
LEMMA Restarted ==
  ASSUME cs' = 0, start' = p', p' \in Nat
  PROVE  SingleText'
BY DEF SingleText, BulkText, CountText

Quiet ==
    \/ FirstByte \/ LineByte \/ CountStart \/ NilCount \/ CountDigit
    \/ BulkCountEnd \/ MultibulkCountEnd \/ PayloadStart \/ Payload \/ PayloadEnd

LEMMA QuietFacts ==
  ASSUME ScalarsOK, Quiet
  PROVE  /\ Continue /\ stream' = stream /\ len' = len /\ result = "NONE"
         /\ p' \in Nat /\ p <= p'
         /\ cs = 0 => FirstByte
         /\ cs \in {1, 3, 19} => LineByte
         /\ cs \in 5..12 =>
              \/ CountStart \/ NilCount \/ CountDigit \/ BulkCountEnd
              \/ PayloadStart \/ Payload \/ PayloadEnd
         /\ cs \in 13..17 =>
              CountStart \/ NilCount \/ CountDigit \/ MultibulkCountEnd
         /\ cs \in {0, 1, 3, 19} \cup (5..17)
         /\ ~MultibulkCountEnd =>
              /\ multibulk_reply' = multibulk_reply
              /\ multibulk_count' = multibulk_count
<1>1. CASE FirstByte
  BY <1>1, ConsumeFacts DEF FirstByte, Continue, counts
<1>2. CASE LineByte
  BY <1>2, ConsumeFacts DEF LineByte, Continue, counts
<1>3. CASE CountStart
  BY <1>3, ConsumeFacts DEF CountStart, Continue, counts
<1>4. CASE NilCount
  BY <1>4, ConsumeFacts DEF NilCount, Continue, counts
<1>5. CASE CountDigit
  BY <1>5, ConsumeFacts DEF CountDigit, Continue, counts
<1>6. CASE BulkCountEnd
  BY <1>6, ConsumeFacts DEF BulkCountEnd, Continue, counts
<1>7. CASE MultibulkCountEnd
  BY <1>7, ConsumeFacts DEF MultibulkCountEnd, Continue, counts
<1>8. CASE PayloadStart
  BY <1>8, ConsumeFacts DEF PayloadStart, Continue, counts
<1>9. CASE Payload
  <2>1. PayloadLength \in Nat
    BY <1>9 DEF Payload, InLoop, PayloadLength, ScalarsOK, CInt
  <2>2. p' = p + PayloadLength /\ p \in Nat
    BY <1>9 DEF Payload, ScalarsOK
  <2> QED
    BY <1>9, <2>1, <2>2 DEF Payload, InLoop, Continue
<1>10. CASE PayloadEnd
  BY <1>10, ConsumeFacts DEF PayloadEnd, Continue, counts
<1> QED
  BY <1>1, <1>2, <1>3, <1>4, <1>5, <1>6, <1>7, <1>8, <1>9, <1>10 DEF Quiet

LEMMA SingleStep ==
  ASSUME Inv, InStream, Grammar!CountsFit(stream), SingleText,
         multibulk_reply = NULL, Quiet
  PROVE  ReadSoFar'
<1>0. /\ ScalarsOK /\ p \in Nat /\ start \in Nat /\ start + 1 \in Nat
      /\ start + 1 > 0 /\ CountOK
  BY InvParts DEF ScalarsOK
<1>1. /\ start' = start /\ stream' = stream /\ p' \in Nat /\ p <= p'
      /\ cs \in {0, 1, 3, 19} \cup (5..17)
      /\ ~MultibulkCountEnd => multibulk_reply' = NULL
  BY <1>0, QuietFacts DEF Continue
<1>2. PICK q \in Nat : q = start + 1
  BY <1>0
<1>3. CASE cs \in {0} \cup (5..12) /\ (cs = 0 => c = "$")
  <2>1. BulkText(q)
    BY <1>2, <1>3 DEF SingleText
  <2>2. \/ FirstByte /\ c = "$"
        \/ CountStart \/ NilCount \/ CountDigit \/ BulkCountEnd
        \/ PayloadStart \/ Payload \/ PayloadEnd
    BY <1>0, <1>3, QuietFacts
  <2>3. BulkText(q)' /\ cs' \in 5..12 /\ p < p'
    BY <1>0, <1>2, <1>3, <2>1, <2>2, BulkStep
  <2>4. multibulk_reply' = NULL
    BY <1>0, <1>1, <1>3, ConsumeFacts DEF MultibulkCountEnd
  <2>5. BulkText(start + 1)'
    BY <1>1, <1>2, <2>3, BulkBegins
  <2>6. start <= p
    BY <1>0, <1>3, <2>1, <1>2 DEF BulkText
  <2> QED
    BY <1>0, <1>1, <2>3, <2>4, <2>5, <2>6 DEF ReadSoFar, SingleText
<1>4. CASE cs = 0 /\ c # "$"
  <2>1. FirstByte /\ p = start
    BY <1>0, <1>4, QuietFacts DEF SingleText, BulkText
  <2>2. Consume({0}, FirstState[c])
    BY <2>1 DEF FirstByte
  <2>3. p' = p + 1 /\ cs' = FirstState[c] /\ Accepts
    BY <1>0, <2>2, ConsumeFacts
  <2>4. c \in {"+", "-", ":", "*"} /\ ~MultibulkCountEnd
    BY <1>0, <1>4, <2>3, ConsumeFacts
       DEF Accepts, Starts, FirstState, MultibulkCountEnd
  <2>5. CASE c = "*"
    <3>1. cs' = 13 /\ stream[start + 1] = "*" /\ p' = start + 1
      BY <2>1, <2>3, <2>5 DEF FirstState, c
    <3>2. CountText(start + 1, 13)' /\ cs' # 0 /\ start < p'
      BY <1>0, <1>1, <3>1 DEF CountText
    <3> QED
      BY <1>1, <2>4, <3>1, <3>2 DEF ReadSoFar, SingleText
  <2>6. CASE c # "*"
    <3>1. LineText' /\ cs' \in {1, 2, 3, 4, 19, 20}
      BY <2>1, <2>4, <2>6, LineStep
    <3>2. start < p'
      BY <1>0, <2>1, <2>3
    <3> QED
      BY <1>1, <2>4, <3>1, <3>2 DEF ReadSoFar, SingleText
  <2> QED
    BY <2>5, <2>6
<1>5. CASE cs \in {1, 3, 19}
  <2>1. LineByte /\ LineText /\ start < p /\ ~MultibulkCountEnd
    BY <1>0, <1>5, QuietFacts, ConsumeFacts DEF SingleText, MultibulkCountEnd
  <2>2. LineText' /\ cs' \in {1, 2, 3, 4, 19, 20}
    BY <2>1, LineStep
  <2>3. start < p'
    BY <1>0, <1>1, <2>1
  <2> QED
    BY <1>1, <2>1, <2>2, <2>3 DEF ReadSoFar, SingleText
<1>6. CASE cs \in 13..17
  <2>1. /\ CountStart \/ NilCount \/ CountDigit \/ MultibulkCountEnd
        /\ start < p /\ stream[start + 1] = "*" /\ CountText(q, 13)
    BY <1>0, <1>2, <1>6, QuietFacts DEF SingleText
  <2>2. CountText(q, 13)' /\ cs' \in 14..18 /\ p' = p + 1
    <3>1. cs \in 13 .. 13 + 5 /\ q > 0
      BY <1>0, <1>2, <1>6
    <3>2. CountText(q, 13)' /\ cs' \in 13 + 1 .. 13 + 5 /\ p' = p + 1
      BY <2>1, <3>1, CountStep
    <3> QED
      BY <3>2
  <2>3. CountText(start + 1, 13)' /\ start < p'
    BY <1>0, <1>1, <1>2, <2>1, <2>2, CountBegins
  <2>4. CASE ~MultibulkCountEnd
    <3>1. cs' # 18
      BY <1>0, <1>6, <2>1, <2>4, ConsumeFacts DEF CountStart, NilCount, CountDigit
    <3>2. cs' \in 14..17
      BY <2>2, <3>1
    <3> QED
      BY <1>1, <2>1, <2>3, <2>4, <3>2 DEF ReadSoFar, SingleText
  <2>5. CASE MultibulkCountEnd
    <3>1. PICK n \in CInt :
            /\ Holds(n, Number) /\ multibulk_count' = n
            /\ multibulk_reply' = [Reply_new("MULTIBULK", 0, 0) EXCEPT !.len = n]
      BY <2>5 DEF MultibulkCountEnd
    <3>2. cs = 17 /\ cs' = 18
      BY <1>0, <2>5, ConsumeFacts DEF MultibulkCountEnd
    <3>3. n = Grammar!Number(stream, q + 1, p) /\ n \in Nat
      BY <1>0, <1>2, <2>1, <3>1, <3>2, CountIsRight
    <3>4. multibulk_reply'.children = <<>> /\ multibulk_reply'.type = "MULTIBULK"
      BY <3>1 DEF Reply_new
    <3>5. multibulk_reply' # NULL
      BY <3>4, NullIsNoMultibulk
    <3>6. start' + 2 = q + 1 /\ p' - 1 = p
      BY <1>0, <1>1, <1>2, <2>2
    <3> QED
      BY <1>1, <2>1, <2>3, <3>1, <3>2, <3>3, <3>4, <3>5, <3>6
         DEF ReadSoFar, OpenText
  <2> QED
    BY <2>4, <2>5
<1> QED
  BY <1>1, <1>3, <1>4, <1>5, <1>6

\* An open multibulk reply waits for an element, or for its line end.
LEMMA OpenCounts ==
  ASSUME Inv, OpenText, multibulk_reply # NULL
  PROVE  /\ multibulk_reply \in Multibulk
         /\ cs # 18 => multibulk_count > 0
         /\ Len(multibulk_reply.children) + multibulk_count = multibulk_reply.len
<1>1. PendingOK /\ CountOK /\ multibulk_count \in Int
  BY InvParts DEF ScalarsOK, CInt
<1> QED
  BY <1>1 DEF PendingOK, CountOK, OpenText

LEMMA OpenStep ==
  ASSUME Inv, InStream, Grammar!CountsFit(stream), OpenText,
         multibulk_reply # NULL, Quiet
  PROVE  ReadSoFar'
<1>0. ScalarsOK /\ p \in Nat /\ start \in Nat /\ CountOK
  BY InvParts DEF ScalarsOK
<1>1. /\ start' = start /\ stream' = stream /\ p' \in Nat /\ p <= p'
      /\ cs # 18
  BY <1>0, QuietFacts DEF Continue
<1>2. multibulk_reply \in Multibulk /\ multibulk_count > 0
  BY <1>1, OpenCounts
<1>3. PICK ats \in [0 .. Len(multibulk_reply.children) -> 1 .. p + 1] :
        Opened(ats) /\ BulkText(ats[Len(multibulk_reply.children)])
  BY <1>1 DEF OpenText
<1>4. cs \in {0} \cup (5..12)
  BY <1>1 DEF OpenText
<1>5. PICK q : q = ats[Len(multibulk_reply.children)]
  OBVIOUS
<1>6. q \in Nat /\ q > 0 /\ BulkText(q)
  <2>1. Len(multibulk_reply.children) \in 0 .. Len(multibulk_reply.children)
    BY <1>2 DEF Multibulk
  <2> QED
    BY <1>0, <1>3, <1>5, <2>1
<1>7. cs = 0 => c = "$"
  <2> SUFFICES ASSUME cs = 0 PROVE c = "$"
    OBVIOUS
  <2>1. Consume({0}, FirstState[c])
    BY <1>0, QuietFacts DEF FirstByte
  <2>2. Accepts
    BY <1>0, <2>1, ConsumeFacts
  <2>3. multibulk_count # 0
    BY <1>0, <1>2 DEF ScalarsOK, CInt
  <2> QED
    BY <2>2, <2>3 DEF Accepts, Starts
<1>8. \/ FirstByte /\ c = "$"
      \/ CountStart \/ NilCount \/ CountDigit \/ BulkCountEnd
      \/ PayloadStart \/ Payload \/ PayloadEnd
  BY <1>0, <1>4, <1>7, QuietFacts
<1>9. BulkText(q)' /\ cs' \in 5..12
  BY <1>4, <1>6, <1>8, BulkStep
<1>10. ~MultibulkCountEnd
  BY <1>0, <1>4, ConsumeFacts DEF MultibulkCountEnd
<1>11. multibulk_reply' = multibulk_reply /\ multibulk_count' = multibulk_count
  BY <1>0, <1>10, QuietFacts
<1>12. Opened(ats)'
  BY <1>0, <1>1, <1>3, <1>11, OpenStays
<1>13. ats \in [0 .. Len(multibulk_reply'.children) -> 1 .. p' + 1]
  BY <1>12 DEF Opened
<1>14. BulkText(ats[Len(multibulk_reply.children)])'
  BY <1>5, <1>9, <1>11 DEF BulkText, CountText, Header
<1>15. OpenText'
  BY <1>9, <1>11, <1>12, <1>13, <1>14 DEF OpenText
<1> QED
  BY <1>11, <1>15 DEF ReadSoFar

LEMMA QuietStep ==
  ASSUME Inv, InStream, Grammar!CountsFit(stream), ReadSoFar, Quiet
  PROVE  ReadSoFar'
BY SingleStep, OpenStep DEF ReadSoFar

-----------------------------------------------------------------------------
(***************************************************************************)
(* What is returned is what the grammar finds, and the next reply begins   *)
(* where it says.                                                          *)
(***************************************************************************)
LEMMA Returns ==
  ASSUME result = "NONE", NEW r, Report(r), stream' = stream, len' = len, p \in Nat,
         Grammar!ReplyAt(Prefix(len), start + 1) = Grammar!Found(r, p + 2)
  PROVE  Grammar!ReturnReply
<1>1. Grammar!Verdict = Grammar!Found(r, p + 2)
  BY DEF Grammar!Verdict, Prefix
<1>2. /\ Grammar!Verdict.verdict = "found" /\ Grammar!Verdict.what = r
      /\ Grammar!Verdict.next = p + 2
  BY <1>1 DEF Grammar!Found
<1>3. replies' = Append(replies, r) /\ result' = "RPR_REPLY" /\ start' + 1 = p + 2
  BY DEF Report
<1> HIDE DEF Grammar!Verdict
<1> QED
  BY <1>2, <1>3 DEF Grammar!ReturnReply

LEMMA LineEndStep ==
  ASSUME Inv, InStream, ReadSoFar, LineEnd
  PROVE  ReadSoFar' /\ Grammar!ReturnReply
<1>0. ScalarsOK /\ CountOK /\ p \in Nat /\ start \in Nat
  BY InvParts DEF ScalarsOK
<1>1. /\ Consume({2, 4, 20}, 0)
      /\ Report(Reply_new(LineTypes[cs], mark, p - 1 - mark))
      /\ multibulk_reply' = multibulk_reply
  BY DEF LineEnd, counts
<1>2. /\ p' = p + 1 /\ cs \in {2, 4, 20} /\ cs' = 0 /\ stream' = stream
      /\ len' = len /\ p < len /\ c = "LF" /\ result = "NONE"
  BY <1>0, <1>1, ConsumeFacts DEF Consume, InLoop, Accepts
<1>3. multibulk_reply = NULL
  BY <1>2 DEF ReadSoFar, OpenText
<1>4. LineText
  BY <1>2, <1>3 DEF ReadSoFar, SingleText
<1>5. Grammar!ReplyAt(Prefix(len), start + 1) =
        Grammar!Found(Reply_new(LineTypes[cs], mark, p - 1 - mark), p + 2)
  BY <1>0, <1>2, <1>4, LineFound DEF InStream, ScalarsOK
<1>6. Grammar!ReturnReply
  BY <1>0, <1>1, <1>2, <1>5, Returns
<1>7. SingleText'
  BY <1>0, <1>1, <1>2, Restarted DEF Report
<1> QED
  BY <1>1, <1>3, <1>6, <1>7 DEF ReadSoFar

LEMMA NilMultibulkStep ==
  ASSUME Inv, InStream, ReadSoFar, NilMultibulk
  PROVE  ReadSoFar' /\ Grammar!ReturnReply
<1>0. ScalarsOK /\ CountOK /\ p \in Nat /\ start \in Nat /\ len \in Nat
      /\ len <= Len(stream) /\ stream \in Seq(STRING)
  BY InvParts DEF ScalarsOK, InStream
<1>1. /\ Consume({16}, 0) /\ Report(Reply_new("MULTIBULK_NIL", 0, 0))
      /\ multibulk_reply' = multibulk_reply
  BY DEF NilMultibulk, counts
<1>2. /\ p' = p + 1 /\ cs = 16 /\ cs' = 0 /\ stream' = stream
      /\ len' = len /\ p < len /\ c = "LF" /\ result = "NONE"
  BY <1>0, <1>1, ConsumeFacts DEF Consume, InLoop, Accepts
<1>3. multibulk_reply = NULL
  BY <1>2 DEF ReadSoFar, OpenText
<1>4. stream[start + 1] = "*" /\ CountText(start + 1, 13) /\ start < p
  BY <1>2, <1>3 DEF ReadSoFar, SingleText
<1>5. Grammar!Count(Prefix(len), start + 2) = Grammar!Found(-1, p + 2)
  <2>1. Grammar!Count(Prefix(len), (start + 1) + 1) = Grammar!Found(-1, p + 2)
    <3>1. start + 1 \in Nat /\ start + 1 > 0 /\ p + 1 <= len /\ cs = 13 + 3
      BY <1>0, <1>2
    <3> QED
      BY <1>0, <1>2, <1>4, <3>1, CountFound
  <2>2. (start + 1) + 1 = start + 2
    BY <1>0
  <2> QED
    BY <2>1, <2>2
<1>6. Grammar!ReplyAt(Prefix(len), start + 1) =
        Grammar!Found(Reply_new("MULTIBULK_NIL", 0, 0), p + 2)
  <2>1. Grammar!Multibulk(Prefix(len), start + 1) =
          Grammar!Found(Reply_new("MULTIBULK_NIL", 0, 0), p + 2)
    <3>1. start + 1 \in Nat /\ (start + 1) + 1 = start + 2
      BY <1>0
    <3> QED
      BY <1>5, <3>1, MultibulkIs
  <2>2. /\ Len(Prefix(len)) = len /\ start + 1 <= len /\ start + 1 \in Nat
        /\ Prefix(len)[start + 1] = "*"
    BY <1>0, <1>2, <1>4, PrefixFacts
  <2> QED
    BY <1>0, <2>1, <2>2, ReplyAtIs
<1>7. Grammar!ReturnReply
  BY <1>0, <1>1, <1>2, <1>6, Returns
<1>8. SingleText'
  BY <1>0, <1>1, <1>2, Restarted DEF Report
<1> QED
  BY <1>1, <1>3, <1>7, <1>8 DEF ReadSoFar

\* The element that ends at p is the next one of the open multibulk reply.
LEMMA NextElement ==
  ASSUME InStream, multibulk_reply \in Multibulk, NEW ats, Opened(ats),
         BulkText(ats[Len(multibulk_reply.children)]), cs \in {8, 12},
         p < len, c = "LF", NEW r \in Simple,
         r = IF cs = 8 THEN Reply_new("BULK_NIL", 0, 0)
             ELSE Reply_new("BULK", mark, p - 1 - mark),
         multibulk_reply' = [multibulk_reply EXCEPT !.children = Append(@, r)],
         stream' = stream, start' = start, p' = p + 1
  PROVE  \E ats2 \in [0 .. Len(multibulk_reply'.children) -> 1 .. p' + 1] :
            /\ Opened(ats2)'
            /\ ats2[Len(multibulk_reply'.children)] = p' + 1
<1> DEFINE kids == multibulk_reply.children
           m == Len(kids)
<1>0. /\ p \in Nat /\ start \in Nat /\ len \in Nat /\ len <= Len(stream)
      /\ stream \in Seq(STRING) /\ Len(stream) \in Nat
  BY DEF InStream, ScalarsOK
<1>1. kids \in Seq(Simple) /\ m \in Nat
  BY DEF Multibulk
<1>2. /\ multibulk_reply'.children = Append(kids, r)
      /\ multibulk_reply'.len = multibulk_reply.len
      /\ Len(Append(kids, r)) = m + 1 /\ Append(kids, r)[m + 1] = r
      /\ \A k \in 1..m : Append(kids, r)[k] = kids[k]
  BY <1>1 DEF Multibulk
<1>3. /\ ats \in [0..m -> 1 .. p + 1] /\ start < p /\ stream[start + 1] = "*"
      /\ \A n \in 0 .. Len(stream) : ats[0] <= n + 1 =>
            Grammar!Count(Prefix(n), start + 2) =
              Grammar!Found(multibulk_reply.len, ats[0])
      /\ \A k \in 1 .. m : \A n \in 0 .. Len(stream) : ats[k] <= n + 1 =>
            Grammar!Bulk(Prefix(n), ats[k - 1]) = Grammar!Found(kids[k], ats[k])
  BY Zenon DEF Opened
<1>4. ASSUME NEW n \in 0 .. Len(stream), p + 2 <= n + 1
      PROVE  Grammar!Bulk(Prefix(n), ats[m]) = Grammar!Found(r, p + 2)
  <2>1. ats[m] \in Nat /\ ats[m] > 0 /\ n \in Nat /\ n <= Len(stream) /\ p + 1 <= n
    <3>1. ats \in [0..m -> 1 .. p + 1] /\ m \in 0..m
      BY <1>1, <1>3
    <3> HIDE DEF m
    <3>2. ats[m] \in 1 .. p + 1
      BY <3>1
    <3>3. ats[m] \in Nat /\ ats[m] > 0
      BY <1>0, <3>2
    <3> QED
      BY <1>0, <1>4, <3>3
  <2> QED
    BY <2>1, BulkFound
<1> HIDE DEF kids, m
<1> PICK ats2 : ats2 = [k \in 0 .. m + 1 |-> IF k <= m THEN ats[k] ELSE p + 2]
  OBVIOUS
<1>5. /\ ats2 \in [0 .. m + 1 -> 1 .. p' + 1] /\ ats2[m + 1] = p' + 1
      /\ ats2[m + 1] = p + 2 /\ ats2[m] = ats[m] /\ ats2[0] = ats[0]
      /\ \A k \in 1..m : ats2[k] = ats[k] /\ ats2[k - 1] = ats[k - 1]
  <2>1. \A k \in 0..m : k \in 0 .. m + 1 /\ ats2[k] = ats[k]
    BY <1>1
  <2>2. m + 1 \in 0 .. m + 1 /\ ats2[m + 1] = p + 2 /\ p' + 1 = p + 2
    BY <1>0, <1>1
  <2>3. ASSUME NEW k \in 0 .. m + 1 PROVE ats2[k] \in 1 .. p' + 1
    BY <1>0, <1>1, <1>3, <2>1, <2>2
  <2>4. 0 \in 0..m /\ m \in 0..m /\ \A k \in 1..m : k \in 0..m /\ k - 1 \in 0..m
    BY <1>1
  <2> QED
    BY <2>1, <2>2, <2>3, <2>4
<1>6. ASSUME NEW k \in 1 .. m + 1, NEW n \in 0 .. Len(stream), ats2[k] <= n + 1
      PROVE  Grammar!Bulk(Prefix(n), ats2[k - 1])
               = Grammar!Found(Append(kids, r)[k], ats2[k])
  <2>1. CASE k \in 1..m
    <3>1. /\ ats2[k] = ats[k] /\ ats2[k - 1] = ats[k - 1]
          /\ Append(kids, r)[k] = kids[k]
      BY <1>2, <1>5, <2>1
    <3> QED
      BY <1>3, <1>6, <2>1, <3>1
  <2>2. CASE k = m + 1
    <3>1. k - 1 = m
      BY <1>1, <2>2
    <3> QED
      BY <1>2, <1>4, <1>5, <1>6, <2>2, <3>1
  <2>3. k \in 1..m \/ k = m + 1
    BY <1>1
  <2> QED
    BY <2>1, <2>2, <2>3
<1>7. /\ start' < p' /\ Len(multibulk_reply'.children) = m + 1
      /\ stream'[start' + 1] = "*"
  BY <1>0, <1>2, <1>3
<1>8. Opened(ats2)'
  <2>1. \A k \in 1 .. m + 1 : \A n \in 0 .. Len(stream) : ats2[k] <= n + 1 =>
          Grammar!Bulk(Prefix(n), ats2[k - 1])
            = Grammar!Found(multibulk_reply'.children[k], ats2[k])
    <3>1. multibulk_reply'.children = Append(kids, r)
      BY <1>2
    <3> QED
      BY <1>6, <3>1, Zenon
  <2>2. \A n \in 0 .. Len(stream) : ats2[0] <= n + 1 =>
          Grammar!Count(Prefix(n), start + 2) =
            Grammar!Found(multibulk_reply'.len, ats2[0])
    BY <1>2, <1>3, <1>5
  <2> QED
    BY <1>5, <1>7, <2>1, <2>2 DEF Opened, Prefix
<1> QED
  BY <1>5, <1>7, <1>8

LEMMA BulkEndStep ==
  ASSUME Inv, InStream, ReadSoFar, NEW S \in SUBSET {8, 12}, Consume(S, 0),
         NEW r \in Simple, Bulk(r),
         r = IF cs = 8 THEN Reply_new("BULK_NIL", 0, 0)
             ELSE Reply_new("BULK", mark, p - 1 - mark)
  PROVE  ReadSoFar' /\ (Grammar!ReturnReply \/ Continue)
<1>0. ScalarsOK /\ CountOK /\ p \in Nat /\ start \in Nat /\ len \in Nat
      /\ len <= Len(stream) /\ stream \in Seq(STRING) /\ multibulk_count \in Int
  BY InvParts DEF ScalarsOK, InStream, CInt
<1>1. /\ p' = p + 1 /\ cs \in {8, 12} /\ cs' = 0 /\ stream' = stream
      /\ len' = len /\ p < len /\ c = "LF" /\ result = "NONE"
  BY <1>0, ConsumeFacts DEF Consume, InLoop, Accepts
<1>2. CASE multibulk_reply = NULL
  <2>1. multibulk_count = 0 /\ BulkText(start + 1) /\ start < p
    BY <1>0, <1>1, <1>2 DEF CountOK, ReadSoFar, SingleText
  <2>2. Report(r) /\ multibulk_reply' = NULL
    BY <1>2, <2>1 DEF Bulk, counts
  <2>3. Grammar!Bulk(Prefix(len), start + 1) = Grammar!Found(r, p + 2)
    BY <1>0, <1>1, <2>1, BulkFound
  <2>4. /\ Len(Prefix(len)) = len /\ start + 1 <= len /\ start + 1 \in Nat
        /\ Prefix(len)[start + 1] = "$"
    BY <1>0, <1>1, <2>1, PrefixFacts DEF BulkText
  <2>5. Grammar!ReplyAt(Prefix(len), start + 1) = Grammar!Found(r, p + 2)
    BY <1>0, <2>3, <2>4, ReplyAtIs
  <2>6. Grammar!ReturnReply
    BY <1>0, <1>1, <2>2, <2>5, Returns
  <2>7. SingleText'
    BY <1>0, <1>1, <2>2, Restarted DEF Report
  <2> QED
    BY <2>2, <2>6, <2>7 DEF ReadSoFar
<1>3. CASE multibulk_reply # NULL
  <2> DEFINE whole == [multibulk_reply EXCEPT !.children = Append(@, r)]
  <2>1. OpenText
    BY <1>3 DEF ReadSoFar
  <2>2. /\ multibulk_reply \in Multibulk /\ multibulk_count > 0
        /\ Len(multibulk_reply.children) + multibulk_count = multibulk_reply.len
    BY <1>1, <1>3, <2>1, OpenCounts
  <2>3. /\ multibulk_count' = multibulk_count - 1
        /\ \/ multibulk_count = 1 /\ Report(whole) /\ multibulk_reply' = NULL
           \/ multibulk_count # 1 /\ Continue /\ multibulk_reply' = whole
    BY <1>0, <2>2 DEF Bulk
  <2>4. PICK ats \in [0 .. Len(multibulk_reply.children) -> 1 .. p + 1] :
          Opened(ats) /\ BulkText(ats[Len(multibulk_reply.children)])
    BY <1>1, <2>1 DEF OpenText
  <2>5. CASE multibulk_count = 1 /\ Report(whole) /\ multibulk_reply' = NULL
    <3>1. ats[Len(multibulk_reply.children)] \in Nat
          /\ ats[Len(multibulk_reply.children)] > 0
      BY <1>0, <2>2, <2>4 DEF Multibulk
    <3>2. Grammar!Bulk(Prefix(len), ats[Len(multibulk_reply.children)])
            = Grammar!Found(r, p + 2)
      BY <1>0, <1>1, <2>4, <3>1, BulkFound
    <3>3. Grammar!ReplyAt(Prefix(len), start + 1) = Grammar!Found(whole, p + 2)
      <4>1. p <= len /\ multibulk_count = 1
        BY <1>0, <1>1, <2>5
      <4> DEFINE v == Grammar!Bulk(Prefix(len), ats[Len(multibulk_reply.children)])
      <4>2. \A r2 \in Simple : \A x :
              v = Grammar!Found(r2, x) /\ multibulk_count = 1 =>
                Grammar!ReplyAt(Prefix(len), start + 1) = Grammar!Found(
                  [multibulk_reply EXCEPT !.children = Append(@, r2)], x)
        BY <1>0, <2>2, <2>4, <4>1, OpenVerdict
      <4> QED
        BY <3>2, <4>1, <4>2
    <3>4. Grammar!ReturnReply
      BY <1>0, <1>1, <2>5, <3>3, Returns
    <3>5. SingleText'
      BY <1>0, <1>1, <2>5, Restarted DEF Report
    <3> QED
      BY <2>5, <3>4, <3>5 DEF ReadSoFar
  <2>6. CASE multibulk_count # 1 /\ Continue /\ multibulk_reply' = whole
    <3>1. start' = start
      BY <2>6 DEF Continue
    <3>2. PICK ats2 \in [0 .. Len(multibulk_reply'.children) -> 1 .. p' + 1] :
            /\ Opened(ats2)'
            /\ ats2[Len(multibulk_reply'.children)] = p' + 1
      BY <1>1, <2>2, <2>4, <2>6, <3>1, NextElement
    <3>3. BulkText(ats2[Len(multibulk_reply.children)])'
      BY <1>1, <3>2 DEF BulkText, CountText
    <3>4. multibulk_count' >= 0 /\ cs' # 18 /\ cs' \in {0} \cup (5..12)
      BY <1>0, <1>1, <2>2, <2>3
    <3>5. OpenText'
      BY <3>2, <3>3, <3>4 DEF OpenText
    <3>6. multibulk_reply'.type = "MULTIBULK"
      BY <2>2, <2>6 DEF Multibulk
    <3> QED
      BY <2>6, <3>5, <3>6, NullIsNoMultibulk DEF ReadSoFar
  <2> QED
    BY <2>3, <2>5, <2>6
<1> QED
  BY <1>2, <1>3

LEMMA MultibulkStartStep ==
  ASSUME Inv, InStream, ReadSoFar, MultibulkStart
  PROVE  ReadSoFar' /\ (Grammar!ReturnReply \/ Continue)
<1>0. ScalarsOK /\ CountOK /\ p \in Nat /\ start \in Nat /\ len \in Nat
      /\ len <= Len(stream) /\ stream \in Seq(STRING) /\ Len(stream) \in Nat
  BY InvParts DEF ScalarsOK, InStream
<1>1. Consume({18}, 0) /\ multibulk_count' = multibulk_count
  BY DEF MultibulkStart
<1>2. /\ p' = p + 1 /\ cs = 18 /\ cs' = 0 /\ stream' = stream
      /\ len' = len /\ p < len /\ c = "LF" /\ result = "NONE"
  BY <1>0, <1>1, ConsumeFacts DEF Consume, InLoop, Accepts
<1>3. multibulk_reply # NULL /\ OpenText
  BY <1>0, <1>2 DEF CountOK, ReadSoFar
<1>4. /\ start < p /\ stream[start + 1] = "*" /\ CountText(start + 1, 13)
      /\ multibulk_count = Grammar!Number(stream, start + 2, p - 1)
      /\ multibulk_reply.children = <<>> /\ multibulk_count >= 0
  BY <1>2, <1>3 DEF OpenText
<1>5. /\ multibulk_reply \in Multibulk /\ multibulk_count \in Nat
      /\ multibulk_reply.len = multibulk_count
      /\ multibulk_reply = SoFar(multibulk_count, <<>>)
  <2>1. /\ multibulk_reply \in Multibulk
        /\ Len(multibulk_reply.children) + multibulk_count = multibulk_reply.len
    BY <1>3, OpenCounts
  <2>2. multibulk_count \in Nat
    BY <1>0, <1>4 DEF ScalarsOK, CInt
  <2>3. multibulk_reply.len = multibulk_count
    BY <1>4, <2>1, <2>2
  <2> QED
    BY <1>4, <2>1, <2>2, <2>3 DEF Multibulk, SoFar
<1>6. ASSUME NEW n \in 0 .. Len(stream), p + 2 <= n + 1
      PROVE  Grammar!Count(Prefix(n), start + 2)
               = Grammar!Found(multibulk_count, p + 2)
  <2>1. /\ start + 1 \in Nat /\ start + 1 > 0 /\ (start + 1) + 1 = start + 2
        /\ n \in Nat /\ n <= Len(stream) /\ p + 1 <= n /\ cs = 13 + 5
    BY <1>0, <1>2, <1>6
  <2> QED
    BY <1>2, <1>4, <2>1, CountFound
<1>7. CASE multibulk_count = 0 /\ Report(multibulk_reply) /\ multibulk_reply' = NULL
  <2>1. Grammar!Count(Prefix(len), start + 2) = Grammar!Found(0, p + 2)
    BY <1>0, <1>2, <1>6, <1>7
  <2>2. Grammar!Multibulk(Prefix(len), start + 1)
          = Grammar!Elements(Prefix(len), p + 2, 0)
    <3>1. start + 1 \in Nat /\ (start + 1) + 1 = start + 2
      BY <1>0
    <3> QED
      BY <2>1, <3>1, MultibulkIs
  <2>3. Grammar!Elements(Prefix(len), p + 2, 0)
          = Grammar!Found(SoFar(0, <<>>), p + 2)
    <3>1. \A s, i : Grammar!Elements(s, i, 0) = Grammar!Found(SoFar(0, <<>>), i)
      BY NoElements, Zenon
    <3> QED
      BY <3>1, Zenon
  <2>4. /\ Len(Prefix(len)) = len /\ start + 1 <= len /\ start + 1 \in Nat
        /\ Prefix(len)[start + 1] = "*"
    <3>1. start + 1 \in 1 .. len
      BY <1>0, <1>2, <1>4
    <3> QED
      BY <1>0, <1>4, <3>1, PrefixFacts
  <2>5. Grammar!ReplyAt(Prefix(len), start + 1) = Grammar!Found(multibulk_reply, p + 2)
    BY <1>0, <1>5, <1>7, <2>2, <2>3, <2>4, ReplyAtIs
  <2>6. Grammar!ReturnReply
    BY <1>0, <1>2, <1>7, <2>5, Returns
  <2>7. SingleText'
    BY <1>0, <1>2, <1>7, Restarted DEF Report
  <2> QED
    BY <1>7, <2>6, <2>7 DEF ReadSoFar
<1>8. CASE multibulk_count # 0 /\ Continue /\ multibulk_reply' = multibulk_reply
  <2>1. PICK ats : ats = [k \in 0..0 |-> p + 2]
    OBVIOUS
  <2>2. ats[0] = p + 2 /\ ats \in [0..0 -> 1 .. p' + 1] /\ p' + 1 = p + 2
    BY <1>0, <1>2, <2>1
  <2>3. /\ multibulk_reply'.children = <<>> /\ Len(multibulk_reply'.children) = 0
        /\ multibulk_reply'.len = multibulk_count /\ start' = start
    BY <1>4, <1>5, <1>8 DEF Continue
  <2>4. Opened(ats)'
    <3>1. start' < p' /\ 1..0 = {}
      BY <1>0, <1>2, <1>4, <2>3
    <3>2. \A n \in 0 .. Len(stream) : ats[0] <= n + 1 =>
            Grammar!Count(Prefix(n), start + 2)
              = Grammar!Found(multibulk_reply'.len, ats[0])
      BY <1>6, <2>2, <2>3
    <3> QED
      BY <1>2, <1>4, <2>2, <2>3, <3>1, <3>2 DEF Opened, Prefix
  <2>5. BulkText(ats[Len(multibulk_reply.children)])'
    BY <1>2, <2>2, <2>3 DEF BulkText, CountText
  <2>6. OpenText'
    BY <1>1, <1>2, <1>4, <2>2, <2>3, <2>4, <2>5 DEF OpenText
  <2> QED
    BY <1>3, <1>8, <2>6 DEF ReadSoFar
<1> QED
  BY <1>7, <1>8 DEF MultibulkStart

\* More is asked for, and bytes are refused, exactly when the grammar says so.
LEMMA StuckStep ==
  ASSUME Inv, InStream, ReadSoFar
  PROVE  /\ p = len => Grammar!ReplyAt(Prefix(len), start + 1) = Grammar!More
         /\ p < len /\ ~Accepts =>
              Grammar!ReplyAt(Prefix(len), start + 1) = Grammar!Error
<1>0. /\ ScalarsOK /\ CountOK /\ p \in Nat /\ start \in Nat /\ len \in Nat
      /\ len <= Len(stream) /\ stream \in Seq(STRING) /\ p <= len
      /\ multibulk_count \in Int
  BY InvParts DEF ScalarsOK, InStream, CInt
<1>1. /\ Len(Prefix(len)) = len
      /\ \A k \in 1..len : Prefix(len)[k] = stream[k]
  BY <1>0, PrefixFacts
<1>2. start + 1 \in Nat /\ start + 1 > 0 /\ (start + 1) + 1 = start + 2
  BY <1>0
<1>3. CASE cs \in 13..18
  <2>1. stream[start + 1] = "*" /\ CountText(start + 1, 13) /\ start < p
    BY <1>0, <1>3 DEF ReadSoFar, SingleText, OpenText, CountOK
  <2>2. cs \in 13 .. 13 + 5
    BY <1>3
  <2>3. /\ p = len => Grammar!Count(Prefix(len), start + 2) = Grammar!More
        /\ p < len /\ ~Accepts =>
             Grammar!Count(Prefix(len), start + 2) = Grammar!Error
    BY <1>2, <2>1, <2>2, CountUnfinished
  <2>4. Grammar!Count(Prefix(len), start + 2) \in {Grammar!More, Grammar!Error} =>
          Grammar!Multibulk(Prefix(len), start + 1)
            = Grammar!Count(Prefix(len), start + 2)
    BY <1>2, MultibulkIs
  <2>5. Grammar!ReplyAt(Prefix(len), start + 1)
          = Grammar!Multibulk(Prefix(len), start + 1)
    <3>1. start + 1 <= len /\ Prefix(len)[start + 1] = "*"
      BY <1>0, <1>1, <2>1
    <3> QED
      BY <1>0, <1>1, <1>2, <3>1, ReplyAtIs
  <2> QED
    BY <2>3, <2>4, <2>5
<1>4. CASE cs \in {1, 2, 3, 4, 19, 20}
  <2>1. LineText
    BY <1>4 DEF ReadSoFar, SingleText, OpenText
  <2> QED
    BY <1>4, <2>1, LineUnfinished
<1>5. CASE cs \in {0} \cup (5..12) /\ multibulk_reply = NULL
  <2>1. BulkText(start + 1) /\ multibulk_count = 0
    BY <1>0, <1>5 DEF ReadSoFar, SingleText, CountOK
  <2>2. CASE cs = 0
    <3>1. p = start
      BY <1>0, <2>1, <2>2 DEF BulkText
    <3>2. p = len => start + 1 > len
      BY <1>0, <3>1
    <3>3. p < len /\ ~Accepts =>
            /\ start + 1 <= len
            /\ Prefix(len)[start + 1] \notin {"+", "-", ":", "$", "*"}
      BY <1>0, <1>1, <2>1, <2>2, <3>1 DEF Accepts, Starts, FirstState, c
    <3> QED
      BY <1>0, <1>1, <1>2, <3>2, <3>3, ReplyAtIs
  <2>3. CASE cs # 0
    <3>1. start + 1 <= len /\ Prefix(len)[start + 1] = "$"
      BY <1>0, <1>1, <2>1, <2>3 DEF BulkText
    <3>2. Grammar!ReplyAt(Prefix(len), start + 1) = Grammar!Bulk(Prefix(len), start + 1)
      BY <1>0, <1>1, <1>2, <3>1, ReplyAtIs
    <3>3. /\ p = len => Grammar!Bulk(Prefix(len), start + 1) = Grammar!More
          /\ p < len /\ ~Accepts =>
               Grammar!Bulk(Prefix(len), start + 1) = Grammar!Error
      BY <1>2, <1>5, <2>1, <2>3, BulkUnfinished
    <3> QED
      BY <3>2, <3>3
  <2> QED
    BY <2>2, <2>3
<1>6. CASE cs \in {0} \cup (5..12) /\ multibulk_reply # NULL
  <2>1. OpenText /\ cs # 18
    BY <1>6 DEF ReadSoFar
  <2>2. /\ multibulk_reply \in Multibulk /\ multibulk_count > 0
        /\ Len(multibulk_reply.children) + multibulk_count = multibulk_reply.len
    BY <1>6, <2>1, OpenCounts
  <2>3. PICK ats \in [0 .. Len(multibulk_reply.children) -> 1 .. p + 1] :
          Opened(ats) /\ BulkText(ats[Len(multibulk_reply.children)])
    BY <2>1 DEF OpenText
  <2> DEFINE q == ats[Len(multibulk_reply.children)]
             v == Grammar!Bulk(Prefix(len), q)
  <2>4. q \in Nat /\ q > 0 /\ BulkText(q)
    BY <1>0, <2>2, <2>3 DEF Multibulk
  <2>5. p < len /\ ~Accepts => (cs = 0 => c # "$")
    BY <1>0, <2>2 DEF Accepts, Starts
  <2>6. /\ p = len => v = Grammar!More
        /\ p < len /\ ~Accepts => v = Grammar!Error
    <3> HIDE DEF q
    <3> QED
      BY <1>6, <2>4, <2>5, BulkUnfinished
  <2>7. v \in {Grammar!More, Grammar!Error} =>
          Grammar!ReplyAt(Prefix(len), start + 1) = v
    BY <1>0, <2>2, <2>3, OpenVerdict
  <2> QED
    BY <2>6, <2>7
<1> QED
  BY <1>0, <1>3, <1>4, <1>5, <1>6 DEF ScalarsOK

\* What was read does not depend on what else is in the buffer.
LEMMA Standstill ==
  ASSUME UNCHANGED <<stream, p, cs, counts, mark, start>>, ReadSoFar
  PROVE  ReadSoFar'
<1>1. SingleText => SingleText'
  BY DEF SingleText, LineText, BulkText, CountText, Header, counts
<1>2. OpenText => OpenText'
  <2> SUFFICES ASSUME OpenText, cs # 18 PROVE OpenText'
    BY DEF OpenText, CountText, counts
  <2>1. PICK ats \in [0 .. Len(multibulk_reply.children) -> 1 .. p + 1] :
          Opened(ats) /\ BulkText(ats[Len(multibulk_reply.children)])
    BY DEF OpenText
  <2>2. Opened(ats)'
    BY <2>1 DEF Opened, Prefix, counts
  <2>3. BulkText(ats[Len(multibulk_reply.children)])'
    BY <2>1 DEF BulkText, CountText, Header, counts
  <2> QED
    BY <2>1, <2>2, <2>3 DEF OpenText, counts
<1> QED
  BY <1>1, <1>2 DEF ReadSoFar, counts

LEMMA ExecuteFacts ==
  ASSUME ScalarsOK, ReplyParser_execute
  PROVE  /\ result = "NONE" /\ stream' = stream /\ len' = len
         /\ result' # "NONE" \/ Continue
<1>1. CASE Quiet
  BY <1>1, QuietFacts
<1>2. CASE LineEnd
  BY <1>2, ConsumeFacts DEF LineEnd, Report
<1>3. CASE NilMultibulk
  BY <1>3, ConsumeFacts DEF NilMultibulk, Report
<1>4. CASE NilBulk
  BY <1>4, ConsumeFacts DEF NilBulk, Bulk, Report
<1>5. CASE BulkEnd
  BY <1>5, ConsumeFacts DEF BulkEnd, Bulk, Report
<1>6. CASE MultibulkStart
  BY <1>6, ConsumeFacts DEF MultibulkStart, Report
<1>7. CASE Unexpected \/ BufferEnd
  BY <1>7 DEF Unexpected, BufferEnd, InLoop
<1> QED
  BY <1>1, <1>2, <1>3, <1>4, <1>5, <1>6, <1>7 DEF ReplyParser_execute, Quiet

\* The grammar allows every turn of the parser's loop.
LEMMA ExecuteStep ==
  ASSUME Inv, InStream, Grammar!CountsFit(stream), ReadSoFar, ReplyParser_execute
  PROVE  ReadSoFar' /\ [Grammar!Next]_(Grammar!vars)
<1>0. ScalarsOK /\ p \in Nat
  BY InvParts DEF ScalarsOK
<1>1. ASSUME Continue, stream' = stream, len' = len PROVE [Grammar!Next]_(Grammar!vars)
  BY <1>1 DEF Continue, Grammar!vars
<1>2. Grammar!ReturnReply => [Grammar!Next]_(Grammar!vars)
  BY DEF Grammar!Next
<1>3. CASE Quiet
  BY <1>0, <1>1, <1>3, QuietStep, QuietFacts
<1>4. CASE LineEnd
  BY <1>2, <1>4, LineEndStep
<1>5. CASE NilMultibulk
  BY <1>2, <1>5, NilMultibulkStep
<1>6. CASE NilBulk
  <2> DEFINE r == Reply_new("BULK_NIL", 0, 0)
  <2>1. Consume({8}, 0) /\ Bulk(r)
    BY <1>6 DEF NilBulk
  <2>2. cs = 8 /\ stream' = stream /\ len' = len
    BY <1>0, <2>1, ConsumeFacts
  <2>3. r \in Simple
    BY DEF Simple, SimpleTypes, Reply_new
  <2>4. ReadSoFar' /\ (Grammar!ReturnReply \/ Continue)
    <3> HIDE DEF r
    <3>1. {8} \in SUBSET {8, 12}
      OBVIOUS
    <3>2. r = IF cs = 8 THEN Reply_new("BULK_NIL", 0, 0)
              ELSE Reply_new("BULK", mark, p - 1 - mark)
      BY <2>2 DEF r
    <3> QED
      BY <2>1, <2>3, <3>1, <3>2, BulkEndStep
  <2> QED
    BY <1>1, <1>2, <2>2, <2>4
<1>7. CASE BulkEnd
  <2> DEFINE r == Reply_new("BULK", mark, p - 1 - mark)
  <2>1. Consume({12}, 0) /\ Bulk(r)
    BY <1>7 DEF BulkEnd
  <2>2. cs = 12 /\ stream' = stream /\ len' = len
    BY <1>0, <2>1, ConsumeFacts
  <2>3. r \in Simple
    BY <1>0, <2>2 DEF Simple, SimpleTypes, Reply_new, ScalarsOK, MarkInv
  <2>4. ReadSoFar' /\ (Grammar!ReturnReply \/ Continue)
    <3> HIDE DEF r
    <3>1. {12} \in SUBSET {8, 12}
      OBVIOUS
    <3>2. r = IF cs = 8 THEN Reply_new("BULK_NIL", 0, 0)
              ELSE Reply_new("BULK", mark, p - 1 - mark)
      BY <2>2 DEF r
    <3> QED
      BY <2>1, <2>3, <3>1, <3>2, BulkEndStep
  <2> QED
    BY <1>1, <1>2, <2>2, <2>4
<1>8. CASE MultibulkStart
  <2>1. stream' = stream /\ len' = len
    BY <1>0, <1>8, ConsumeFacts DEF MultibulkStart
  <2> QED
    BY <1>1, <1>2, <1>8, <2>1, MultibulkStartStep
<1>9. CASE Unexpected \/ BufferEnd
  <2>1. /\ result = "NONE" /\ UNCHANGED <<stream, len, p, cs, counts, mark, replies, start>>
        /\ \/ p < len /\ ~Accepts /\ result' = "RPR_ERROR"
           \/ p = len /\ result' = "RPR_MORE"
    BY <1>0, <1>9 DEF Unexpected, BufferEnd, InLoop, ScalarsOK
  <2>2. \/ Grammar!Verdict = Grammar!Error /\ result' = "RPR_ERROR"
        \/ Grammar!Verdict = Grammar!More /\ result' = "RPR_MORE"
    BY <2>1, StuckStep DEF Grammar!Verdict, Prefix
  <2> HIDE DEF Grammar!Verdict
  <2>3. Grammar!RefuseBytes \/ Grammar!AskForMore
    BY <2>1, <2>2 DEF Grammar!RefuseBytes, Grammar!AskForMore
  <2>4. ReadSoFar'
    BY <2>1, Standstill
  <2> QED
    BY <2>3, <2>4 DEF Grammar!Next
<1> QED
  BY <1>3, <1>4, <1>5, <1>6, <1>7, <1>8, <1>9 DEF ReplyParser_execute, Quiet

LEMMA InitGrammar == Init => GrammarInv /\ Grammar!Init
<1> SUFFICES ASSUME Init PROVE GrammarInv /\ Grammar!Init
  OBVIOUS
<1>1. len <= Len(stream)
  BY StreamsAssumption DEF Init
<1>2. SingleText
  BY DEF Init, SingleText, BulkText, CountText
<1>3. GrammarInv
  BY <1>1, <1>2 DEF GrammarInv, ReadSoFar, Init
<1>4. Grammar!Init
  BY DEF Init, Grammar!Init
<1> QED
  BY <1>3, <1>4

LEMMA NextGrammar ==
  ASSUME Inv, GrammarInv, [Next]_vars
  PROVE  GrammarInv' /\ [Grammar!Next]_(Grammar!vars)
<1>0. /\ ScalarsOK /\ p \in Nat /\ start \in Nat /\ len \in Nat
      /\ stream \in Seq(STRING) /\ Len(stream) \in Nat /\ len <= Len(stream)
      /\ InStream
  BY InvParts DEF ScalarsOK, InStream, GrammarInv
<1>1. CASE ReplyParser_execute
  <2>1. /\ result = "NONE" /\ stream' = stream /\ len' = len
        /\ result' # "NONE" \/ Continue
    BY <1>0, <1>1, ExecuteFacts
  <2>2. CASE Grammar!CountsFit(stream)
    <3>1. ReadSoFar
      BY <2>2 DEF GrammarInv
    <3>2. ReadSoFar' /\ [Grammar!Next]_(Grammar!vars)
      BY <1>0, <1>1, <2>2, <3>1, ExecuteStep
    <3> QED
      BY <1>0, <2>1, <3>2 DEF GrammarInv
  <2>3. CASE ~Grammar!CountsFit(stream)
    <3>1. GrammarInv'
      BY <1>0, <2>1, <2>3 DEF GrammarInv, Grammar!CountsFit
    <3>2. Grammar!Senseless \/ UNCHANGED Grammar!vars
      BY <2>1, <2>3 DEF Grammar!Senseless, Continue, Grammar!vars
    <3> QED
      BY <3>1, <3>2 DEF Grammar!Next
  <2> QED
    BY <2>2, <2>3
<1>2. CASE NextReply \/ (\E k \in 1..Len(stream) : Recv(k)) \/ UNCHANGED vars
  <2>1. /\ UNCHANGED <<stream, p, cs, counts, mark, replies, start>>
        /\ len' \in len .. Len(stream)
        /\ \/ result \in {"RPR_MORE", "RPR_REPLY"} /\ result' = "NONE"
           \/ len' = len /\ result' = result
    BY <1>0, <1>2 DEF NextReply, Recv, vars
  <2>2. ReadSoFar => ReadSoFar'
    BY <2>1, Standstill
  <2>3. GrammarInv'
    BY <1>0, <2>1, <2>2 DEF GrammarInv, Grammar!CountsFit
  <2>4. Grammar!Call \/ UNCHANGED Grammar!vars
    BY <2>1 DEF Grammar!Call, Grammar!vars
  <2> QED
    BY <2>3, <2>4 DEF Grammar!Next
<1>3. ASSUME NEW s \in Restarts, ReplyParser_reset(s)
      PROVE  GrammarInv' /\ [Grammar!Next]_(Grammar!vars)
  <2>1. stream' \in Seq(STRING) /\ len' = 0
    BY <1>3, StreamsAssumption DEF ReplyParser_reset
  <2>2. len' <= Len(stream')
    BY <2>1
  <2>3. SingleText' /\ multibulk_reply' = NULL
    BY <1>3, Restarted DEF ReplyParser_reset
  <2>4. GrammarInv'
    BY <2>2, <2>3 DEF GrammarInv, ReadSoFar
  <2>5. Grammar!Reset
    BY <1>3 DEF ReplyParser_reset, Grammar!Reset
  <2> QED
    BY <2>4, <2>5 DEF Grammar!Next
<1> QED
  BY <1>1, <1>2, <1>3 DEF Next

\* In every state, what was read since the last reply is a beginning of what the
\* grammar looks for, and the elements of an open multibulk reply are the ones it
\* finds: nothing of it depends on where reads cut the stream.
THEOREM GrammarInvariance == Spec => []GrammarInv
<1>1. Init => Inv /\ GrammarInv
  BY InitInv, InitGrammar
<1>2. Inv /\ GrammarInv /\ [Next]_vars => Inv' /\ GrammarInv'
  BY NextInv, NextGrammar
<1> QED
  BY <1>1, <1>2, PTL DEF Spec

\* What ReplyParser_execute returns is what the grammar finds, call by call: the
\* replies of the stream in their order and with their very texts, RPR_MORE only
\* before the end of one and RPR_ERROR only where none can go on, however the
\* reads cut the stream and wherever the parser stood when it was reset.  The
\* streams whose counts no int holds are excluded by the grammar itself.
THEOREM ParserReadsGrammar == Spec => ReadsGrammar
<1>1. Init => Inv /\ GrammarInv /\ Grammar!Init
  BY InitInv, InitGrammar
<1>2. Inv /\ GrammarInv /\ [Next]_vars => Inv' /\ GrammarInv'
  BY NextInv, NextGrammar
<1>3. Inv /\ GrammarInv /\ [Next]_vars => [Grammar!Next]_(Grammar!vars)
  BY NextGrammar
<1> QED
  BY <1>1, <1>2, <1>3, PTL DEF Spec, ReadsGrammar, Grammar!Spec
=============================================================================
