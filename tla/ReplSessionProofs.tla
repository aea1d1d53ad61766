-------------------------- MODULE ReplSessionProofs -------------------------
(***************************************************************************)
(* What HttpClient and ReplSession promise, for every set of status codes  *)
(* and framings, and any number of posts and faults.                       *)
(***************************************************************************)
EXTENDS ReplSession, SequenceTheorems, TLAPS

-----------------------------------------------------------------------------
(***************************************************************************)
(* Sequences that are read from the front and written at the back.         *)
(***************************************************************************)

\* The part of s between what was read and what was written is empty, or its
\* head is the next element to be read.
LEMMA CutHead ==
    ASSUME NEW S, NEW s \in Seq(S), NEW i \in 0 .. Len(s), NEW j \in i .. Len(s)
    PROVE  /\ SubSeq(s, i + 1, j) \in Seq(S)
           /\ Len(SubSeq(s, i + 1, j)) = j - i
           /\ SubSeq(s, i + 1, j) = <<>> <=> i = j
           /\ i < j => /\ Head(SubSeq(s, i + 1, j)) = s[i + 1]
                       /\ Tail(SubSeq(s, i + 1, j)) = SubSeq(s, i + 2, j)
<1>0. i \in Nat /\ j \in Nat /\ Len(s) \in Nat /\ i <= j /\ j <= Len(s)
  BY LenProperties
<1>1. \A k \in i + 1 .. j : s[k] \in S
  BY <1>0, ElementOfSeq
<1>2. /\ SubSeq(s, i + 1, j) \in Seq(S)
      /\ Len(SubSeq(s, i + 1, j)) = IF i + 1 <= j THEN j - (i + 1) + 1 ELSE 0
  BY <1>0, <1>1, SubSeqProperties
<1>3. Len(SubSeq(s, i + 1, j)) = j - i
  BY <1>0, <1>2
<1>4. SubSeq(s, i + 1, j) = <<>> <=> i = j
  BY <1>0, <1>2, <1>3, EmptySeq
<1>5. ASSUME i < j PROVE /\ Head(SubSeq(s, i + 1, j)) = s[i + 1]
                         /\ Tail(SubSeq(s, i + 1, j)) = SubSeq(s, i + 2, j)
  <2>1. i + 1 \in 1 .. Len(s) /\ j \in i + 1 .. Len(s) /\ (i + 1) + 1 = i + 2
    BY <1>0, <1>5
  <2>2. QED
    BY <2>1, HeadTailOfSubSeq
<1>6. QED
  BY <1>2, <1>3, <1>4, <1>5

\* What is written next is appended to what has not been read.
LEMMA CutAppend ==
    ASSUME NEW S, NEW s \in Seq(S), NEW i \in 0 .. Len(s), NEW j \in i .. Len(s), j < Len(s)
    PROVE  Append(SubSeq(s, i + 1, j), s[j + 1]) = SubSeq(s, i + 1, j + 1)
<1>0. i \in Nat /\ j \in Nat /\ Len(s) \in Nat /\ i <= j
  BY LenProperties
<1>1. /\ i + 1 \in 1 .. Len(s) + 1 /\ j \in (i + 1) - 1 .. Len(s) /\ j + 1 \in j .. Len(s)
      /\ j + 1 \in 0 .. Len(s) /\ j + 1 \in j + 1 .. Len(s) /\ j + 1 \in 1 .. Len(s)
  BY <1>0
<1>2. SubSeq(s, i + 1, j) \o SubSeq(s, j + 1, j + 1) = SubSeq(s, i + 1, j + 1)
  BY <1>1, ConcatAdjacentSubSeq
<1>3. /\ SubSeq(s, j + 1, j + 1) \in Seq(S) /\ Len(SubSeq(s, j + 1, j + 1)) = 1
      /\ Head(SubSeq(s, j + 1, j + 1)) = s[j + 1]
  <2>1. j \in 0 .. Len(s) /\ (j + 1) - j = 1
    BY <1>0
  <2>2. QED
    BY <1>0, <1>1, <2>1, CutHead
<1>4. SubSeq(s, j + 1, j + 1) = <<s[j + 1]>>
  <2>1. s[j + 1] \in S
    BY <1>1, ElementOfSeq
  <2>2. <<s[j + 1]>> \in Seq(S) /\ Len(<<s[j + 1]>>) = 1 /\ <<s[j + 1]>>[1] = s[j + 1]
    BY <2>1
  <2>3. SubSeq(s, j + 1, j + 1)[1] = s[j + 1]
    <3>1. \A k \in j + 1 .. j + 1 : s[k] \in S
      BY <2>1
    <3>2. 1 \in 1 .. (j + 1) - (j + 1) + 1 /\ j + 1 \in Int /\ (j + 1) + 1 - 1 = j + 1
      BY <1>0
    <3>3. \A k \in 1 .. (j + 1) - (j + 1) + 1 : SubSeq(s, j + 1, j + 1)[k] = s[(j + 1) + k - 1]
      BY <3>1, <3>2, SubSeqProperties
    <3>4. QED
      BY <3>2, <3>3
  <2>4. \A k \in 1 .. 1 : SubSeq(s, j + 1, j + 1)[k] = <<s[j + 1]>>[k]
    BY <2>2, <2>3
  <2>5. QED
    BY <1>3, <2>2, <2>4, SeqEqual
<1>5. SubSeq(s, i + 1, j) \in Seq(S)
  BY CutHead
<1>6. s[j + 1] \in S
  BY <1>1, ElementOfSeq
<1>7. QED
  BY <1>2, <1>4, <1>5, <1>6, AppendIsConcat

-----------------------------------------------------------------------------
(***************************************************************************)
(* Answers.                                                                *)
(***************************************************************************)
Pieces(n, c, f) ==
    {StatusLine(n, c), Headers(n, f), Data(n, c, 1), Data(n, c, 2), LastChunk, CloseItself}

\* The pieces of an answer, in their order.
LEMMA AnswerShape ==
    ASSUME NEW n, NEW c, NEW f \in {"length", "chunked", "close"}
    PROVE  LET A == Answer(n, c, f) IN
           /\ A \in Seq(Pieces(n, c, f))
           /\ Len(A) = IF f = "length" THEN 4 ELSE 5
           /\ A[1] = StatusLine(n, c) /\ A[2] = Headers(n, f)
           /\ A[3] = Data(n, c, 1) /\ A[4] = Data(n, c, 2)
           /\ f = "chunked" => A[5] = LastChunk
           /\ f = "close" => A[5] = CloseItself
<1> DEFINE S == Pieces(n, c, f)
           P == <<StatusLine(n, c), Headers(n, f)>>
           E == CASE f = "length"  -> <<>>
                  [] f = "chunked" -> <<LastChunk>>
                  [] f = "close"   -> <<CloseItself>>
<1>1. P \in Seq(S) /\ Len(P) = 2 /\ P[1] = StatusLine(n, c) /\ P[2] = Headers(n, f)
  BY DEF Pieces
<1>2. /\ Body(n, c) \in Seq(S) /\ Len(Body(n, c)) = 2
      /\ Body(n, c)[1] = Data(n, c, 1) /\ Body(n, c)[2] = Data(n, c, 2)
  BY DEF Body, Pieces
<1>3. /\ E \in Seq(S) /\ Len(E) = IF f = "length" THEN 0 ELSE 1
      /\ f = "chunked" => E[1] = LastChunk
      /\ f = "close" => E[1] = CloseItself
  <2>1. CASE f = "length"
    BY <2>1
  <2>2. CASE f = "chunked"
    BY <2>2 DEF Pieces
  <2>3. CASE f = "close"
    BY <2>3 DEF Pieces
  <2>4. QED
    BY <2>1, <2>2, <2>3
<1>4. Answer(n, c, f) = (P \o Body(n, c)) \o E
  BY DEF Answer
<1> HIDE DEF S, P, E
<1>5. /\ P \o Body(n, c) \in Seq(S) /\ Len(P \o Body(n, c)) = 4
      /\ \A i \in 1 .. 4 :
            (P \o Body(n, c))[i] = IF i <= 2 THEN P[i] ELSE Body(n, c)[i - 2]
  <2>1. /\ P \o Body(n, c) \in Seq(S) /\ Len(P \o Body(n, c)) = Len(P) + Len(Body(n, c))
        /\ \A i \in 1 .. Len(P) + Len(Body(n, c)) :
              (P \o Body(n, c))[i] = IF i <= Len(P) THEN P[i] ELSE Body(n, c)[i - Len(P)]
    BY <1>1, <1>2, ConcatProperties
  <2>2. Len(P) = 2 /\ Len(Body(n, c)) = 2
    BY <1>1, <1>2
  <2>3. QED
    BY <2>1, <2>2
<1>6. /\ Answer(n, c, f) \in Seq(S) /\ Len(Answer(n, c, f)) = 4 + Len(E)
      /\ \A i \in 1 .. 4 + Len(E) :
            Answer(n, c, f)[i] = IF i <= 4 THEN (P \o Body(n, c))[i] ELSE E[i - 4]
  <2>1. Len(P \o Body(n, c)) = 4
    BY <1>5
  <2>2. /\ (P \o Body(n, c)) \o E \in Seq(S)
        /\ Len((P \o Body(n, c)) \o E) = Len(P \o Body(n, c)) + Len(E)
        /\ \A i \in 1 .. Len(P \o Body(n, c)) + Len(E) :
              ((P \o Body(n, c)) \o E)[i] = IF i <= Len(P \o Body(n, c)) THEN (P \o Body(n, c))[i]
                                            ELSE E[i - Len(P \o Body(n, c))]
    <3>1. E \in Seq(S) /\ P \o Body(n, c) \in Seq(S)
      BY <1>3, <1>5
    <3>2. QED
      BY <3>1, ConcatProperties
  <2>3. QED
    BY <2>1, <2>2, <1>4
<1>7. /\ (P \o Body(n, c))[1] = P[1] /\ (P \o Body(n, c))[2] = P[2]
      /\ (P \o Body(n, c))[3] = Body(n, c)[1] /\ (P \o Body(n, c))[4] = Body(n, c)[2]
  BY <1>5
<1>8. /\ \A i \in {1, 2, 3, 4} : Answer(n, c, f)[i] = (P \o Body(n, c))[i]
      /\ f # "length" => Answer(n, c, f)[5] = E[1]
  <2>1. Len(E) \in {0, 1} /\ (f # "length" => Len(E) = 1)
    BY <1>3
  <2>2. ASSUME NEW i \in {1, 2, 3, 4} PROVE Answer(n, c, f)[i] = (P \o Body(n, c))[i]
    <3>1. i \in 1 .. 4 + Len(E) /\ i <= 4
      BY <2>1
    <3>2. QED
      BY <3>1, <1>6
  <2>3. ASSUME f # "length" PROVE Answer(n, c, f)[5] = E[1]
    <3>1. 5 \in 1 .. 4 + Len(E) /\ ~(5 <= 4) /\ 5 - 4 = 1
      BY <2>1, <2>3
    <3>2. QED
      BY <3>1, <1>6
  <2>4. QED
    BY <2>2, <2>3
<1>9. QED
  <2>1. /\ \A i \in {1, 2, 3, 4} : Answer(n, c, f)[i] = (P \o Body(n, c))[i]
        /\ Answer(n, c, f) \in Seq(Pieces(n, c, f))
    BY <1>6, <1>8 DEF S
  <2>2. Len(Answer(n, c, f)) = IF f = "length" THEN 4 ELSE 5
    BY <1>3, <1>6
  <2>3. /\ f = "chunked" => Answer(n, c, f)[5] = LastChunk
        /\ f = "close" => Answer(n, c, f)[5] = CloseItself
    BY <1>3, <1>8
  <2>4. QED
    BY <2>1, <2>2, <2>3, <1>1, <1>2, <1>7

\* No piece is taken for another of another kind.
LEMMA PiecesDiffer ==
    ASSUME NEW n, NEW c, NEW f, NEW k
    PROVE  /\ StatusLine(n, c).part = "status" /\ StatusLine(n, c).code = c
           /\ Headers(n, f).part = "headers" /\ Headers(n, f).framing = f
           /\ Data(n, c, k).part = "data"
           /\ LastChunk.part = "last" /\ CloseItself.part = "close"
BY DEF StatusLine, Headers, Data, LastChunk, CloseItself

\* The third and fourth piece of an answer are its body.
LEMMA BodyOfAnswer ==
    ASSUME NEW n, NEW c, NEW f \in {"length", "chunked", "close"}, NEW k \in 0 .. 2
    PROVE  SubSeq(Answer(n, c, f), 3, 2 + k) = SubSeq(Body(n, c), 1, k)
<1> DEFINE A == Answer(n, c, f)
           B == Body(n, c)
           S == Pieces(n, c, f)
<1>1. A \in Seq(S) /\ Len(A) \in {4, 5} /\ A[3] = Data(n, c, 1) /\ A[4] = Data(n, c, 2)
  BY AnswerShape
<1>2. B \in Seq(S) /\ Len(B) = 2 /\ B[1] = Data(n, c, 1) /\ B[2] = Data(n, c, 2)
  BY DEF Body, Pieces
<1>3. /\ SubSeq(A, 3, 2 + k) \in Seq(S) /\ Len(SubSeq(A, 3, 2 + k)) = k
      /\ \A i \in 1 .. k : SubSeq(A, 3, 2 + k)[i] = A[i + 2]
  <2>1. \A i \in 3 .. 2 + k : A[i] \in S
    BY <1>1, ElementOfSeq
  <2>2. 3 \in Int /\ 2 + k \in Int /\ (2 + k) - 3 + 1 = k /\ (3 <= 2 + k <=> k # 0)
    OBVIOUS
  <2>3. \A i \in 1 .. k : 3 + i - 1 = i + 2
    OBVIOUS
  <2>4. QED
    BY <2>1, <2>2, <2>3, SubSeqProperties
<1>4. /\ SubSeq(B, 1, k) \in Seq(S) /\ Len(SubSeq(B, 1, k)) = k
      /\ \A i \in 1 .. k : SubSeq(B, 1, k)[i] = B[i]
  <2>1. \A i \in 1 .. k : B[i] \in S
    BY <1>2, ElementOfSeq
  <2>2. 1 \in Int /\ k \in Int /\ k - 1 + 1 = k /\ (1 <= k <=> k # 0)
    OBVIOUS
  <2>3. \A i \in 1 .. k : 1 + i - 1 = i
    OBVIOUS
  <2>4. QED
    BY <2>1, <2>2, <2>3, SubSeqProperties
<1>5. \A i \in 1 .. k : A[i + 2] = B[i]
  BY <1>1, <1>2
<1>6. QED
  BY <1>3, <1>4, <1>5, SeqEqual

-----------------------------------------------------------------------------
(***************************************************************************)
(* The inductive invariant: where the client is in the answer to its own   *)
(* request, and that nothing else is on the connection.                    *)
(***************************************************************************)
Quiet == owed = <<>> /\ sending = <<>> /\ wire = <<>>

\* The client has read i pieces of the answer, and j are written.
Along(c, f, i, j) ==
    LET A == Answer(post, c, f) IN
    /\ i \in 0 .. Len(A) /\ j \in i .. Len(A) /\ (f = "close" => j <= 4)
    /\ owed = <<>>
    /\ wire = SubSeq(A, i + 1, j)
    /\ sending = IF live THEN SubSeq(A, j + 1, Len(A)) ELSE <<>>
    /\ c >= 400 => trouble
    /\ ~live => trouble \/ (f = "close" /\ j = 4)

Waiting == live /\ owed = <<post>> /\ sending = <<>> /\ wire = <<>>
Lost    == ~live /\ Quiet /\ (attempt = 1 \/ trouble)
Cut     == ~live /\ owed = <<>> /\ sending = <<>> /\ wire = <<StatusLine(post, 0)>> /\ trouble
Ended   == ~live /\ Quiet /\ got = <<>>

Prefix(c, k) == got = SubSeq(Body(post, c), 1, k)

AtStatus ==
    pc = "status" =>
        \/ Waiting \/ Lost \/ Cut
        \/ \E c \in Codes, f \in Framings, j \in 0 .. 5 : Along(c, f, 0, j)

AtHeaders ==
    pc = "headers" =>
        /\ got = <<>> /\ framing = "none"
        /\ \/ code = 0 /\ Ended /\ trouble
           \/ \E c \in Codes, f \in Framings, j \in 0 .. 5 : code = c /\ Along(c, f, 1, j)

AtBody ==
    pc = "body" =>
        \/ framing = "none" /\ Ended
        \/ \E c \in Codes, f \in Framings, k \in 0 .. 2, j \in 0 .. 5 :
              /\ code = c /\ framing = f /\ (f # "chunked" => k = 0)
              /\ Prefix(c, k) /\ Along(c, f, 2 + k, j)

AtJudge ==
    pc = "judge" => got = <<>> \/ \E c \in Codes, k \in 0 .. 2 : code = c /\ Prefix(c, k)

PostInv ==
    /\ pc \in {"idle", "send", "status", "headers", "body", "judge"}
    /\ attempt \in {1, 2} /\ live \in BOOLEAN /\ trouble \in BOOLEAN /\ code \in Nat
    /\ pc \in {"idle", "send", "judge"} => Quiet
    /\ pc = "send" /\ has => attempt = 1
    /\ pc \in {"headers", "body", "judge"} /\ code >= 400 => trouble
    /\ pc # "idle" => result.kind = "none"
    /\ AtStatus /\ AtHeaders /\ AtBody /\ AtJudge
    /\ OwnAnswer /\ ErrorHasCause

-----------------------------------------------------------------------------
(***************************************************************************)
(* The connection.                                                         *)
(***************************************************************************)

\* What a client that is along in an answer finds on the wire, and what the
\* server has still to write.
LEMMA AlongFacts ==
    ASSUME NEW c \in Codes, NEW f \in Framings, NEW i, NEW j, Along(c, f, i, j)
    PROVE  LET A == Answer(post, c, f) IN
           /\ i \in Nat /\ j \in Nat /\ i <= j /\ j <= Len(A)
           /\ Len(wire) = j - i /\ (wire = <<>> <=> i = j)
           /\ wire # <<>> => Head(wire) = A[i + 1] /\ Tail(wire) = SubSeq(A, i + 2, j)
           /\ j < Len(A) => Append(wire, A[j + 1]) = SubSeq(A, i + 1, j + 1)
           /\ sending # <<>> =>
                 /\ live /\ j < Len(A)
                 /\ Head(sending) = A[j + 1] /\ Tail(sending) = SubSeq(A, j + 2, Len(A))
           /\ live /\ j < Len(A) => sending # <<>>
<1> DEFINE A == Answer(post, c, f)
           S == Pieces(post, c, f)
<1>1. f \in {"length", "chunked", "close"}
  BY ServerAssumption
<1>2. A \in Seq(S) /\ Len(A) \in Nat
  BY <1>1, AnswerShape
<1>3. /\ i \in 0 .. Len(A) /\ j \in i .. Len(A)
      /\ wire = SubSeq(A, i + 1, j)
      /\ sending = IF live THEN SubSeq(A, j + 1, Len(A)) ELSE <<>>
  BY DEF Along
<1> HIDE DEF A, S
<1>4. /\ j \in 0 .. Len(A) /\ Len(A) \in j .. Len(A)
      /\ i \in Nat /\ j \in Nat /\ i <= j /\ j <= Len(A)
  BY <1>2, <1>3
<1>5. /\ Len(wire) = j - i /\ (wire = <<>> <=> i = j)
      /\ i < j => Head(wire) = A[i + 1] /\ Tail(wire) = SubSeq(A, i + 2, j)
  <2>1. i \in 0 .. Len(A) /\ j \in i .. Len(A)
    BY <1>3
  <2>2. /\ Len(SubSeq(A, i + 1, j)) = j - i
        /\ SubSeq(A, i + 1, j) = <<>> <=> i = j
        /\ i < j => /\ Head(SubSeq(A, i + 1, j)) = A[i + 1]
                    /\ Tail(SubSeq(A, i + 1, j)) = SubSeq(A, i + 2, j)
    BY <1>2, <2>1, CutHead
  <2>3. QED
    BY <1>3, <2>2
<1>6. j < Len(A) => Append(wire, A[j + 1]) = SubSeq(A, i + 1, j + 1)
  BY <1>2, <1>3, CutAppend
<1>7. /\ SubSeq(A, j + 1, Len(A)) = <<>> <=> j = Len(A)
      /\ j < Len(A) => /\ Head(SubSeq(A, j + 1, Len(A))) = A[j + 1]
                       /\ Tail(SubSeq(A, j + 1, Len(A))) = SubSeq(A, j + 2, Len(A))
  <2>1. j < Len(A) <=> j # Len(A)
    BY <1>2, <1>4
  <2>2. j \in 0 .. Len(A) /\ Len(A) \in j .. Len(A)
    BY <1>4
  <2>3. ASSUME NEW n \in j .. Len(A)
        PROVE  /\ SubSeq(A, j + 1, n) = <<>> <=> j = n
               /\ j < n => /\ Head(SubSeq(A, j + 1, n)) = A[j + 1]
                           /\ Tail(SubSeq(A, j + 1, n)) = SubSeq(A, j + 2, n)
    BY SMTT(60), <1>2, <2>2, CutHead
  <2>4. QED
    BY <2>2, <2>3
<1>8. wire # <<>> => i < j
  BY <1>4, <1>5
<1>9. sending # <<>> => live /\ j < Len(A)
  BY <1>3, <1>4, <1>7
<1>10. live /\ j < Len(A) => sending # <<>>
  BY <1>3, <1>4, <1>7
<1>11. QED
  BY <1>3, <1>4, <1>5, <1>6, <1>7, <1>8, <1>9, <1>10 DEF A

\* Nothing comes to a connection on which nothing was asked.
LEMMA QuietStays ==
    ASSUME Quiet, ServerStep
    PROVE  Quiet' /\ (~live => ~live') /\ (trouble => trouble')
BY DEF Quiet, ServerStep, BeginAnswer, WritePiece, CloseAfterBody, CloseIdle, Die, Restart, connVars

\* A request that waits is answered from the beginning, or is lost, and then
\* the server has failed.
LEMMA WaitingStays ==
    ASSUME Waiting, ServerStep, UNCHANGED clientVars, trouble \in BOOLEAN
    PROVE  \/ Waiting' \/ Lost'
           \/ \E c \in Codes, f \in Framings : Along(c, f, 0, 0)'
<1>1. CASE BeginAnswer
  <2>1. PICK c \in Codes, f \in Framings :
           sending' = Answer(Head(owed), c, f) /\ trouble' = (trouble \/ c >= 400)
    BY <1>1 DEF BeginAnswer
  <2> DEFINE A == Answer(post, c, f)
  <2>2. f \in {"length", "chunked", "close"} /\ c \in Nat
    BY ServerAssumption
  <2>3. A \in Seq(Pieces(post, c, f)) /\ Len(A) \in {4, 5}
    BY <2>2, AnswerShape
  <2>4. SubSeq(A, 1, Len(A)) = A
    BY <2>3, SubSeqFull
  <2>5. SubSeq(A, 1, 0) = <<>>
    BY SubSeqEmpty
  <2>6. /\ owed' = <<>> /\ sending' = A /\ live' = TRUE /\ wire' = <<>> /\ post' = post
        /\ c >= 400 => trouble'
    <3>1. owed = <<post>> /\ wire = <<>> /\ live = TRUE
      BY <1>1 DEF Waiting, BeginAnswer
    <3>2. Head(owed) = post /\ Tail(owed) = <<>>
      BY <3>1
    <3>3. owed' = Tail(owed) /\ live' = live /\ wire' = wire /\ post' = post
      BY <1>1 DEF BeginAnswer, clientVars
    <3>4. QED
      BY <2>1, <2>2, <3>1, <3>2, <3>3
  <2>7. Along(c, f, 0, 0)'
    BY <2>3, <2>4, <2>5, <2>6 DEF Along
  <2>8. QED
    BY <2>7
<1>2. CASE WritePiece \/ CloseAfterBody
  BY <1>2 DEF Waiting, WritePiece, CloseAfterBody
<1>3. CASE CloseIdle \/ Die
  BY <1>3 DEF Waiting, Lost, Quiet, CloseIdle, Die
<1>4. CASE Restart
  BY <1>4 DEF Waiting, Restart, connVars, clientVars
<1>5. QED
  BY <1>1, <1>2, <1>3, <1>4 DEF ServerStep

\* An answer goes on, or is cut: within its status line, or after a piece.
LEMMA AlongStays ==
    ASSUME NEW c \in Codes, NEW f \in Framings, NEW i, NEW j, Along(c, f, i, j),
           ServerStep, UNCHANGED clientVars, trouble \in BOOLEAN, live \in BOOLEAN
    PROVE  \/ \E k \in 0 .. 5 : Along(c, f, i, k)'
           \/ i = 0 /\ Cut'
<1> DEFINE A == Answer(post, c, f)
<1>1. /\ f \in {"length", "chunked", "close"} /\ c \in Nat
      /\ post' = post
  BY ServerAssumption DEF clientVars
<1>2. /\ A \in Seq(Pieces(post, c, f)) /\ Len(A) = IF f = "length" THEN 4 ELSE 5
      /\ A[1] = StatusLine(post, c) /\ A[2] = Headers(post, f)
      /\ A[3] = Data(post, c, 1) /\ A[4] = Data(post, c, 2)
      /\ f = "chunked" => A[5] = LastChunk
      /\ f = "close" => A[5] = CloseItself
  BY <1>1, AnswerShape
<1>3. /\ i \in Nat /\ j \in Nat /\ i <= j /\ j <= Len(A)
      /\ Len(wire) = j - i /\ (wire = <<>> <=> i = j)
      /\ wire # <<>> => Head(wire) = A[i + 1] /\ Tail(wire) = SubSeq(A, i + 2, j)
      /\ j < Len(A) => Append(wire, A[j + 1]) = SubSeq(A, i + 1, j + 1)
      /\ sending # <<>> =>
            /\ live /\ j < Len(A)
            /\ Head(sending) = A[j + 1] /\ Tail(sending) = SubSeq(A, j + 2, Len(A))
      /\ live /\ j < Len(A) => sending # <<>>
  BY AlongFacts
<1>4. /\ f = "close" => j <= 4
      /\ owed = <<>> /\ wire = SubSeq(A, i + 1, j)
      /\ sending = IF live THEN SubSeq(A, j + 1, Len(A)) ELSE <<>>
      /\ c >= 400 => trouble
      /\ ~live => trouble \/ (f = "close" /\ j = 4)
  BY DEF Along
<1>5. Answer(post', c, f) = A
  BY <1>1
<1>6. j \in 0 .. 5 /\ i \in 0 .. Len(A) /\ j \in i .. Len(A)
  BY <1>2, <1>3
<1> HIDE DEF A
<1>7. CASE BeginAnswer
  BY <1>4, <1>7 DEF BeginAnswer
<1>8. CASE WritePiece
  <2>1. /\ live /\ j < Len(A) /\ A[j + 1] # CloseItself
        /\ wire' = SubSeq(A, i + 1, j + 1) /\ sending' = SubSeq(A, j + 2, Len(A))
        /\ live' = live /\ owed' = <<>> /\ trouble' = trouble
    BY <1>3, <1>4, <1>8 DEF WritePiece
  <2>2. j + 1 \in 0 .. 5 /\ j + 1 \in i .. Len(A) /\ (j + 1) + 1 = j + 2
    BY <1>2, <1>3, <2>1
  <2>3. f = "close" => j + 1 <= 4
    BY <1>2, <1>3, <2>1
  <2>4. Along(c, f, i, j + 1)'
    BY <1>4, <1>5, <1>6, <2>1, <2>2, <2>3 DEF Along
  <2>5. QED
    BY <2>2, <2>4
<1>9. CASE CloseAfterBody
  <2>1. /\ sending # <<>> /\ Head(sending) = CloseItself
        /\ live' = FALSE /\ owed' = <<>> /\ sending' = <<>> /\ wire' = wire /\ trouble' = trouble
    BY <1>9 DEF CloseAfterBody
  <2>2. A[j + 1] = CloseItself /\ j \in 0 .. 4 /\ j + 1 <= Len(A)
    BY <1>2, <1>3, <2>1
  <2>3. A[j + 1].part = "close"
    BY <2>2, PiecesDiffer
  <2>4. j = 4 /\ f = "close"
    <3>1. A[1].part = "status" /\ A[2].part = "headers" /\ A[3].part = "data" /\ A[4].part = "data"
      BY <1>2, PiecesDiffer
    <3>2. j \notin {0, 1, 2, 3}
      BY <2>3, <3>1
    <3>3. j = 4
      BY <2>2, <3>2
    <3>4. f # "chunked"
      BY <1>2, <2>3, <3>3, PiecesDiffer
    <3>5. QED
      BY <1>1, <1>2, <2>2, <3>3, <3>4
  <2>5. Along(c, f, i, j)'
    BY <1>4, <1>5, <1>6, <2>1, <2>4 DEF Along
  <2>6. QED
    BY <1>6, <2>5
<1>10. CASE CloseIdle
  <2>1. Along(c, f, i, j)'
    BY <1>4, <1>5, <1>6, <1>10 DEF Along, CloseIdle
  <2>2. QED
    BY <1>6, <2>1
<1>11. CASE Die
  <2>1. live' = FALSE /\ owed' = <<>> /\ sending' = <<>> /\ trouble' = TRUE
    BY <1>11 DEF Die
  <2>2. CASE wire' = wire
    <3>1. Along(c, f, i, j)'
      BY <1>4, <1>5, <1>6, <2>1, <2>2 DEF Along
    <3>2. QED
      BY <1>6, <3>1
  <2>3. CASE /\ sending # <<>> /\ Head(sending).part = "status"
             /\ wire' = Append(wire, [Head(sending) EXCEPT !.code = 0])
    <3>1. A[j + 1].part = "status" /\ j \in 0 .. 4 /\ j + 1 <= Len(A)
      <4>1. sending # <<>> => j < Len(A) /\ Head(sending) = A[j + 1]
        BY <1>3
      <4>2. QED
        BY <1>2, <1>6, <2>3, <4>1
    <3>2. A[2].part = "headers" /\ A[3].part = "data" /\ A[4].part = "data"
      BY <1>2, PiecesDiffer
    <3>3. j \notin {1, 2, 3}
      BY <3>1, <3>2
    <3>4. j # 4
      BY <1>1, <1>2, <3>1, PiecesDiffer
    <3>5. j = 0 /\ i = 0
      BY <1>3, <3>1, <3>3, <3>4
    <3>6. wire = <<>> /\ Head(sending) = StatusLine(post, c)
      BY <1>2, <1>3, <2>3, <3>5
    <3>7. [StatusLine(post, c) EXCEPT !.code = 0] = StatusLine(post', 0)
      BY <1>1 DEF StatusLine
    <3>8. QED
      BY <2>1, <2>3, <3>5, <3>6, <3>7 DEF Cut
  <2>4. QED
    BY <1>11, <2>2, <2>3 DEF Die
<1>12. CASE Restart
  <2>1. Along(c, f, i, j)'
    BY <1>4, <1>5, <1>6, <1>12 DEF Along, Restart, connVars
  <2>2. QED
    BY <1>6, <2>1
<1>13. QED
  BY <1>7, <1>8, <1>9, <1>10, <1>11, <1>12 DEF ServerStep

-----------------------------------------------------------------------------
(***************************************************************************)
(* The client's steps.                                                     *)
(***************************************************************************)

\* One piece is read.
LEMMA AlongTake ==
    ASSUME NEW c \in Codes, NEW f \in Framings, NEW i, NEW j, Along(c, f, i, j),
           wire # <<>>, wire' = Tail(wire),
           UNCHANGED <<live, owed, sending, trouble, post>>
    PROVE  /\ i < j /\ Head(wire) = Answer(post, c, f)[i + 1]
           /\ Along(c, f, i + 1, j)'
<1> DEFINE A == Answer(post, c, f)
<1>1. /\ i \in Nat /\ j \in Nat /\ i <= j /\ j <= Len(A)
      /\ wire = <<>> <=> i = j
      /\ wire # <<>> => Head(wire) = A[i + 1] /\ Tail(wire) = SubSeq(A, i + 2, j)
  BY AlongFacts
<1>2. Len(A) \in Nat
  BY ServerAssumption, AnswerShape
<1>3. i < j
  BY <1>1
<1>4. i + 1 \in 0 .. Len(A) /\ j \in i + 1 .. Len(A) /\ (i + 1) + 1 = i + 2
  BY <1>1, <1>2, <1>3
<1>5. Answer(post', c, f) = A
  OBVIOUS
<1>6. /\ f = "close" => j <= 4
      /\ owed = <<>>
      /\ sending = IF live THEN SubSeq(A, j + 1, Len(A)) ELSE <<>>
      /\ c >= 400 => trouble
      /\ ~live => trouble \/ (f = "close" /\ j = 4)
  BY DEF Along
<1> HIDE DEF A
<1>7. Along(c, f, i + 1, j)'
  BY <1>1, <1>4, <1>5, <1>6 DEF Along
<1>8. QED
  BY <1>1, <1>3, <1>7 DEF A

\* post() starts again, or gives up: then its server has failed.
TriesAgain ==
    /\ FreshConnection /\ attempt' = 2 /\ pc' = "send" /\ trouble' = FALSE
    /\ UNCHANGED result

GivesUp ==
    /\ trouble /\ owed = <<>> /\ sending = <<>>
    /\ pc' = "idle" /\ result' = [kind |-> "error", body |-> <<>>] /\ trouble' = TRUE
    /\ wire' = <<>> /\ UNCHANGED <<live, owed, sending, has, attempt>>

\* Either keeps the invariant.
LEMMA FailsKeeps ==
    ASSUME PostInv, pc # "idle", TriesAgain \/ GivesUp, UNCHANGED <<post, code, framing, got>>
    PROVE  PostInv'
<1>1. pc # "idle" => result.kind = "none"
  BY DEF PostInv
<1>2. CASE TriesAgain
  BY <1>1, <1>2 DEF PostInv, TriesAgain, FreshConnection, Disconnect, Quiet, OwnAnswer, ErrorHasCause,
       AtStatus, AtHeaders, AtBody, AtJudge
<1>3. CASE GivesUp
  BY <1>3 DEF PostInv, GivesUp, Quiet, OwnAnswer, ErrorHasCause,
       AtStatus, AtHeaders, AtBody, AtJudge
<1>4. QED
  BY <1>2, <1>3

\* A request goes out on a connection on which nothing is left.
LEMMA SendKeeps ==
    ASSUME PostInv, ConnectFails \/ SendRequest \/ SendToNobody \/ SendFails
    PROVE  PostInv'
<1>1. pc = "send" /\ Quiet /\ attempt \in {1, 2} /\ (has => attempt = 1)
  BY DEF PostInv, ConnectFails, SendRequest, SendToNobody, SendFails
<1>2. CASE ConnectFails
  <2>1. Fails(TRUE, wire) /\ UNCHANGED <<post, code, framing, got>>
    BY <1>2 DEF ConnectFails
  <2>2. CASE attempt = 1
    <3>1. TriesAgain
      BY <2>1, <2>2 DEF Fails, TriesAgain
    <3>2. QED
      BY <1>1, <2>1, <3>1, FailsKeeps
  <2>3. CASE attempt = 2
    <3>1. /\ pc' = "idle" /\ result' = [kind |-> "error", body |-> <<>>] /\ trouble' = TRUE
          /\ wire' = wire /\ UNCHANGED <<live, owed, sending, has, attempt>>
      BY <2>1, <2>3 DEF Fails
    <3>2. Quiet'
      BY <1>1, <3>1 DEF Quiet
    <3>3. QED
      BY <2>1, <3>1, <3>2 DEF PostInv, OwnAnswer, ErrorHasCause, AtStatus, AtHeaders, AtBody, AtJudge
  <2>4. QED
    BY <1>1, <2>2, <2>3
<1>3. CASE SendRequest
  <2>1. /\ pc' = "status" /\ live' = TRUE /\ owed' = Append(owed, post)
        /\ UNCHANGED <<sending, wire, trouble, post, attempt, code, framing, got, result>>
    BY <1>3 DEF SendRequest
  <2>2. Waiting'
    BY <1>1, <2>1 DEF Quiet, Waiting
  <2>3. QED
    BY <1>1, <2>1, <2>2 DEF PostInv, OwnAnswer, ErrorHasCause, AtStatus, AtHeaders, AtBody, AtJudge
<1>4. CASE SendToNobody
  <2>1. /\ pc' = "status" /\ ~live /\ has
        /\ UNCHANGED <<live, owed, sending, wire, trouble, post, attempt, code, framing, got, result>>
    BY <1>4 DEF SendToNobody, serverVars, connVars
  <2>2. Lost'
    BY <1>1, <2>1 DEF Quiet, Lost
  <2>3. QED
    BY <1>1, <2>1, <2>2 DEF PostInv, OwnAnswer, ErrorHasCause, AtStatus, AtHeaders, AtBody, AtJudge
<1>5. CASE SendFails
  <2>1. attempt = 1
    BY <1>1, <1>5 DEF SendFails
  <2>2. TriesAgain /\ UNCHANGED <<post, code, framing, got>>
    BY <1>5, <2>1 DEF SendFails, Fails, TriesAgain
  <2>3. QED
    BY <1>1, <2>2, FailsKeeps
<1>6. QED
  BY <1>2, <1>3, <1>4, <1>5

\* The status line is the one of the answer, or what was written of it.
LEMMA StatusKeeps ==
    ASSUME PostInv, ReadStatus
    PROVE  PostInv'
<1>1. /\ pc = "status" /\ wire # <<>> /\ pc' = "headers"
      /\ code' = IF Head(wire).part = "status" THEN Head(wire).code ELSE 0
      /\ wire' = IF Head(wire).part = "headers" THEN wire ELSE Tail(wire)
      /\ framing' = "none" /\ got' = <<>>
      /\ UNCHANGED <<live, owed, sending, trouble, post, attempt, has, result>>
  BY DEF ReadStatus, StatusTo
<1>2. /\ Cut \/ \E c \in Codes, f \in Framings, j \in 0 .. 5 : Along(c, f, 0, j)
      /\ result.kind = "none" /\ attempt \in {1, 2} /\ live \in BOOLEAN /\ trouble \in BOOLEAN
  BY <1>1 DEF PostInv, AtStatus, Waiting, Lost, Quiet
<1>3. CASE Cut
  <2>1. Head(wire) = StatusLine(post, 0) /\ Tail(wire) = <<>>
    BY <1>3 DEF Cut
  <2>2. code' = 0 /\ wire' = <<>>
    BY <1>1, <2>1, PiecesDiffer
  <2>3. code' = 0 /\ Ended' /\ trouble'
    BY <1>1, <1>3, <2>2 DEF Cut, Ended, Quiet
  <2>4. QED
    BY <1>1, <1>2, <2>3 DEF PostInv, OwnAnswer, ErrorHasCause, AtStatus, AtHeaders, AtBody, AtJudge
<1>4. CASE \E c \in Codes, f \in Framings, j \in 0 .. 5 : Along(c, f, 0, j)
  <2>1. PICK c \in Codes, f \in Framings, j \in 0 .. 5 : Along(c, f, 0, j)
    BY <1>4
  <2>2. Answer(post, c, f)[0 + 1] = StatusLine(post, c)
    BY SMTT(60), AnswerShape, ServerAssumption
  <2>3. wire # <<>> => Head(wire) = Answer(post, c, f)[0 + 1]
    <3>1. /\ wire = <<>> <=> 0 = j
          /\ wire # <<>> => Head(wire) = Answer(post, c, f)[0 + 1]
      BY <2>1, AlongFacts
    <3>2. QED
      BY <3>1
  <2>4. Head(wire) = StatusLine(post, c)
    BY <1>1, <2>2, <2>3
  <2>5. code' = c /\ wire' = Tail(wire)
    BY <1>1, <2>4, PiecesDiffer
  <2>6. Along(c, f, 0 + 1, j)'
    BY <1>1, <2>1, <2>5, AlongTake
  <2>7. c \in Nat /\ (c >= 400 => trouble')
    BY <1>1, <2>1, ServerAssumption DEF Along
  <2>8. Along(c, f, 1, j)'
    BY <2>6
  <2>9. \E cc \in Codes, ff \in Framings, jj \in 0 .. 5 : code' = cc /\ Along(cc, ff, 1, jj)'
    BY <2>5, <2>8
  <2>10. AtHeaders'
    BY <1>1, <2>9 DEF AtHeaders
  <2>11. QED
    BY <1>1, <1>2, <2>5, <2>7, <2>10 DEF PostInv, OwnAnswer, ErrorHasCause, AtStatus, AtBody, AtJudge
<1>5. QED
  BY <1>2, <1>3, <1>4

\* The headers are those of the answer, or they end with the connection.
LEMMA HeadersKeep ==
    ASSUME PostInv, ReadHeaders \/ HeadersEnd
    PROVE  PostInv'
<1>1. /\ pc = "headers" /\ got = <<>> /\ framing = "none"
      /\ \/ code = 0 /\ Ended /\ trouble
         \/ \E c \in Codes, f \in Framings, j \in 0 .. 5 : code = c /\ Along(c, f, 1, j)
      /\ result.kind = "none"
  BY DEF PostInv, AtHeaders, ReadHeaders, HeadersEnd
<1>2. CASE ReadHeaders
  <2>1. /\ wire # <<>> /\ wire' = Tail(wire)
        /\ IF Head(wire).part = "headers" THEN framing' = Head(wire).framing /\ pc' = "body"
           ELSE UNCHANGED <<framing, pc>>
        /\ UNCHANGED <<live, owed, sending, trouble, post, attempt, has, code, got, result>>
    BY <1>2 DEF ReadHeaders
  <2>2. PICK c \in Codes, f \in Framings, j \in 0 .. 5 : code = c /\ Along(c, f, 1, j)
    BY <1>1, <2>1 DEF Ended, Quiet
  <2>3. Head(wire) = Answer(post, c, f)[1 + 1] /\ Along(c, f, 1 + 1, j)'
    BY <2>1, <2>2, AlongTake
  <2>4. f \in {"length", "chunked", "close"}
    BY ServerAssumption
  <2>5. Head(wire) = Headers(post, f)
    BY <2>3, <2>4, AnswerShape
  <2>6. framing' = f /\ pc' = "body" /\ code' = c
    BY <2>1, <2>2, <2>5, PiecesDiffer
  <2>7. Prefix(c, 0)'
    <3>1. SubSeq(Body(post', c), 1, 0) = <<>>
      BY SubSeqEmpty
    <3>2. QED
      BY <1>1, <2>1, <3>1 DEF Prefix
  <2>8. Along(c, f, 2 + 0, j)'
    BY <2>3
  <2>9. \E cc \in Codes, ff \in Framings, k \in 0 .. 2, jj \in 0 .. 5 :
              /\ code' = cc /\ framing' = ff /\ (ff # "chunked" => k = 0)
              /\ Prefix(cc, k)' /\ Along(cc, ff, 2 + k, jj)'
    BY <2>6, <2>7, <2>8
  <2>10. AtBody'
    BY <2>9 DEF AtBody
  <2>11. code \in Nat /\ (code >= 400 => trouble)
    BY <1>1 DEF PostInv
  <2>12. QED
    BY <1>1, <2>1, <2>6, <2>10, <2>11
       DEF PostInv, OwnAnswer, ErrorHasCause, AtStatus, AtHeaders, AtJudge
<1>3. CASE HeadersEnd
  <2>1. /\ wire = <<>> /\ ~live /\ pc' = "body"
        /\ UNCHANGED <<live, owed, sending, wire, trouble, post, attempt, has, code, framing, got, result>>
    BY <1>3 DEF HeadersEnd, AtEnd, serverVars, connVars
  <2>2. owed = <<>> /\ sending = <<>>
    BY <1>1, <2>1 DEF Ended, Quiet, Along
  <2>3. framing' = "none" /\ Ended'
    BY <1>1, <2>1, <2>2 DEF Ended, Quiet
  <2>4. QED
    BY <1>1, <2>1, <2>3 DEF PostInv, OwnAnswer, ErrorHasCause, AtStatus, AtHeaders, AtBody, AtJudge
<1>4. QED
  BY <1>2, <1>3

\* A body that has been read is the beginning of the one of the answer, and
\* nothing is left on the connection.
LEMMA JudgeReached ==
    ASSUME PostInv, pc = "body", pc' = "judge", Quiet',
           got' = <<>> \/ \E c \in Codes, k \in 0 .. 2 : code = c /\ Prefix(c, k)',
           live' \in BOOLEAN,
           UNCHANGED <<trouble, post, attempt, code, result>>
    PROVE  PostInv'
BY DEF PostInv, OwnAnswer, ErrorHasCause, AtStatus, AtHeaders, AtBody, AtJudge

\* A body of known length is read at once.
LEMMA ReadBodyKeeps ==
    ASSUME PostInv, ReadBody
    PROVE  PostInv'
<1>1. /\ pc = "body" /\ framing = "length" /\ Len(wire) >= 2
      /\ got' = SubSeq(wire, 1, 2) /\ wire' = SubSeq(wire, 3, Len(wire)) /\ pc' = "judge"
      /\ UNCHANGED <<live, owed, sending, trouble, post, attempt, code, result>>
  BY DEF ReadBody
<1>2. PICK c \in Codes, f \in Framings, k \in 0 .. 2, j \in 0 .. 5 :
              /\ code = c /\ framing = f /\ (f # "chunked" => k = 0)
              /\ Prefix(c, k) /\ Along(c, f, 2 + k, j)
  BY <1>1 DEF PostInv, AtBody
<1> DEFINE A == Answer(post, c, "length")
<1>3. f = "length" /\ k = 0 /\ Along(c, f, 2, j)
  <2>1. f = "length" /\ k = 0 /\ 2 + 0 = 2
    BY <1>1, <1>2
  <2>2. QED
    BY <1>2, <2>1
<1>4. A \in Seq(Pieces(post, c, "length")) /\ Len(A) = 4
  BY AnswerShape
<1>5. j = 4 /\ Len(wire) = 2
  <2>1. j \in Nat /\ j <= Len(A) /\ Len(wire) = j - 2
    BY <1>3, AlongFacts
  <2>2. Len(A) = 4 /\ Len(wire) >= 2
    BY <1>1, <1>4
  <2> HIDE DEF A
  <2>3. QED
    BY <2>1, <2>2
<1>6. /\ wire = SubSeq(A, 3, 4) /\ owed = <<>>
      /\ sending = IF live THEN SubSeq(A, 5, 4) ELSE <<>>
  BY <1>3, <1>4, <1>5 DEF Along
<1>7. SubSeq(A, 5, 4) = <<>> /\ SubSeq(wire, 3, 2) = <<>>
  BY SubSeqEmpty
<1>8. wire \in Seq(Pieces(post, c, "length"))
  <2>1. 2 \in 0 .. Len(A) /\ 4 \in 2 .. Len(A) /\ 2 + 1 = 3
    <3>1. Len(A) = 4
      BY <1>4
    <3> HIDE DEF A
    <3>2. QED
      BY <3>1
  <2>2. SubSeq(A, 2 + 1, 4) \in Seq(Pieces(post, c, "length"))
    BY <1>4, <2>1, CutHead
  <2>3. QED
    BY <1>6, <2>1, <2>2
<1>9. SubSeq(wire, 1, 2) = wire
  BY <1>5, <1>8, SubSeqFull
<1>10. wire = SubSeq(Body(post, c), 1, 2)
  <2>1. SubSeq(Answer(post, c, "length"), 3, 2 + 2) = SubSeq(Body(post, c), 1, 2)
    BY BodyOfAnswer
  <2>2. QED
    BY <1>6, <2>1
<1>11. Prefix(c, 2)'
  BY <1>1, <1>9, <1>10 DEF Prefix
<1>12. Quiet'
  BY <1>1, <1>5, <1>6, <1>7 DEF Quiet
<1>13. live' \in BOOLEAN
  BY <1>1 DEF PostInv
<1>14. QED
  BY <1>1, <1>2, <1>11, <1>12, <1>13, JudgeReached

\* A chunk is of the body, the last one ends the answer; and the chunks may
\* end with the connection.
LEMMA ChunksKeep ==
    ASSUME PostInv, ReadChunk \/ ChunksEnd
    PROVE  PostInv'
<1>1. pc = "body" /\ framing = "chunked"
  BY DEF ReadChunk, ChunksEnd
<1>2. PICK c \in Codes, k \in 0 .. 2, j \in 0 .. 5 :
              code = c /\ "chunked" \in Framings /\ Prefix(c, k) /\ Along(c, "chunked", 2 + k, j)
  BY <1>1 DEF PostInv, AtBody
<1> DEFINE A == Answer(post, c, "chunked")
           B == Body(post, c)
<1>3. /\ A \in Seq(Pieces(post, c, "chunked")) /\ Len(A) = 5
      /\ A[3] = Data(post, c, 1) /\ A[4] = Data(post, c, 2) /\ A[5] = LastChunk
  BY AnswerShape
<1>4. live \in BOOLEAN /\ result.kind = "none"
  BY <1>1 DEF PostInv
<1>5. CASE ChunksEnd
  <2>1. /\ wire = <<>> /\ ~live /\ pc' = "judge"
        /\ UNCHANGED <<live, owed, sending, wire, trouble, post, attempt, code, got, result>>
    BY <1>5 DEF ChunksEnd, AtEnd, serverVars, connVars
  <2>2. Quiet'
    BY <1>2, <2>1 DEF Along, Quiet
  <2>3. Prefix(c, k)'
    BY <1>2, <2>1 DEF Prefix
  <2>4. QED
    BY <1>1, <1>2, <1>4, <2>1, <2>2, <2>3, JudgeReached
<1>6. CASE ReadChunk
  <2>1. /\ wire # <<>> /\ wire' = Tail(wire)
        /\ IF Head(wire) = LastChunk THEN pc' = "judge" /\ UNCHANGED got
           ELSE got' = Append(got, Head(wire)) /\ UNCHANGED pc
        /\ UNCHANGED <<live, owed, sending, trouble, has, post, attempt, code, framing, result>>
    BY <1>6 DEF ReadChunk
  <2>2. /\ 2 + k < j /\ Head(wire) = A[(2 + k) + 1] /\ Along(c, "chunked", (2 + k) + 1, j)'
    BY <1>2, <2>1, AlongTake
  <2>3. CASE k = 2
    <3>1. Head(wire) = LastChunk /\ j = 5
      BY <1>3, <2>2, <2>3
    <3>2. pc' = "judge" /\ got' = got
      BY <2>1, <3>1
    <3>3. /\ wire' = SubSeq(Answer(post', c, "chunked"), 6, 5) /\ owed' = <<>>
          /\ sending' = IF live' THEN SubSeq(Answer(post', c, "chunked"), 6, Len(Answer(post', c, "chunked")))
                        ELSE <<>>
      BY <2>2, <2>3, <3>1 DEF Along
    <3>4. Len(Answer(post', c, "chunked")) = 5
      BY AnswerShape
    <3>5. SubSeq(Answer(post', c, "chunked"), 6, 5) = <<>>
      BY SubSeqEmpty
    <3>6. Quiet'
      BY <3>3, <3>4, <3>5 DEF Quiet
    <3>7. Prefix(c, k)'
      BY <1>2, <2>1, <3>2 DEF Prefix
    <3>8. QED
      BY <1>1, <1>2, <1>4, <2>1, <3>2, <3>6, <3>7, JudgeReached
  <2>4. CASE k \in {0, 1}
    <3>1. Head(wire) = B[k + 1] /\ Head(wire) = Data(post, c, k + 1)
      BY <1>3, <2>2, <2>4 DEF Body
    <3>2. Head(wire) # LastChunk
      BY <3>1, PiecesDiffer
    <3>3. got' = Append(got, B[k + 1]) /\ pc' = "body"
      BY <1>1, <2>1, <3>1, <3>2
    <3>4. B \in Seq(Pieces(post, c, "chunked")) /\ Len(B) = 2
      BY DEF Body, Pieces
    <3>5. Append(SubSeq(B, 1, k), B[k + 1]) = SubSeq(B, 1, k + 1)
      <4>1. Len(B) = 2
        BY <3>4
      <4> HIDE DEF B
      <4>2. 0 \in 0 .. Len(B) /\ k \in 0 .. Len(B) /\ k < Len(B) /\ 0 + 1 = 1
        BY <2>4, <4>1
      <4>3. Append(SubSeq(B, 0 + 1, k), B[k + 1]) = SubSeq(B, 0 + 1, k + 1)
        BY <3>4, <4>2, CutAppend
      <4>4. QED
        BY <4>2, <4>3
    <3>6. Prefix(c, k + 1)'
      BY <1>2, <2>1, <3>3, <3>5 DEF Prefix
    <3>7. k + 1 \in 0 .. 2 /\ (2 + k) + 1 = 2 + (k + 1)
      BY <2>4
    <3>8. \E cc \in Codes, ff \in Framings, kk \in 0 .. 2, jj \in 0 .. 5 :
                /\ code' = cc /\ framing' = ff /\ (ff # "chunked" => kk = 0)
                /\ Prefix(cc, kk)' /\ Along(cc, ff, 2 + kk, jj)'
      BY <1>1, <1>2, <2>1, <2>2, <3>6, <3>7
    <3>9. AtBody'
      BY <3>8 DEF AtBody
    <3>10. QED
      BY <1>1, <2>1, <3>3, <3>9 DEF PostInv, OwnAnswer, ErrorHasCause, AtStatus, AtHeaders, AtJudge
  <2>5. QED
    BY <2>3, <2>4
<1>7. QED
  BY <1>5, <1>6

\* Without a length, what is read before the connection ends is of the body.
LEMMA ReadToEndKeeps ==
    ASSUME PostInv, ReadToEnd
    PROVE  PostInv'
<1>1. /\ pc = "body" /\ framing \in {"none", "close"} /\ ~live /\ pc' = "judge"
      /\ \E n \in 0 .. Len(wire) : got' = SubSeq(wire, 1, n)
      /\ Disconnect
      /\ UNCHANGED <<trouble, post, attempt, code, result>>
  BY DEF ReadToEnd
<1>2. Quiet' /\ live' \in BOOLEAN
  BY <1>1 DEF Disconnect, Quiet
<1>3. PICK n \in 0 .. Len(wire) : got' = SubSeq(wire, 1, n)
  BY <1>1
<1>4. CASE Ended
  <2>1. wire = <<>>
    BY <1>4 DEF Ended, Quiet
  <2>2. n = 0
    BY <2>1
  <2>3. got' = <<>>
    BY <1>3, <2>2, SubSeqEmpty
  <2>4. QED
    BY <1>1, <1>2, <2>3, JudgeReached
<1>5. CASE ~Ended
  <2>1. PICK c \in Codes, f \in Framings, k \in 0 .. 2, j \in 0 .. 5 :
              /\ code = c /\ framing = f /\ (f # "chunked" => k = 0)
              /\ Prefix(c, k) /\ Along(c, f, 2 + k, j)
    BY <1>1, <1>5 DEF PostInv, AtBody
  <2> DEFINE A == Answer(post, c, "close")
  <2>2. f = "close" /\ Along(c, f, 2, j)
    <3>1. f \in {"length", "chunked", "close"}
      BY ServerAssumption
    <3>2. f = "close" /\ k = 0 /\ 2 + 0 = 2
      BY <1>1, <2>1, <3>1
    <3>3. QED
      BY <2>1, <3>2
  <2>3. A \in Seq(Pieces(post, c, "close")) /\ Len(A) = 5
    BY AnswerShape
  <2>4. wire = SubSeq(A, 3, j) /\ j <= 4
    BY <2>2 DEF Along
  <2>5. 2 <= j /\ Len(wire) = j - 2
    BY <2>2, AlongFacts
  <2>6. n \in 0 .. 2 /\ n <= j - 2
    BY <2>4, <2>5
  <2>7. got' = SubSeq(A, 3, 2 + n)
    <3>1. CASE n = 0
      <4>1. SubSeq(wire, 1, 0) = <<>> /\ SubSeq(A, 3, 2) = <<>>
        BY SubSeqEmpty
      <4>2. QED
        BY <1>3, <3>1, <4>1
    <3>2. CASE n # 0
      <4>1. Len(A) = 5
        BY <2>3
      <4> HIDE DEF A
      <4>2. /\ 3 \in 1 .. Len(A) /\ j \in 1 .. Len(A)
            /\ 1 \in 1 .. j - 3 + 1 /\ n \in 1 .. j - 3 + 1
            /\ 3 + 1 - 1 = 3 /\ 3 + n - 1 = 2 + n
        BY <2>4, <2>5, <2>6, <3>2, <4>1
      <4>3. SubSeq(SubSeq(A, 3, j), 1, n) = SubSeq(A, 3 + 1 - 1, 3 + n - 1)
        BY <2>3, <4>2, SubSeqOfSubSeq
      <4>4. QED
        BY <1>3, <2>4, <4>2, <4>3
    <3>3. QED
      BY <3>1, <3>2
  <2>8. got' = SubSeq(Body(post, c), 1, n)
    BY <2>6, <2>7, BodyOfAnswer
  <2>9. Prefix(c, n)'
    BY <1>1, <2>8 DEF Prefix
  <2>10. QED
    BY <1>1, <1>2, <2>1, <2>6, <2>9, JudgeReached
<1>6. QED
  BY <1>4, <1>5

\* A read that fails during the second attempt has the server to blame: its
\* connection was fresh.
LEMMA ReadFailsKeeps ==
    ASSUME PostInv, ReadFails
    PROVE  PostInv'
<1>1. /\ pc \in {"status", "headers", "body"} /\ ~live
      /\ \/ pc = "status" /\ wire = <<>>
         \/ pc = "body" /\ framing = "length" /\ Len(wire) < 2
         \/ trouble
      /\ Fails(trouble, <<>>)
      /\ UNCHANGED <<post, code, framing, got>>
  BY DEF ReadFails, AtEnd
<1>2. attempt \in {1, 2} /\ live \in BOOLEAN /\ trouble \in BOOLEAN
  BY DEF PostInv
<1>3. owed = <<>> /\ sending = <<>>
  BY <1>1 DEF PostInv, AtStatus, AtHeaders, AtBody, Waiting, Lost, Cut, Ended, Quiet, Along
<1>4. ASSUME attempt = 2, ~trouble PROVE FALSE
  <2>1. CASE pc = "status" /\ wire = <<>>
    <3>1. PICK c \in Codes, f \in Framings, j \in 0 .. 5 : Along(c, f, 0, j)
      BY <1>1, <1>4, <2>1 DEF PostInv, AtStatus, Waiting, Lost, Cut
    <3>2. 0 = j
      <4>1. wire = <<>> <=> 0 = j
        BY <3>1, AlongFacts
      <4>2. QED
        BY <2>1, <4>1
    <3>3. j = 4
      BY <1>1, <1>4, <3>1 DEF Along
    <3>4. QED
      BY <3>2, <3>3
  <2>2. CASE pc = "body" /\ framing = "length" /\ Len(wire) < 2
    <3>1. PICK c \in Codes, f \in Framings, k \in 0 .. 2, j \in 0 .. 5 :
              framing = f /\ Along(c, f, 2 + k, j)
      BY <2>2 DEF PostInv, AtBody
    <3>2. f = "close"
      BY <1>1, <1>4, <3>1 DEF Along
    <3>3. QED
      BY <2>2, <3>1, <3>2
  <2>3. QED
    BY <1>1, <1>4, <2>1, <2>2
<1>5. TriesAgain \/ GivesUp
  <2>1. CASE attempt = 1
    BY <1>1, <2>1 DEF Fails, TriesAgain
  <2>2. CASE attempt = 2
    <3>1. trouble
      BY <1>2, <1>4, <2>2
    <3>2. /\ pc' = "idle" /\ result' = [kind |-> "error", body |-> <<>>] /\ trouble' = trouble
          /\ wire' = <<>> /\ UNCHANGED <<live, owed, sending, has, attempt>>
      BY <1>1, <2>2 DEF Fails
    <3>3. QED
      BY <1>2, <1>3, <3>1, <3>2 DEF GivesUp
  <2>3. QED
    BY <1>2, <2>1, <2>2
<1>6. QED
  BY <1>1, <1>5, FailsKeeps

\* An answer with an error is the server's, and has been read to its end.
LEMMA JudgeKeeps ==
    ASSUME PostInv, JudgeError \/ JudgeOk
    PROVE  PostInv'
<1>1. /\ pc = "judge" /\ Quiet /\ code \in Nat /\ (code >= 400 => trouble)
      /\ result.kind = "none" /\ attempt \in {1, 2} /\ trouble \in BOOLEAN /\ live \in BOOLEAN
      /\ got = <<>> \/ \E c \in Codes, k \in 0 .. 2 : code = c /\ Prefix(c, k)
  BY DEF PostInv, AtJudge, JudgeError, JudgeOk
<1>2. CASE JudgeError
  <2>1. code >= 400 /\ Fails(trouble, wire) /\ UNCHANGED <<post, code, framing, got>>
    BY <1>2 DEF JudgeError
  <2>2. TriesAgain \/ GivesUp
    <3>1. CASE attempt = 1
      BY <2>1, <3>1 DEF Fails, TriesAgain
    <3>2. CASE attempt = 2
      BY <1>1, <2>1, <3>2 DEF Fails, GivesUp, Quiet
    <3>3. QED
      BY <1>1, <3>1, <3>2
  <2>3. QED
    BY <1>1, <2>1, <2>2, FailsKeeps
<1>3. CASE JudgeOk
  <2>1. /\ code < 400 /\ result' = [kind |-> "ok", body |-> got] /\ pc' = "idle"
        /\ UNCHANGED <<live, owed, sending, wire, trouble, post, attempt, code, got>>
    BY <1>3 DEF JudgeOk, serverVars, connVars
  <2>2. \E c \in Codes : c < 400 /\ \E k \in 0 .. 2 : got = SubSeq(Body(post, c), 1, k)
    <3>1. CASE got = <<>>
      <4>1. PICK c \in Codes : c < 400
        BY ServerAssumption
      <4>2. SubSeq(Body(post, c), 1, 0) = <<>>
        BY SubSeqEmpty
      <4>3. QED
        BY <3>1, <4>1, <4>2
    <3>2. CASE \E c \in Codes, k \in 0 .. 2 : code = c /\ Prefix(c, k)
      BY <2>1, <3>2 DEF Prefix
    <3>3. QED
      BY <1>1, <3>1, <3>2
  <2>3. OwnAnswer'
    BY <2>1, <2>2 DEF OwnAnswer
  <2>4. Quiet'
    BY <1>1, <2>1 DEF Quiet
  <2>5. QED
    BY <1>1, <2>1, <2>3, <2>4 DEF PostInv, ErrorHasCause, AtStatus, AtHeaders, AtBody, AtJudge
<1>4. QED
  BY <1>2, <1>3

\* No step of the client leaves anything of an answer behind.
LEMMA ClientKeeps ==
    ASSUME PostInv, ClientStep
    PROVE  PostInv'
BY SendKeeps, StatusKeeps, HeadersKeep, ReadBodyKeeps, ChunksKeep, ReadToEndKeeps, ReadFailsKeeps,
   JudgeKeeps DEF ClientStep

\* A post begins on a connection on which nothing is left.
LEMMA StartKeeps ==
    ASSUME PostInv, StartPost
    PROVE  PostInv'
BY DEF PostInv, StartPost, connVars, NoResult, Quiet, OwnAnswer, ErrorHasCause,
       AtStatus, AtHeaders, AtBody, AtJudge

\* Nor does a step of the server.
LEMMA ServerKeeps ==
    ASSUME PostInv, ServerStep, UNCHANGED clientVars
    PROVE  PostInv'
<1>1. UNCHANGED <<has, pc, post, attempt, code, framing, got, result>>
  BY DEF clientVars
<1>2. /\ pc \in {"idle", "send", "status", "headers", "body", "judge"}
      /\ attempt \in {1, 2} /\ live \in BOOLEAN /\ trouble \in BOOLEAN /\ code \in Nat
  BY DEF PostInv
<1>3. (trouble => trouble') /\ trouble' \in BOOLEAN /\ live' \in BOOLEAN
  BY <1>2 DEF ServerStep, BeginAnswer, WritePiece, CloseAfterBody, CloseIdle, Die, Restart, connVars
<1>4. pc \in {"idle", "send", "judge"} => Quiet'
  BY QuietStays DEF PostInv
<1>5. Ended => Ended'
  BY <1>1, QuietStays DEF Ended, Quiet
<1>6. pc = "status" =>
        \/ Waiting' \/ Lost' \/ Cut'
        \/ \E c \in Codes, f \in Framings, j \in 0 .. 5 : Along(c, f, 0, j)'
  <2> SUFFICES ASSUME pc = "status"
               PROVE  \/ Waiting' \/ Lost' \/ Cut'
                      \/ \E c \in Codes, f \in Framings, j \in 0 .. 5 : Along(c, f, 0, j)'
    OBVIOUS
  <2>1. CASE Waiting
    BY <1>2, <2>1, WaitingStays
  <2>2. CASE Lost
    BY <1>1, <1>3, <2>2, QuietStays DEF Lost
  <2>3. CASE Cut
    BY <1>1, <1>3, <2>3 DEF Cut, ServerStep, BeginAnswer, WritePiece, CloseAfterBody, CloseIdle,
         Die, Restart, connVars
  <2>4. CASE \E c \in Codes, f \in Framings, j \in 0 .. 5 : Along(c, f, 0, j)
    BY <1>2, <2>4, AlongStays
  <2>5. QED
    BY <2>1, <2>2, <2>3, <2>4 DEF PostInv, AtStatus
<1>7. AtStatus'
  BY <1>1, <1>6 DEF AtStatus
<1>8. AtHeaders'
  <2>1. CASE pc = "headers" /\ code = 0 /\ Ended /\ trouble
    BY <1>1, <1>3, <1>5, <2>1 DEF PostInv, AtHeaders
  <2>2. CASE pc = "headers" /\ ~(code = 0 /\ Ended /\ trouble)
    <3>1. PICK c \in Codes, f \in Framings, j \in 0 .. 5 : code = c /\ Along(c, f, 1, j)
      BY <2>2 DEF PostInv, AtHeaders
    <3>2. \E k \in 0 .. 5 : Along(c, f, 1, k)'
      BY <1>2, <3>1, AlongStays
    <3>3. got' = <<>> /\ framing' = "none" /\ code' = c
      BY <1>1, <2>2, <3>1 DEF PostInv, AtHeaders
    <3>4. QED
      BY <3>2, <3>3 DEF AtHeaders
  <2>3. QED
    BY <1>1, <2>1, <2>2 DEF AtHeaders
<1>9. AtBody'
  <2>1. CASE pc = "body" /\ framing = "none" /\ Ended
    BY <1>1, <1>5, <2>1 DEF AtBody
  <2>2. CASE pc = "body" /\ ~(framing = "none" /\ Ended)
    <3>1. PICK c \in Codes, f \in Framings, k \in 0 .. 2, j \in 0 .. 5 :
              /\ code = c /\ framing = f /\ (f # "chunked" => k = 0)
              /\ Prefix(c, k) /\ Along(c, f, 2 + k, j)
      BY <2>2 DEF PostInv, AtBody
    <3>2. \E jj \in 0 .. 5 : Along(c, f, 2 + k, jj)'
      <4>1. 2 + k # 0
        OBVIOUS
      <4>2. QED
        BY <1>2, <3>1, <4>1, AlongStays
    <3>3. Prefix(c, k)'
      BY <1>1, <3>1 DEF Prefix
    <3>4. QED
      BY <1>1, <3>1, <3>2, <3>3 DEF AtBody
  <2>3. QED
    BY <1>1, <2>1, <2>2 DEF AtBody
<1>10. AtJudge'
  BY <1>1 DEF PostInv, AtJudge, Prefix
<1>11. OwnAnswer' /\ ErrorHasCause'
  BY <1>1, <1>3 DEF PostInv, OwnAnswer, ErrorHasCause
<1>12. QED
  BY <1>1, <1>2, <1>3, <1>4, <1>7, <1>8, <1>9, <1>10, <1>11 DEF PostInv

\* What neither the connection nor the client sees changes nothing.
LEMMA PostInvStutter ==
    ASSUME PostInv, UNCHANGED <<connVars, trouble, clientVars>>
    PROVE  PostInv'
<1>1. /\ UNCHANGED <<live, owed, sending, wire, trouble>>
      /\ UNCHANGED <<has, pc, post, attempt, code, framing, got, result>>
  BY DEF connVars, clientVars
<1>2. /\ Quiet' <=> Quiet
      /\ Waiting' <=> Waiting
      /\ Lost' <=> Lost
      /\ Cut' <=> Cut
      /\ Ended' <=> Ended
  BY <1>1 DEF Quiet, Waiting, Lost, Cut, Ended
<1>3. ASSUME NEW c, NEW f, NEW i, NEW j
      PROVE  Along(c, f, i, j)' <=> Along(c, f, i, j)
  BY <1>1 DEF Along
<1>4. ASSUME NEW c, NEW k
      PROVE  Prefix(c, k)' <=> Prefix(c, k)
  BY <1>1 DEF Prefix
<1>5. AtStatus'
  BY <1>1, <1>2, <1>3 DEF PostInv, AtStatus
<1>6. AtHeaders'
  BY <1>1, <1>2, <1>3 DEF PostInv, AtHeaders
<1>7. AtBody'
  BY <1>1, <1>2, <1>3, <1>4 DEF PostInv, AtBody
<1>8. AtJudge'
  BY <1>1, <1>4 DEF PostInv, AtJudge
<1>9. OwnAnswer' /\ ErrorHasCause'
  BY <1>1 DEF PostInv, OwnAnswer, ErrorHasCause
<1>10. QED
  BY <1>1, <1>2, <1>5, <1>6, <1>7, <1>8, <1>9 DEF PostInv

\* At first there is no connection.
LEMMA PostInvInit ==
    ASSUME Init
    PROVE  PostInv
BY DEF Init, ServerInit, NoResult, PostInv, OwnAnswer, ErrorHasCause, Quiet, AtStatus, AtHeaders,
       AtBody, AtJudge

-----------------------------------------------------------------------------
(***************************************************************************)
(* One client and its server.                                              *)
(***************************************************************************)

\* The invariant holds of every execution of the client.
THEOREM PostInvariant == Spec => []PostInv
<1>1. Init => PostInv
  BY PostInvInit
<1>2. PostInv /\ [Next]_vars => PostInv'
  <2> SUFFICES ASSUME PostInv, [Next]_vars
               PROVE  PostInv'
    OBVIOUS
  <2>1. CASE StartPost
    BY <2>1, StartKeeps
  <2>2. CASE ClientStep
    BY <2>2, ClientKeeps
  <2>3. CASE ServerStep /\ UNCHANGED clientVars
    BY <2>3, ServerKeeps
  <2>4. CASE UNCHANGED vars
    BY <2>4, PostInvStutter DEF vars, serverVars
  <2>5. QED
    BY <2>1, <2>2, <2>3, <2>4 DEF Next
<1>3. QED
  BY <1>1, <1>2, PTL DEF Spec

\* A post returns of the body of the answer to its own request, and of its
\* beginning; it fails only if the server does, on a connection made for it.
THEOREM ClientAnswers == Spec => [](OwnAnswer /\ ErrorHasCause)
<1>1. PostInv => OwnAnswer /\ ErrorHasCause
  BY DEF PostInv
<1>2. QED
  BY <1>1, PostInvariant, PTL

-----------------------------------------------------------------------------
(***************************************************************************)
(* The session.                                                            *)
(***************************************************************************)
SessionInv ==
    /\ PostInv
    /\ sess \in {"start", "polling", "over", "failed"} => pc = "idle"
    /\ sess = "start" => child = "none"
    /\ owner = "child" => child = "serving"
    /\ NoOrphan

\* The guard closes the connections of the backend that it kills, when no
\* post is under way.
LEMMA KillKeeps ==
    ASSUME PostInv, pc = "idle", KillChild
    PROVE  PostInv' /\ pc' = "idle" /\ child' \in {"none", "exited"} /\ owner' # "child"
<1>1. Quiet
  BY DEF PostInv
<1>2. /\ Quiet' /\ live' \in BOOLEAN
      /\ trouble' = trouble /\ UNCHANGED <<has, pc, post, attempt, code, framing, got, result>>
  BY <1>1 DEF PostInv, Quiet, KillChild, clientVars
<1>3. child' \in {"none", "exited"} /\ owner' # "child"
  BY DEF KillChild
<1>4. QED
  BY <1>2, <1>3 DEF PostInv, OwnAnswer, ErrorHasCause, AtStatus, AtHeaders, AtBody, AtJudge

\* A session begins without a backend of its own.
LEMMA SessionInvInit ==
    ASSUME ReplInit
    PROVE  SessionInv
<1>1. PostInv
  BY PostInvInit DEF ReplInit
<1>2. QED
  BY <1>1 DEF ReplInit, Init, SessionInv, NoOrphan

\* The backend is started, binds its port or does not, and is killed.
LEMMA BackendKeeps ==
    ASSUME SessionInv,
           UseGiven \/ Polling \/ Bind \/ OtherBinds \/ ChildExits \/ EndOfInput \/ KillSession
    PROVE  SessionInv'
<1>1. PostInv
  BY DEF SessionInv
<1>2. CASE UseGiven
  <2>1. PostInv'
    BY <1>1, <1>2, PostInvStutter DEF UseGiven, vars, serverVars
  <2>2. QED
    BY <1>2, <2>1 DEF SessionInv, NoOrphan, UseGiven
<1>3. CASE SpawnBackend \/ SpawnBackendFails \/ PollSucceeds
  <2>1. PostInv' /\ pc' = pc
    BY <1>1, <1>3, PostInvStutter
       DEF SpawnBackend, SpawnBackendFails, PollSucceeds, vars, serverVars, clientVars
  <2>2. QED
    BY <1>3, <2>1 DEF SessionInv, NoOrphan, SpawnBackend, SpawnBackendFails, PollSucceeds
<1>4. CASE Deadline \/ EndOfInput
  <2>1. pc = "idle" /\ KillChild /\ sess' \in {"failed", "over"}
    BY <1>4 DEF SessionInv, Deadline, EndOfInput, AtPrompt
  <2>2. PostInv' /\ pc' = "idle" /\ child' \in {"none", "exited"} /\ owner' # "child"
    BY <1>1, <2>1, KillKeeps
  <2>3. QED
    BY <2>1, <2>2 DEF SessionInv, NoOrphan
<1>5. CASE Bind \/ OtherBinds \/ ChildExits
  <2>1. PostInv' /\ pc' = pc
    BY <1>1, <1>5, PostInvStutter DEF Bind, OtherBinds, ChildExits, clientVars
  <2>2. /\ child = "loading" /\ sess' = sess
        /\ owner' = "child" => child' = "serving" \/ owner = "child"
    BY <1>5 DEF Bind, OtherBinds, ChildExits
  <2>3. QED
    BY <2>1, <2>2 DEF SessionInv, NoOrphan
<1>6. CASE KillSession
  <2>1. PostInv' /\ pc' = pc
    BY <1>1, <1>6, PostInvStutter DEF KillSession, clientVars
  <2>2. sess' = "killed" /\ UNCHANGED <<child, owner>>
    BY <1>6 DEF KillSession
  <2>3. QED
    BY <2>1, <2>2 DEF SessionInv, NoOrphan
<1>7. QED
  BY <1>2, <1>3, <1>4, <1>5, <1>6 DEF Polling

\* Commands are read, and make their posts.
LEMMA LoopKeeps ==
    ASSUME SessionInv,
           ReadLine \/ Loop \/ (ClientStep /\ sess = "open" /\ UNCHANGED replVars)
    PROVE  SessionInv'
<1>1. PostInv
  BY DEF SessionInv
<1>2. CASE ReadLine \/ CommandFails
  <2>1. PostInv' /\ pc' = pc
    BY <1>1, <1>2, PostInvStutter DEF ReadLine, CommandFails, vars, serverVars, clientVars
  <2>2. UNCHANGED <<sess, child, owner>>
    BY <1>2 DEF ReadLine, CommandFails
  <2>3. QED
    BY <2>1, <2>2 DEF SessionInv, NoOrphan
<1>3. CASE NextPost
  <2>1. PostInv'
    BY <1>1, <1>3, StartKeeps DEF NextPost
  <2>2. sess' = "open" /\ UNCHANGED <<child, owner>>
    BY <1>3 DEF NextPost
  <2>3. QED
    BY <2>1, <2>2 DEF SessionInv, NoOrphan
<1>4. CASE ClientStep /\ sess = "open" /\ UNCHANGED replVars
  <2>1. PostInv'
    BY <1>1, <1>4, ClientKeeps
  <2>2. sess' = "open" /\ UNCHANGED <<child, owner>>
    BY <1>4 DEF replVars
  <2>3. QED
    BY <2>1, <2>2 DEF SessionInv, NoOrphan
<1>5. QED
  BY <1>2, <1>3, <1>4 DEF Loop

\* The server serves, whoever started it.
LEMMA ServesKeeps ==
    ASSUME SessionInv, Serves, UNCHANGED <<clientVars, auto, sess, left, first>>
    PROVE  SessionInv'
<1>1. ServerStep
  BY DEF Serves, ServerStep
<1>2. PostInv' /\ pc' = pc
  BY <1>1, ServerKeeps DEF SessionInv, clientVars
<1>3. /\ child' = child \/ (child' = "exited" /\ owner = "child")
      /\ owner' = "child" => owner = "child" /\ child' = child
  BY DEF Serves
<1>4. QED
  BY <1>2, <1>3 DEF SessionInv, NoOrphan

\* The invariant holds of every execution of a session.
THEOREM SessionInvariant == ReplSpec => []SessionInv
<1>1. ReplInit => SessionInv
  BY SessionInvInit
<1>2. SessionInv /\ [ReplNext]_allVars => SessionInv'
  <2> SUFFICES ASSUME SessionInv, [ReplNext]_allVars
               PROVE  SessionInv'
    OBVIOUS
  <2>1. CASE UseGiven \/ Polling \/ Bind \/ OtherBinds \/ ChildExits \/ EndOfInput \/ KillSession
    BY <2>1, BackendKeeps
  <2>2. CASE ReadLine \/ Loop \/ (ClientStep /\ sess = "open" /\ UNCHANGED replVars)
    BY <2>2, LoopKeeps
  <2>3. CASE Serves /\ UNCHANGED <<clientVars, auto, sess, left, first>>
    BY <2>3, ServesKeeps
  <2>4. CASE UNCHANGED allVars
    <3>1. PostInv' /\ UNCHANGED <<pc, sess, child, owner>>
      BY <2>4, PostInvStutter DEF SessionInv, allVars, vars, serverVars, clientVars, replVars
    <3>2. QED
      BY <3>1 DEF SessionInv, NoOrphan
  <2>5. QED
    BY <2>1, <2>2, <2>3, <2>4 DEF ReplNext
<1>3. QED
  BY <1>1, <1>2, PTL DEF ReplSpec

\* Over a session too every post returns of the answer to its own request:
\* what the session does to its backend leaves nothing on the connection.
THEOREM SessionOwnAnswer == ReplSpec => []OwnAnswer
<1>1. SessionInv => OwnAnswer
  BY DEF SessionInv, PostInv
<1>2. QED
  BY <1>1, SessionInvariant, PTL

\* A command of a session fails only if the server fails during the second
\* attempt of a post, or answers it with an error.
THEOREM SessionErrorHasCause == ReplSpec => []ErrorHasCause
<1>1. SessionInv => ErrorHasCause
  BY DEF SessionInv, PostInv
<1>2. QED
  BY <1>1, SessionInvariant, PTL

\* A session that has ended by itself leaves no http_server behind that it
\* has started.
THEOREM SessionLeavesNoOrphan == ReplSpec => []NoOrphan
<1>1. SessionInv => NoOrphan
  BY DEF SessionInv
<1>2. QED
  BY <1>1, SessionInvariant, PTL
=============================================================================
