--------------------------- MODULE Framing_proofs ---------------------------
(***************************************************************************)
(* The receive buffer never overflows, for every block size and every      *)
(* stream, '\0' bytes included; without them no byte of the stream is      *)
(* lost, and what is written out are single lines.                         *)
(***************************************************************************)
EXTENDS Framing, NatLemmas, FiniteSetTheorems

\* strlen of a received string is at most the number of bytes received.
LEMMA StrLenBound ==
  ASSUME NEW w \in Seq(Byte)
  PROVE  /\ StrLen(w) \in 0..Len(w)
         /\ CString(w) \in Seq(Byte)
         /\ Len(CString(w)) = StrLen(w)
<1> DEFINE I == {i \in 1..Len(w) : w[i] = NUL}
           nul == Min(I)
<1>1. I # {} => nul \in 1..Len(w)
  BY FirstPosition
<1> HIDE DEF nul
<1>2. StrLen(w) = IF (IF I # {} THEN nul ELSE 0) = 0 THEN Len(w)
                  ELSE (IF I # {} THEN nul ELSE 0) - 1
  BY DEF StrLen, SelectInSeq, nul
<1>3. Len(w) \in Nat
  BY LenProperties
<1> HIDE DEF I
<1>4. StrLen(w) \in 0..Len(w)
  BY <1>1, <1>2, <1>3
<1> DEFINE l == StrLen(w)
<1> HIDE DEF l
<1>5. l \in 0..Len(w) /\ CString(w) = SubSeq(w, 1, l)
  BY <1>4 DEF CString, l
<1>6. CString(w) \in Seq(Byte) /\ Len(CString(w)) = l
  BY <1>3, <1>5, SubSeqProperties
<1> QED
  BY <1>4, <1>6 DEF l

\* The part of a recv() up to its first newline is not empty and within it.
LEMMA CurrLenBound ==
  ASSUME NEW w \in Seq(Byte), Len(w) # 0
  PROVE  CurrLen(w) \in 1..Len(w)
<1> DEFINE I == {i \in 1..Len(w) : w[i] = NL}
           nl == Min(I)
<1>1. I # {} => nl \in 1..Len(w)
  BY FirstPosition
<1> HIDE DEF nl
<1>2. CurrLen(w) = IF (IF I # {} THEN nl ELSE 0) = 0 THEN Len(w)
                   ELSE (IF I # {} THEN nl ELSE 0)
  BY DEF CurrLen, SelectInSeq, nl
<1>3. Len(w) \in Nat
  BY LenProperties
<1> HIDE DEF I
<1> QED
  BY <1>1, <1>2, <1>3

\* append_string leaves room for the string, the bytes appended and the '\0'.
LEMMA GrownSuffices ==
  ASSUME NEW max \in Nat, NEW len \in Nat, NEW n \in Nat, max > 0
  PROVE  /\ Grown(max, len, n) \in Nat
         /\ Grown(max, len, n) >= len + n + 1
         /\ Grown(max, len, n) >= max
BY DEF Grown

-----------------------------------------------------------------------------
FramingType ==
  /\ text \in Seq(Byte) /\ buflen \in Nat /\ maxbuflen \in Nat /\ room \in Int

FramingInv == FramingType /\ BufferFits

LEMMA ReceiveKeepsFit ==
  ASSUME FramingInv, NEW w \in Chunks, Receive(w)
  PROVE  FramingInv'
<1> DEFINE n == CurrLen(w)
           head == SubSeq(w, 1, n)
           rest == SubSeq(w, n + 1, Len(w))
           line == text \o CString(head)
           max1 == Grown(maxbuflen, buflen, n)
<1>1. /\ text \in Seq(Byte) /\ buflen \in Nat /\ maxbuflen \in Nat
      /\ Len(text) <= buflen /\ buflen + 1 <= maxbuflen
  BY DEF FramingInv, FramingType, BufferFits
<1>2. w \in Seq(Byte) /\ Len(w) \in Nat /\ Len(w) # 0
  BY ChunksAssumption, BufferSizeAssumption, LenProperties
<1>3. n \in 1..Len(w)
  BY <1>2, CurrLenBound
<1>4. /\ room' = max1 - (Len(line) + 1)
      /\ HasNL(w) => /\ text' = CString(rest) /\ buflen' = Len(rest)
                     /\ maxbuflen' = Grown(max1, Len(rest), Len(rest))
      /\ ~HasNL(w) => text' = line /\ buflen' = buflen + n /\ maxbuflen' = max1
  BY DEF Receive
<1> HIDE DEF n
<1>5. head \in Seq(Byte) /\ Len(head) = n
  BY <1>2, <1>3, SubSeqProperties
<1>6. rest \in Seq(Byte) /\ Len(rest) \in Nat
  <2>1. \A i \in (n + 1)..Len(w) : w[i] \in Byte
    BY <1>2, <1>3, ElementOfSeq
  <2> QED
    BY <1>2, <1>3, <2>1, SubSeqProperties, LenProperties
<1>7. /\ CString(head) \in Seq(Byte) /\ Len(CString(head)) \in 0..n
      /\ CString(rest) \in Seq(Byte) /\ Len(CString(rest)) \in 0..Len(rest)
  BY <1>5, <1>6, StrLenBound
<1>8. line \in Seq(Byte) /\ Len(line) = Len(text) + Len(CString(head))
  BY <1>1, <1>7, ConcatProperties
<1>9. max1 \in Nat /\ max1 >= buflen + n + 1 /\ max1 >= maxbuflen
  <2>1. n \in Nat /\ maxbuflen > 0
    BY <1>1, <1>2, <1>3
  <2> QED
    BY <1>1, <2>1, GrownSuffices
<1> HIDE DEF head, rest, line, max1
<1>10. Len(line) \in Nat /\ Len(line) <= buflen + n
  BY <1>1, <1>2, <1>3, <1>7, <1>8, LenProperties
<1>11. room' \in Int /\ room' >= 0
  BY <1>1, <1>2, <1>3, <1>4, <1>9, <1>10
<1>12. CASE HasNL(w)
  <2> DEFINE l == Len(rest)
  <2>1. l \in Nat
    BY <1>6
  <2>2. text' \in Seq(Byte) /\ Len(text') <= buflen' /\ buflen' = l
    BY <1>4, <1>6, <1>7, <1>12
  <2>3. maxbuflen' = Grown(max1, l, l)
    BY <1>4, <1>12
  <2> HIDE DEF l
  <2>4. max1 \in Nat /\ max1 > 0
    BY <1>1, <1>9
  <2>5. maxbuflen' \in Nat /\ maxbuflen' >= l + l + 1
    BY <2>1, <2>3, <2>4, GrownSuffices
  <2> QED
    BY <1>11, <2>1, <2>2, <2>5 DEF FramingInv, FramingType, BufferFits
<1>13. CASE ~HasNL(w)
  BY <1>1, <1>2, <1>3, <1>4, <1>8, <1>9, <1>10, <1>11, <1>13
  DEF FramingInv, FramingType, BufferFits
<1> QED
  BY <1>12, <1>13

(***************************************************************************)
(* append_string never overflows the receive buffer of a connection,       *)
(* whatever the client sends and however recv() splits it.                 *)
(***************************************************************************)
THEOREM ReceiveBufferFits == FSpec => []BufferFits
<1>1. FInit => FramingInv
  BY BufferSizeAssumption DEF FInit, FramingInv, FramingType, BufferFits
<1>2. FramingInv /\ [FNext]_fvars => FramingInv'
  <2> SUFFICES ASSUME FramingInv, [FNext]_fvars
               PROVE  FramingInv'
    OBVIOUS
  <2>1. CASE FNext
    BY <2>1, ReceiveKeepsFit DEF FNext
  <2>2. CASE UNCHANGED fvars
    BY <2>2 DEF fvars, FramingInv, FramingType, BufferFits
  <2> QED
    BY <2>1, <2>2
<1>3. FramingInv => BufferFits
  BY DEF FramingInv
<1> QED
  BY <1>1, <1>2, <1>3, PTL DEF FSpec


-----------------------------------------------------------------------------
(* What is written and what is kept *)

\* The two parts of a recv(), around the end of its first line.
LinePart(w) == SubSeq(w, 1, CurrLen(w))
RestPart(w) == SubSeq(w, CurrLen(w) + 1, Len(w))

LEMMA Parts ==
  ASSUME NEW w \in Seq(Byte), Len(w) # 0
  PROVE  /\ CurrLen(w) \in 1..Len(w)
         /\ LinePart(w) \in Seq(Byte) /\ Len(LinePart(w)) = CurrLen(w)
         /\ \A i \in 1..CurrLen(w) : LinePart(w)[i] = w[i]
         /\ RestPart(w) \in Seq(Byte) /\ Len(RestPart(w)) = Len(w) - CurrLen(w)
         /\ \A i \in 1..(Len(w) - CurrLen(w)) : RestPart(w)[i] = w[CurrLen(w) + i]
<1> DEFINE n == CurrLen(w)
           l == Len(w)
<1>1. n \in 1..l /\ l \in Nat
  BY CurrLenBound, LenProperties
<1>2. \A i \in 1..l : w[i] \in Byte
  BY ElementOfSeq
<1>3. LinePart(w) = SubSeq(w, 1, n) /\ RestPart(w) = SubSeq(w, n + 1, l)
  BY DEF LinePart, RestPart
<1> HIDE DEF n, l
<1>4. /\ SubSeq(w, 1, n) \in Seq(Byte) /\ Len(SubSeq(w, 1, n)) = n
      /\ \A i \in 1..n : SubSeq(w, 1, n)[i] = w[i]
  <2>1. \A i \in 1..n : w[i] \in Byte
    BY <1>1, <1>2
  <2>2. /\ SubSeq(w, 1, n) \in Seq(Byte)
        /\ Len(SubSeq(w, 1, n)) = IF 1 <= n THEN n - 1 + 1 ELSE 0
        /\ \A i \in 1..(n - 1 + 1) : SubSeq(w, 1, n)[i] = w[1 + i - 1]
    BY <1>1, <2>1, SubSeqProperties
  <2>3. 1 <= n /\ n - 1 + 1 = n /\ \A i \in 1..n : 1 + i - 1 = i
    BY <1>1
  <2> QED BY <2>2, <2>3
<1>5. /\ SubSeq(w, n + 1, l) \in Seq(Byte) /\ Len(SubSeq(w, n + 1, l)) = l - n
      /\ \A i \in 1..(l - n) : SubSeq(w, n + 1, l)[i] = w[n + i]
  <2>1. \A i \in (n + 1)..l : w[i] \in Byte
    BY <1>1, <1>2
  <2>2. /\ SubSeq(w, n + 1, l) \in Seq(Byte)
        /\ Len(SubSeq(w, n + 1, l)) = IF n + 1 <= l THEN l - (n + 1) + 1 ELSE 0
        /\ \A i \in 1..(l - (n + 1) + 1) : SubSeq(w, n + 1, l)[i] = w[(n + 1) + i - 1]
    BY <1>1, <2>1, SubSeqProperties, SMTT(30)
  <2>3. /\ l - (n + 1) + 1 = l - n /\ \A i \in 1..(l - n) : (n + 1) + i - 1 = n + i
        /\ (IF n + 1 <= l THEN l - n ELSE 0) = l - n
    BY <1>1
  <2> QED BY <2>2, <2>3
<1> QED BY <1>1, <1>3, <1>4, <1>5 DEF n, l

\* They are the recv(), one after the other.
LEMMA PartsConcatenate ==
  ASSUME NEW w \in Seq(Byte), Len(w) # 0
  PROVE  LinePart(w) \o RestPart(w) = w
<1> DEFINE n == CurrLen(w)
           l == Len(w)
<1>1. n \in 1..l /\ l \in Nat
  BY CurrLenBound, LenProperties
<1> HIDE DEF n
<1>2. 1 \in 1..(l + 1) /\ n \in (1 - 1)..l /\ l \in n..l
  BY <1>1
<1>3. SubSeq(w, 1, n) \o SubSeq(w, n + 1, l) = SubSeq(w, 1, l)
  BY <1>2, ConcatAdjacentSubSeq
<1> QED
  BY <1>3, SubSeqFull DEF n, LinePart, RestPart

\* The first newline is the last byte of the first part.
LEMMA FirstLine ==
  ASSUME NEW w \in Seq(Byte), Len(w) # 0
  PROVE  /\ HasNL(w) => w[CurrLen(w)] = NL
         /\ ~HasNL(w) => CurrLen(w) = Len(w)
         /\ \A i \in 1..(CurrLen(w) - 1) : w[i] # NL
<1> DEFINE I == {i \in 1..Len(w) : w[i] = NL}
           nl == Min(I)
<1>0. Len(w) \in Nat
  BY LenProperties
<1>1. I # {} => nl \in 1..Len(w) /\ w[nl] = NL /\ \A i \in 1..(nl - 1) : w[i] # NL
  BY FirstPosition
<1>2. HasNL(w) <=> I # {}
  BY DEF HasNL, Contains
<1> HIDE DEF nl
<1>3. CurrLen(w) = IF (IF I # {} THEN nl ELSE 0) = 0 THEN Len(w)
                   ELSE (IF I # {} THEN nl ELSE 0)
  BY DEF CurrLen, SelectInSeq, nl
<1>4. I = {} => \A i \in 1..Len(w) : w[i] # NL
  OBVIOUS
<1> HIDE DEF I
<1>5. CASE I = {}
  <2>1. CurrLen(w) = Len(w)
    BY <1>3, <1>5
  <2> QED BY <1>0, <1>2, <1>4, <1>5, <2>1
<1>6. CASE I # {}
  <2>1. nl # 0
    BY <1>0, <1>1, <1>6
  <2>2. CurrLen(w) = nl
    BY <1>3, <1>6, <2>1
  <2> QED BY <1>1, <1>2, <1>6, <2>2
<1> QED BY <1>5, <1>6

\* strncat copies a string without '\0' whole.
LEMMA WholeString ==
  ASSUME NEW w \in Seq(Byte), ~Contains(w, NUL)
  PROVE  CString(w) = w
<1> DEFINE I == {i \in 1..Len(w) : w[i] = NUL}
<1>1. I = {}
  BY DEF Contains
<1>2. StrLen(w) = Len(w)
  BY <1>1 DEF StrLen, SelectInSeq
<1> QED BY <1>2, SubSeqFull DEF CString

\* What is in neither of two strings is not in their concatenation.
LEMMA ContainsConcat ==
  ASSUME NEW s \in Seq(Byte), NEW t \in Seq(Byte), NEW c
  PROVE  Contains(s \o t, c) <=> Contains(s, c) \/ Contains(t, c)
<1> DEFINE u == s \o t
<1>1. Len(s) \in Nat /\ Len(t) \in Nat
  BY LenProperties
<1>2. /\ Len(u) = Len(s) + Len(t)
      /\ \A i \in 1..(Len(s) + Len(t)) : u[i] = IF i <= Len(s) THEN s[i] ELSE t[i - Len(s)]
  BY ConcatProperties
<1> HIDE DEF u
<1>3. ASSUME NEW i \in 1..Len(s), s[i] = c PROVE Contains(u, c)
  <2>1. i \in 1..Len(u) /\ u[i] = s[i]
    BY <1>1, <1>2
  <2> QED BY <1>3, <2>1 DEF Contains
<1>4. ASSUME NEW i \in 1..Len(t), t[i] = c PROVE Contains(u, c)
  <2>1. Len(s) + i \in 1..Len(u) /\ ~(Len(s) + i <= Len(s)) /\ (Len(s) + i) - Len(s) = i
    BY <1>1, <1>2
  <2>2. u[Len(s) + i] = t[i]
    BY <1>2, <2>1
  <2> QED BY <1>4, <2>1, <2>2 DEF Contains
<1>5. ASSUME NEW i \in 1..Len(u), u[i] = c PROVE Contains(s, c) \/ Contains(t, c)
  <2>1. CASE i <= Len(s)
    <3>1. i \in 1..Len(s) /\ s[i] = c
      BY <1>1, <1>2, <1>5, <2>1
    <3> QED BY <3>1 DEF Contains
  <2>2. CASE ~(i <= Len(s))
    <3>1. i - Len(s) \in 1..Len(t) /\ t[i - Len(s)] = c
      BY <1>1, <1>2, <1>5, <2>2
    <3> QED BY <3>1 DEF Contains
  <2> QED BY <2>1, <2>2
<1>6. Contains(u, c) <=> Contains(s, c) \/ Contains(t, c)
  BY <1>3, <1>4, <1>5 DEF Contains
<1> QED BY <1>6 DEF u

-----------------------------------------------------------------------------
(* No byte is lost *)

HistoryType ==
  /\ text \in Seq(Byte)
  /\ received \in Seq(Seq(Byte)) /\ written \in Seq(Seq(Byte))

\* What one recv() adds to the histories, whatever bytes it brings.
LEMMA ReceiveHistory ==
  ASSUME HistoryType, NEW w \in Chunks, Receive(w)
  PROVE  /\ w \in Seq(Byte) /\ Len(w) # 0
         /\ HistoryType'
         /\ Received \in Seq(Byte) /\ Received' = Received \o w
         /\ received' = Append(received, w)
<1> DEFINE head == CString(LinePart(w))
           rest == CString(RestPart(w))
<1>1. w \in Seq(Byte) /\ Len(w) # 0
  BY ChunksAssumption, BufferSizeAssumption, LenProperties
<1>2. head \in Seq(Byte) /\ rest \in Seq(Byte)
  BY <1>1, Parts, StrLenBound
<1>3. /\ received' = Append(received, w)
      /\ HasNL(w) => written' = Append(written, text \o head) /\ text' = rest
      /\ ~HasNL(w) => written' = written /\ text' = text \o head
  BY DEF Receive, LinePart, RestPart
<1> HIDE DEF head, rest
<1>4. text \in Seq(Byte) /\ received \in Seq(Seq(Byte)) /\ written \in Seq(Seq(Byte))
  BY DEF HistoryType
<1>5. text \o head \in Seq(Byte)
  BY <1>2, <1>4, ConcatProperties
<1>6. HistoryType'
  <2>1. received' \in Seq(Seq(Byte))
    BY <1>1, <1>3, <1>4, AppendProperties
  <2>2. Append(written, text \o head) \in Seq(Seq(Byte))
    BY <1>4, <1>5, AppendProperties
  <2> QED
    BY <1>2, <1>3, <1>4, <1>5, <2>1, <2>2 DEF HistoryType
<1>7. Received \in Seq(Byte) /\ Received' = Received \o w
  <2>1. FlattenSeq(received) \in Seq(Byte)
    BY <1>1, <1>4, FlattenAppend
  <2>2. FlattenSeq(Append(received, w)) = FlattenSeq(received) \o w
    BY <1>1, <1>4, FlattenAppend
  <2> QED
    BY <1>3, <2>1, <2>2 DEF Received
<1> QED
  BY <1>1, <1>3, <1>6, <1>7

\* Without '\0' bytes strncat copies both parts whole.
LEMMA ReceivePlain ==
  ASSUME HistoryType, NEW w \in Chunks, Receive(w), ~Contains(Received', NUL)
  PROVE  /\ ~Contains(Received, NUL)
         /\ HasNL(w) => /\ written' = Append(written, text \o LinePart(w))
                        /\ text' = RestPart(w)
         /\ ~HasNL(w) => written' = written /\ text' = text \o w
<1>1. /\ w \in Seq(Byte) /\ Len(w) # 0
      /\ Received \in Seq(Byte) /\ Received' = Received \o w
  BY ReceiveHistory
<1>2. ~Contains(Received, NUL) /\ ~Contains(w, NUL)
  BY <1>1, ContainsConcat
<1>3. LinePart(w) \in Seq(Byte) /\ RestPart(w) \in Seq(Byte)
  BY <1>1, Parts
<1>4. ~Contains(LinePart(w), NUL) /\ ~Contains(RestPart(w), NUL)
  <2> DEFINE a == LinePart(w)
             b == RestPart(w)
  <2>1. a \o b = w
    BY <1>1, PartsConcatenate
  <2>2. a \in Seq(Byte) /\ b \in Seq(Byte)
    BY <1>3
  <2> HIDE DEF a, b
  <2>3. Contains(a \o b, NUL) <=> Contains(a, NUL) \/ Contains(b, NUL)
    BY <2>2, ContainsConcat
  <2>4. ~Contains(a, NUL) /\ ~Contains(b, NUL)
    BY <1>2, <2>1, <2>3
  <2> QED
    BY <2>4 DEF a, b
<1>5. CString(LinePart(w)) = LinePart(w) /\ CString(RestPart(w)) = RestPart(w)
  BY <1>3, <1>4, WholeString
<1>6. ~HasNL(w) => LinePart(w) = w
  BY <1>1, FirstLine, SubSeqFull DEF LinePart
<1>7. /\ HasNL(w) => /\ written' = Append(written, text \o CString(LinePart(w)))
                     /\ text' = CString(RestPart(w))
      /\ ~HasNL(w) => written' = written /\ text' = text \o CString(LinePart(w))
  BY DEF Receive, LinePart, RestPart
<1> QED
  BY <1>2, <1>5, <1>6, <1>7

LEMMA ReceiveKeepsBytes ==
  ASSUME HistoryType, NothingLost, NEW w \in Chunks, Receive(w)
  PROVE  NothingLost'
<1> SUFFICES ASSUME ~Contains(Received', NUL)
             PROVE  FlattenSeq(written') \o text' = Received'
  BY DEF NothingLost
<1>0. \A s, t, u \in Seq(Byte) : (s \o t) \o u = s \o (t \o u)
  BY ConcatAssociative
<1> DEFINE out == FlattenSeq(written)
           a == LinePart(w)
           b == RestPart(w)
<1>1. /\ w \in Seq(Byte) /\ Len(w) # 0
      /\ Received \in Seq(Byte) /\ Received' = Received \o w
  BY ReceiveHistory
<1>2. /\ ~Contains(Received, NUL)
      /\ HasNL(w) => written' = Append(written, text \o a) /\ text' = b
      /\ ~HasNL(w) => written' = written /\ text' = text \o w
  BY ReceivePlain
<1>3. out \o text = Received
  BY <1>2 DEF NothingLost
<1>4. a \in Seq(Byte) /\ b \in Seq(Byte) /\ a \o b = w
  BY <1>1, Parts, PartsConcatenate
<1>5. text \in Seq(Byte) /\ written \in Seq(Seq(Byte))
  BY DEF HistoryType
<1>6. text \o a \in Seq(Byte)
  BY <1>4, <1>5, ConcatProperties
<1>7. out \in Seq(Byte) /\ FlattenSeq(Append(written, text \o a)) = out \o (text \o a)
  BY <1>5, <1>6, FlattenAppend
<1> HIDE DEF out, a, b
<1>8. CASE HasNL(w)
  <2>1. out \o (text \o a) = Received \o a
    <3>1. (out \o text) \o a = out \o (text \o a)
      BY <1>0, <1>4, <1>5, <1>7
    <3> QED
      BY <1>3, <3>1
  <2>2. (Received \o a) \o b = Received \o w
    <3>1. (Received \o a) \o b = Received \o (a \o b)
      BY <1>0, <1>1, <1>4
    <3> QED
      BY <1>4, <3>1
  <2> QED
    BY <1>1, <1>2, <1>7, <1>8, <2>1, <2>2
<1>9. CASE ~HasNL(w)
  <2>1. out \o (text \o w) = Received \o w
    <3>1. (out \o text) \o w = out \o (text \o w)
      BY <1>0, <1>1, <1>5, <1>7
    <3> QED
      BY <1>3, <3>1
  <2> QED
    BY <1>1, <1>2, <1>9, <2>1 DEF out
<1> QED
  BY <1>8, <1>9

LEMMA HistoryInit == FInit => HistoryType /\ NothingLost
<1> SUFFICES ASSUME FInit PROVE HistoryType /\ NothingLost
  OBVIOUS
<1>1. text = << >> /\ written = << >> /\ received = << >>
  BY DEF FInit
<1>2. << >> \in Seq(Byte) /\ << >> \in Seq(Seq(Byte))
  BY EmptySeq
<1>3. FlattenSeq(<< >>) = << >>
  BY <1>2, FlattenAppend
<1>4. << >> \o << >> = << >>
  BY <1>2, ConcatEmptySeq
<1> QED
  BY <1>1, <1>2, <1>3, <1>4 DEF HistoryType, NothingLost, Received

(***************************************************************************)
(* However recv() splits a stream without '\0' bytes, what was written to  *)
(* the data file followed by what waits in the buffer is the stream.       *)
(***************************************************************************)
THEOREM ReceiveLosesNothing == FSpec => []NothingLost
<1>1. HistoryType /\ NothingLost /\ [FNext]_fvars => HistoryType' /\ NothingLost'
  <2> SUFFICES ASSUME HistoryType, NothingLost, [FNext]_fvars
               PROVE  HistoryType' /\ NothingLost'
    OBVIOUS
  <2>1. CASE FNext
    BY <2>1, ReceiveHistory, ReceiveKeepsBytes DEF FNext
  <2>2. CASE UNCHANGED fvars
    BY <2>2 DEF fvars, HistoryType, NothingLost, Received
  <2> QED
    BY <2>1, <2>2
<1> QED
  BY <1>1, HistoryInit, PTL DEF FSpec

-----------------------------------------------------------------------------
(* Each write is a line *)

\* A set of positions with at most one member has no two different ones.
LEMMA AtMostOne ==
  ASSUME NEW w \in Seq(Byte), Cardinality(Newlines(w)) <= 1,
         NEW i \in Newlines(w), NEW j \in Newlines(w)
  PROVE  i = j
<1> SUFFICES ASSUME i # j PROVE FALSE
  OBVIOUS
<1>1. IsFiniteSet(1..Len(w))
  <2>1. 1 \in Int /\ Len(w) \in Int
    BY LenProperties
  <2> QED
    BY <2>1, FS_Interval, Zenon
<1>2. Newlines(w) \in SUBSET (1..Len(w))
  BY DEF Newlines
<1>3. IsFiniteSet(Newlines(w))
  BY <1>1, <1>2, FS_Subset
<1> DEFINE one == Cardinality({i})
           two == Cardinality({i} \cup {j})
           all == Cardinality(Newlines(w))
<1>4. IsFiniteSet({i}) /\ one = 1
  BY FS_Singleton, Zenon
<1>5. two = IF j \in {i} THEN one ELSE one + 1
  BY <1>4, FS_AddElement, Zenon
<1>6. j \notin {i} /\ {i} \cup {j} \in SUBSET Newlines(w)
  OBVIOUS
<1>7. two <= all
  BY <1>3, <1>6, FS_Subset, Zenon
<1>8. all \in Nat /\ all <= 1
  BY <1>3, FS_CardinalityType, Zenon
<1> HIDE DEF one, two, all
<1> QED
  BY <1>4, <1>5, <1>6, <1>7, <1>8

\* The part up to the first newline ends with it, if there is one.
LEMMA LinePartNewlines ==
  ASSUME NEW w \in Seq(Byte), HasNL(w), Len(w) # 0
  PROVE  Newlines(LinePart(w)) = {Len(LinePart(w))}
<1> DEFINE n == CurrLen(w)
           a == LinePart(w)
<1>1. /\ n \in 1..Len(w) /\ Len(a) = n
      /\ \A i \in 1..n : a[i] = w[i]
  BY Parts
<1>2. w[n] = NL /\ \A i \in 1..(n - 1) : w[i] # NL
  BY FirstLine
<1>3. Len(w) \in Nat
  BY LenProperties
<1> HIDE DEF n, a
<1>4. n \in Nat /\ n \in 1..n
  BY <1>1, <1>3
<1>5. \A i \in 1..n : i # n => i \in 1..(n - 1)
  BY <1>4
<1>6. \A i \in 1..n : a[i] = NL <=> i = n
  BY <1>1, <1>2, <1>4, <1>5
<1>7. Newlines(a) = {Len(a)}
  BY <1>1, <1>4, <1>6 DEF Newlines
<1> QED
  BY <1>7 DEF a

\* What follows it has none when the recv() brings only one.
LEMMA RestPartNewlines ==
  ASSUME NEW w \in Seq(Byte), HasNL(w), Len(w) # 0, Cardinality(Newlines(w)) <= 1
  PROVE  Newlines(RestPart(w)) = {}
<1> DEFINE n == CurrLen(w)
           b == RestPart(w)
           l == Len(w)
<1>1. /\ n \in 1..l /\ Len(b) = l - n /\ l \in Nat
      /\ \A i \in 1..(l - n) : b[i] = w[n + i]
  BY Parts, LenProperties
<1>2. n \in Newlines(w)
  BY <1>1, FirstLine DEF Newlines
<1>3. \A i \in 1..l : w[i] = NL => i \in Newlines(w)
  BY DEF Newlines
<1>4. \A i \in 1..l : w[i] = NL => i = n
  BY <1>2, <1>3, AtMostOne
<1> HIDE DEF n, b, l
<1>5. \A i \in 1..(l - n) : n + i \in 1..l /\ n + i # n
  BY <1>1
<1>6. \A i \in 1..(l - n) : b[i] # NL
  BY <1>1, <1>4, <1>5
<1>7. Newlines(b) = {}
  BY <1>1, <1>6 DEF Newlines
<1> QED
  BY <1>7 DEF b

\* The newlines of a string without one, followed by another.
LEMMA NewlinesConcat ==
  ASSUME NEW s \in Seq(Byte), NEW t \in Seq(Byte), Newlines(s) = {}
  PROVE  /\ Newlines(t) = {} => Newlines(s \o t) = {}
         /\ Newlines(t) = {Len(t)} => Newlines(s \o t) = {Len(s \o t)}
<1> DEFINE u == s \o t
           k == Len(s)
           m == Len(t)
<1>1. k \in Nat /\ m \in Nat
  BY LenProperties
<1>2. Len(u) = k + m /\ \A i \in 1..(k + m) : u[i] = IF i <= k THEN s[i] ELSE t[i - k]
  BY ConcatProperties
<1>3. \A i \in 1..k : s[i] # NL
  BY DEF Newlines
<1>4. /\ Newlines(t) = {} => \A i \in 1..m : t[i] # NL
      /\ Newlines(t) = {m} => m \in 1..m /\ \A i \in 1..m : t[i] = NL <=> i = m
  BY DEF Newlines
<1> HIDE DEF u, k, m
<1>5. ASSUME NEW i \in 1..(k + m)
      PROVE  u[i] = NL <=> i - k \in 1..m /\ t[i - k] = NL
  <2>1. CASE i <= k
    BY <1>1, <1>2, <1>3, <2>1
  <2>2. CASE ~(i <= k)
    BY <1>1, <1>2, <2>2
  <2> QED
    BY <2>1, <2>2
<1>6. Newlines(t) = {} => Newlines(u) = {}
  BY <1>2, <1>4, <1>5 DEF Newlines
<1>7. ASSUME Newlines(t) = {m} PROVE Newlines(u) = {k + m}
  <2>1. m \in 1..m /\ \A i \in 1..m : t[i] = NL <=> i = m
    BY <1>4, <1>7
  <2>2. k + m \in 1..(k + m)
    BY <1>1, <2>1
  <2>3. \A i \in 1..(k + m) : i - k = m <=> i = k + m
    BY <1>1
  <2>4. \A i \in 1..(k + m) : u[i] = NL <=> i = k + m
    BY <1>5, <2>1, <2>3
  <2> QED
    BY <1>2, <2>2, <2>4 DEF Newlines
<1> QED
  BY <1>2, <1>6, <1>7 DEF u, k, m

\* When no recv() so far brought the ends of two lines, none did before.
LEMMA OneLineBefore ==
  ASSUME HistoryType, NEW w \in Chunks, Receive(w), OneLineAtATime'
  PROVE  OneLineAtATime /\ Cardinality(Newlines(w)) <= 1
<1>1. w \in Seq(Byte) /\ received' = Append(received, w) /\ received \in Seq(Seq(Byte))
  BY ReceiveHistory DEF HistoryType
<1> DEFINE n == Len(received)
<1>2. /\ n \in Nat /\ Len(received') = n + 1
      /\ \A i \in 1..n : received'[i] = received[i]
      /\ received'[n + 1] = w
  BY <1>1, AppendProperties, LenProperties
<1>3. \A i \in 1..Len(received') : Cardinality(Newlines(received'[i])) <= 1
  BY DEF OneLineAtATime, Newlines
<1> HIDE DEF n
<1>4. n + 1 \in 1..(n + 1) /\ \A i \in 1..n : i \in 1..(n + 1)
  BY <1>2
<1>5. \A i \in 1..n : Cardinality(Newlines(received[i])) <= 1
  BY <1>2, <1>3, <1>4
<1> QED
  BY <1>2, <1>3, <1>4, <1>5 DEF OneLineAtATime, n

LEMMA ReceiveWritesLines ==
  ASSUME HistoryType, WritesAreLines, NEW w \in Chunks, Receive(w)
  PROVE  WritesAreLines'
<1> SUFFICES ASSUME OneLineAtATime', ~Contains(Received', NUL)
             PROVE  /\ \A i \in 1..Len(written') : Newlines(written'[i]) = {Len(written'[i])}
                    /\ Newlines(text') = {}
  BY DEF WritesAreLines, Newlines
<1> DEFINE a == LinePart(w)
           b == RestPart(w)
<1>1. /\ w \in Seq(Byte) /\ Len(w) # 0
      /\ received' = Append(received, w)
  BY ReceiveHistory
<1>2. /\ ~Contains(Received, NUL)
      /\ HasNL(w) => written' = Append(written, text \o a) /\ text' = b
      /\ ~HasNL(w) => written' = written /\ text' = text \o w
  BY ReceivePlain
<1>3. /\ text \in Seq(Byte) /\ written \in Seq(Seq(Byte)) /\ received \in Seq(Seq(Byte))
  BY DEF HistoryType
<1>4. OneLineAtATime /\ Cardinality(Newlines(w)) <= 1
  BY OneLineBefore
<1>5. /\ \A i \in 1..Len(written) : Newlines(written[i]) = {Len(written[i])}
      /\ Newlines(text) = {}
  BY <1>2, <1>4 DEF WritesAreLines
<1>6. CASE HasNL(w)
  <2> DEFINE line == text \o a
             n == Len(written)
  <2>1. a \in Seq(Byte) /\ Newlines(a) = {Len(a)} /\ Newlines(b) = {}
    BY <1>1, <1>4, <1>6, Parts, LinePartNewlines, RestPartNewlines
  <2>2. line \in Seq(Byte)
    BY <1>3, <2>1, ConcatProperties
  <2>3. Newlines(line) = {Len(line)}
    BY <1>3, <1>5, <2>1, NewlinesConcat
  <2>4. written' = Append(written, line) /\ text' = b
    BY <1>2, <1>6
  <2> HIDE DEF line
  <2>5. /\ n \in Nat /\ Len(written') = n + 1
        /\ \A i \in 1..n : written'[i] = written[i]
        /\ written'[n + 1] = line
    BY <1>3, <2>2, <2>4, AppendProperties, LenProperties
  <2> HIDE DEF n
  <2>6. \A i \in 1..(n + 1) : i = n + 1 \/ i \in 1..n
    BY <2>5
  <2>7. \A i \in 1..(n + 1) : Newlines(written'[i]) = {Len(written'[i])}
    BY <1>5, <2>3, <2>5, <2>6 DEF n
  <2> QED
    BY <2>1, <2>4, <2>5, <2>7
<1>7. CASE ~HasNL(w)
  <2>1. Newlines(w) = {}
    BY <1>7 DEF HasNL, Contains, Newlines
  <2>2. Newlines(text \o w) = {}
    BY <1>1, <1>3, <1>5, <2>1, NewlinesConcat
  <2> QED
    BY <1>2, <1>5, <1>7, <2>2
<1> QED
  BY <1>6, <1>7

(***************************************************************************)
(* As long as no recv() brings the ends of two lines (and no '\0'), every  *)
(* string passed to append_datafile is exactly one line, and no complete   *)
(* line waits in the buffer.                                               *)
(***************************************************************************)
THEOREM ReceiveCutsLines == FSpec => []WritesAreLines
<1>1. FInit => WritesAreLines
  BY DEF FInit, WritesAreLines, Newlines
<1>2. FInit => HistoryType
  BY HistoryInit
<1>3. HistoryType /\ WritesAreLines /\ [FNext]_fvars => HistoryType' /\ WritesAreLines'
  <2> SUFFICES ASSUME HistoryType, WritesAreLines, [FNext]_fvars
               PROVE  HistoryType' /\ WritesAreLines'
    OBVIOUS
  <2>1. CASE FNext
    BY <2>1, ReceiveHistory, ReceiveWritesLines DEF FNext
  <2>2. CASE UNCHANGED fvars
    BY <2>2 DEF fvars, HistoryType, WritesAreLines, OneLineAtATime, Received, Newlines
  <2> QED
    BY <2>1, <2>2
<1> QED
  BY <1>1, <1>2, <1>3, PTL DEF FSpec
=============================================================================
