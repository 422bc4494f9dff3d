--------------------------- MODULE Session_proofs ---------------------------
(***************************************************************************)
(* A connection with everything behind it still is a receive buffer, so    *)
(* that what is proved of the buffer holds in the composition.             *)
(***************************************************************************)
EXTENDS Session, Framing_proofs, CircularBuffer_proofs

\* A step of the connection is a recv() or leaves the receive buffer alone.
LEMMA SessionStep == [SNext]_vars => [FNext]_fvars
<1> SUFFICES ASSUME [SNext]_vars
             PROVE  [FNext]_fvars
  OBVIOUS
<1>1. ASSUME NEW w \in Chunks, Deliver(w)
      PROVE  FNext
  BY <1>1 DEF Deliver, FNext
<1>2. ASSUME NEW line \in OtherLines, OtherLine(line)
      PROVE  UNCHANGED fvars
  BY <1>2 DEF OtherLine
<1>3. UNCHANGED vars => UNCHANGED fvars
  BY DEF vars
<1> QED
  BY <1>1, <1>2, <1>3 DEF SNext

(***************************************************************************)
(* The connection composed with parse_seekto_cmd, the device and the other *)
(* connections implements the receive buffer on its own.                   *)
(***************************************************************************)
THEOREM SessionImplementsFraming == SSpec => FSpec
<1>1. SInit => FInit
  BY DEF SInit
<1> QED
  BY <1>1, SessionStep, PTL DEF SSpec, FSpec

(***************************************************************************)
(* append_string never writes outside the receive buffer, for every block  *)
(* size and stream, in the composed connection.                            *)
(***************************************************************************)
THEOREM SessionBufferFits == SSpec => []BufferFits
  BY SessionImplementsFraming, ReceiveBufferFits, PTL

(***************************************************************************)
(* In the composed connection no byte of a stream without '\0' is lost     *)
(* between recv() and append_datafile.                                     *)
(***************************************************************************)
THEOREM SessionLosesNothing == SSpec => []NothingLost
  BY SessionImplementsFraming, ReceiveLosesNothing, PTL

(***************************************************************************)
(* In the composed connection every string passed to append_datafile is    *)
(* one line, as long as no recv() brings the ends of two.                  *)
(***************************************************************************)
THEOREM SessionCutsLines == SSpec => []WritesAreLines
  BY SessionImplementsFraming, ReceiveCutsLines, PTL


-----------------------------------------------------------------------------
(* Numbers, and the lines that are stored *)

\* The loop behind Number.
IsNumber(d, g) == g = [n \in 0..Len(d) |-> IF n = 0 THEN 0 ELSE 10 * g[n - 1] + d[n]]

\* A string of digits is a natural number.
LEMMA NumberIsNat ==
  ASSUME NEW d \in Seq(0..9)
  PROVE  Number(d) \in Nat
<1> DEFINE m == Len(d)
           F == [i \in 1..m |-> [v \in Nat |-> 10 * v + d[i]]]
           val == CHOOSE g : IsNumber(d, g)
<1>1. m \in Nat
  BY LenProperties
<1>2. \A i \in 1..m : d[i] \in Nat
  BY ElementOfSeq
<1>3. Number(d) = val[m]
  BY DEF Number, IsNumber
<1>4. \A i \in 1..m, v \in Nat : 10 * v + d[i] \in Nat
  BY <1>2
<1> HIDE DEF m, val
<1>5. F \in [1..m -> [Nat -> Nat]]
  BY <1>4
<1>6. \A i \in 1..m, v \in Nat : F[i][v] = 10 * v + d[i]
  OBVIOUS
<1> HIDE DEF F
<1>7. PICK g \in [0..m -> Nat] : IsFold(g, m, 0, F)
  BY <1>1, <1>5, FoldExists
<1>8. \A i \in 0..m : g[i] = IF i = 0 THEN 0 ELSE 10 * g[i - 1] + d[i]
  <2> SUFFICES ASSUME NEW i \in 0..m, i # 0 PROVE g[i] = 10 * g[i - 1] + d[i]
    BY <1>1, <1>7 DEF IsFold
  <2>1. i \in 1..m /\ i - 1 \in 0..m
    BY <1>1
  <2>2. g[i - 1] \in Nat
    BY <2>1
  <2>3. g[i] = F[i][g[i - 1]]
    BY <1>7 DEF IsFold
  <2> QED BY <1>6, <2>1, <2>2, <2>3
<1>9. g = [i \in 0..m |-> g[i]]
  OBVIOUS
<1>10. g = [i \in 0..m |-> IF i = 0 THEN 0 ELSE 10 * g[i - 1] + d[i]]
  BY <1>8, <1>9
<1>11. IsNumber(d, g)
  BY <1>10 DEF IsNumber, m
<1>12. IsNumber(d, val)
  BY <1>11 DEF val
<1>13. \A i \in 0..m : val[i] = IF i = 0 THEN 0 ELSE 10 * val[i - 1] + d[i]
  <2>1. val = [i \in 0..m |-> IF i = 0 THEN 0 ELSE 10 * val[i - 1] + d[i]]
    BY <1>12 DEF IsNumber, m
  <2> QED BY <2>1, Zenon
<1> DEFINE P == {i \in Nat : i <= m => val[i] \in Nat}
<1>14. 0 \in P
  BY <1>1, <1>13
<1>15. ASSUME NEW i \in Nat, i \in P PROVE i + 1 \in P
  <2> SUFFICES ASSUME i + 1 <= m PROVE val[i + 1] \in Nat
    OBVIOUS
  <2>1. i + 1 \in 0..m /\ i + 1 \in 1..m /\ i + 1 # 0 /\ (i + 1) - 1 = i /\ val[i] \in Nat
    BY <1>1, <1>15
  <2>2. val[i + 1] = 10 * val[i] + d[i + 1]
    BY <1>13, <2>1
  <2> QED BY <1>2, <2>1, <2>2
<1> HIDE DEF P
<1>16. m \in P
  BY <1>1, <1>14, <1>15, InductionSet
<1> QED BY <1>1, <1>3, <1>16 DEF P

\* The loop behind Commands.
IsCommandList(lines, f) ==
  f = [n \in 0..Len(lines) |->
        IF n = 0 THEN << >>
        ELSE IF IsCommand(lines[n]) THEN Append(f[n - 1], lines[n]) ELSE f[n - 1]]

LEMMA CommandListExists ==
  ASSUME NEW lines \in Seq(Seq(Byte))
  PROVE  \E f \in [0..Len(lines) -> Seq(Seq(Byte))] : IsCommandList(lines, f)
<1> DEFINE m == Len(lines)
           V == Seq(Seq(Byte))
           F == [i \in 1..m |-> [v \in V |-> IF IsCommand(lines[i]) THEN Append(v, lines[i]) ELSE v]]
<1>1. m \in Nat
  BY LenProperties
<1>2. \A i \in 1..m : lines[i] \in Seq(Byte)
  BY ElementOfSeq
<1>3. \A i \in 1..m, v \in V : (IF IsCommand(lines[i]) THEN Append(v, lines[i]) ELSE v) \in V
  BY <1>2, AppendProperties
<1>4. << >> \in V
  BY EmptySeq
<1> HIDE DEF m, V
<1>5. F \in [1..m -> [V -> V]]
  BY <1>3
<1>6. \A i \in 1..m, v \in V : F[i][v] = IF IsCommand(lines[i]) THEN Append(v, lines[i]) ELSE v
  BY Zenon
<1> HIDE DEF F
<1>7. PICK f \in [0..m -> V] : IsFold(f, m, << >>, F)
  BY <1>1, <1>4, <1>5, FoldExists
<1>8. ASSUME NEW i \in 0..m
      PROVE  f[i] = IF i = 0 THEN << >>
                    ELSE IF IsCommand(lines[i]) THEN Append(f[i - 1], lines[i]) ELSE f[i - 1]
  <2>1. CASE i = 0
    BY <1>7, <2>1 DEF IsFold
  <2>2. CASE i # 0
    <3>1. i \in 1..m /\ i - 1 \in 0..m
      BY <1>1, <2>2
    <3>2. f[i - 1] \in V
      BY <3>1
    <3>3. f[i] = F[i][f[i - 1]]
      BY <1>7, <2>2 DEF IsFold
    <3> QED BY <1>6, <2>2, <3>1, <3>2, <3>3, Zenon
  <2> QED BY <2>1, <2>2
<1>9. f = [i \in 0..m |-> f[i]]
  OBVIOUS
<1>10. f = [i \in 0..m |->
             IF i = 0 THEN << >>
             ELSE IF IsCommand(lines[i]) THEN Append(f[i - 1], lines[i]) ELSE f[i - 1]]
  BY <1>8, <1>9, Zenon
<1>11. IsCommandList(lines, f)
  BY <1>10, Zenon DEF IsCommandList, m
<1> QED BY <1>11 DEF m, V


\* The equation of Commands, step by step.
LEMMA CommandsStep ==
  ASSUME NEW lines \in Seq(Seq(Byte))
  PROVE  \E f : /\ Commands(lines) = f[Len(lines)]
                /\ f[0] = << >>
                /\ \A n \in 1..Len(lines) :
                     f[n] = IF IsCommand(lines[n]) THEN Append(f[n - 1], lines[n]) ELSE f[n - 1]
<1> DEFINE m == Len(lines)
           f == CHOOSE g : IsCommandList(lines, g)
<1>1. m \in Nat
  BY LenProperties
<1>2. Commands(lines) = f[m]
  BY Zenon DEF Commands, IsCommandList
<1>3. IsCommandList(lines, f)
  BY CommandListExists, Zenon
<1> HIDE DEF f
<1>4. f = [n \in 0..m |->
            IF n = 0 THEN << >>
            ELSE IF IsCommand(lines[n]) THEN Append(f[n - 1], lines[n]) ELSE f[n - 1]]
  BY <1>3, Zenon DEF IsCommandList
<1>5. \A n \in 0..m :
        f[n] = IF n = 0 THEN << >>
               ELSE IF IsCommand(lines[n]) THEN Append(f[n - 1], lines[n]) ELSE f[n - 1]
  BY <1>4, Zenon
<1> HIDE DEF m
<1>6. 0 \in 0..m /\ \A n \in 1..m : n \in 0..m /\ n # 0
  BY <1>1
<1>7. f[0] = << >>
  BY <1>5, <1>6, Zenon
<1>8. \A n \in 1..m : f[n] = IF IsCommand(lines[n]) THEN Append(f[n - 1], lines[n]) ELSE f[n - 1]
  BY <1>5, <1>6, Zenon
<1> QED BY <1>2, <1>7, <1>8 DEF m

\* The stored lines of a log with one more line.
LEMMA CommandsAppend ==
  ASSUME NEW lines \in Seq(Seq(Byte)), NEW e \in Seq(Byte)
  PROVE  /\ Commands(<< >>) = << >>
         /\ Commands(lines) \in Seq(Seq(Byte))
         /\ Commands(Append(lines, e)) =
              IF IsCommand(e) THEN Append(Commands(lines), e) ELSE Commands(lines)
<1> DEFINE m == Len(lines)
           u == Append(lines, e)
<1>1. m \in Nat
  BY LenProperties
<1>2. /\ u \in Seq(Seq(Byte)) /\ Len(u) = m + 1
      /\ \A k \in 1..m : u[k] = lines[k]
      /\ u[m + 1] = e
  BY AppendProperties
<1>3. \A k \in 1..m : lines[k] \in Seq(Byte)
  BY ElementOfSeq
<1>4. Commands(<< >>) = << >>
  <2>1. << >> \in Seq(Seq(Byte)) /\ Len(<< >>) = 0
    BY EmptySeq
  <2>2. \E f : Commands(<< >>) = f[Len(<< >>)] /\ f[0] = << >>
    BY <2>1, CommandsStep, Zenon
  <2> QED BY <2>1, <2>2
<1>5. PICK f : /\ Commands(lines) = f[m]
               /\ f[0] = << >>
               /\ \A n \in 1..m :
                    f[n] = IF IsCommand(lines[n]) THEN Append(f[n - 1], lines[n]) ELSE f[n - 1]
  BY CommandsStep, Zenon
<1> HIDE DEF u
<1>6. PICK h : /\ Commands(u) = h[m + 1]
               /\ h[0] = << >>
               /\ \A n \in 1..(m + 1) :
                    h[n] = IF IsCommand(u[n]) THEN Append(h[n - 1], u[n]) ELSE h[n - 1]
  <2>1. \E h : /\ Commands(u) = h[Len(u)]
               /\ h[0] = << >>
               /\ \A n \in 1..Len(u) :
                    h[n] = IF IsCommand(u[n]) THEN Append(h[n - 1], u[n]) ELSE h[n - 1]
    BY <1>2, CommandsStep, Zenon
  <2> QED BY <1>2, <2>1, Zenon
<1> HIDE DEF m
<1> DEFINE P == {n \in Nat : n <= m => f[n] \in Seq(Seq(Byte)) /\ h[n] = f[n]}
<1>7. 0 \in P
  BY <1>5, <1>6, EmptySeq
<1>8. ASSUME NEW n \in Nat, n \in P PROVE n + 1 \in P
  <2> SUFFICES ASSUME n + 1 <= m
               PROVE  f[n + 1] \in Seq(Seq(Byte)) /\ h[n + 1] = f[n + 1]
    OBVIOUS
  <2> DEFINE k == n + 1
  <2>1. k \in 1..m /\ k \in 1..(m + 1) /\ k - 1 = n /\ n <= m
    BY <1>1
  <2>2. f[n] \in Seq(Seq(Byte)) /\ h[n] = f[n]
    BY <1>8, <2>1
  <2> HIDE DEF k, P
  <2>3. f[k] = IF IsCommand(lines[k]) THEN Append(f[n], lines[k]) ELSE f[n]
    BY <1>5, <2>1, Zenon
  <2>4. h[k] = IF IsCommand(u[k]) THEN Append(h[n], u[k]) ELSE h[n]
    BY <1>6, <2>1, Zenon
  <2>5. u[k] = lines[k] /\ lines[k] \in Seq(Byte)
    BY <1>2, <1>3, <2>1
  <2>6. Append(f[n], lines[k]) \in Seq(Seq(Byte))
    BY <2>2, <2>5, AppendProperties
  <2>7. f[k] \in Seq(Seq(Byte)) /\ h[k] = f[k]
    <3>1. CASE IsCommand(lines[k])
      <4>1. f[k] = Append(f[n], lines[k]) /\ h[k] = Append(h[n], u[k])
        BY <2>3, <2>4, <2>5, <3>1, Zenon
      <4> QED BY <2>2, <2>5, <2>6, <4>1, Zenon
    <3>2. CASE ~IsCommand(lines[k])
      <4>1. f[k] = f[n] /\ h[k] = h[n]
        BY <2>3, <2>4, <2>5, <3>2, Zenon
      <4> QED BY <2>2, <4>1, Zenon
    <3> QED BY <3>1, <3>2
  <2> QED BY <2>7 DEF k
<1> HIDE DEF P
<1>9. m \in P
  BY <1>1, <1>7, <1>8, InductionSet
<1>10. f[m] \in Seq(Seq(Byte)) /\ h[m] = f[m]
  BY <1>1, <1>9 DEF P
<1>11. h[m + 1] = IF IsCommand(e) THEN Append(h[m], e) ELSE h[m]
  <2>1. m + 1 \in 1..(m + 1) /\ (m + 1) - 1 = m
    BY <1>1
  <2>2. h[m + 1] = IF IsCommand(u[m + 1]) THEN Append(h[(m + 1) - 1], u[m + 1]) ELSE h[(m + 1) - 1]
    BY <1>6, <2>1, Zenon
  <2> QED BY <1>2, <2>1, <2>2, Zenon
<1> QED BY <1>4, <1>5, <1>6, <1>10, <1>11, Zenon DEF u


-----------------------------------------------------------------------------
(* parse_seekto_cmd *)

\* The first of some positions, as SelectInSeq gives it.
FirstOf(I) == IF I # {} THEN Min(I) ELSE 0

LEMMA FirstIs ==
  ASSUME NEW n \in Nat, NEW I, I \subseteq 1..n, NEW p \in I, \A i \in 1..(p - 1) : i \notin I
  PROVE  FirstOf(I) = p
<1>1. I \subseteq Nat
  OBVIOUS
<1>2. \A i \in I : p <= i
  OBVIOUS
<1>3. Min(I) = p
  BY <1>1, <1>2, MinIs
<1> QED BY <1>3 DEF FirstOf

\* The value of the digits of a number, as a uint32_t.
Value32(digits) == IF Number(digits) > ULongMax THEN ERANGE ELSE Number(digits) % UIntMod

\* strtoul reads a string that starts with digits up to the last of them.
LEMMA StrtoulReads ==
  ASSUME NEW s \in Seq(Byte), NEW m \in 1..Len(s), \A i \in 1..m : IsDigit(s[i]),
         m # Len(s) => ~IsDigit(s[m + 1])
  PROVE  Strtoul(s) = Value32(SubSeq(s, 1, m))
<1> DEFINE n == Len(s)
           I == {i \in 1..n : s[i] # NL}
           J == {i \in 1..n : ~IsDigit(s[i])}
<1>1. n \in Nat
  BY LenProperties
<1>2. 1 \in 1..n /\ 1 \in 1..m
  BY <1>1
<1>3. s[1] # NL
  BY <1>2, CharactersAssumption
<1>4. FirstOf(I) = 1
  <2>1. 1 \in I /\ I \subseteq 1..n /\ \A i \in 1..(1 - 1) : i \notin I
    BY <1>2, <1>3
  <2> HIDE DEF I
  <2> QED BY <1>1, <2>1, FirstIs
<1>5. FirstOf(J) = IF m = n THEN 0 ELSE m + 1
  <2>1. CASE m = n
    <3>1. J = {}
      BY <2>1
    <3> QED BY <2>1, <3>1 DEF FirstOf
  <2>2. CASE m # n
    <3>1. m + 1 \in J /\ J \subseteq 1..n
      BY <1>1, <2>2
    <3>2. \A i \in 1..((m + 1) - 1) : i \notin J
      BY <1>1
    <3> HIDE DEF J
    <3>3. FirstOf(J) = m + 1
      BY <1>1, <3>1, <3>2, FirstIs
    <3> QED BY <2>2, <3>3
  <2> QED BY <2>1, <2>2
<1>6. SubSeq(s, 1, n) = s
  BY SubSeqFull
<1> DEFINE from == FirstOf({i \in 1..Len(s) : s[i] # NL})
           rest == IF from = 0 THEN << >> ELSE SubSeq(s, from, Len(s))
           end == FirstOf({i \in 1..Len(rest) : ~IsDigit(rest[i])})
           digits == IF end = 0 THEN rest ELSE SubSeq(rest, 1, end - 1)
<1>8. Strtoul(s) = Value32(digits)
  BY DEF Strtoul, Value32, SelectInSeq, FirstOf
<1>9. rest = s
  <2>1. from = 1
    BY <1>4, Zenon
  <2> HIDE DEF from
  <2>2. from # 0
    BY <2>1
  <2>3. rest = SubSeq(s, 1, n)
    BY <2>1, <2>2, Zenon
  <2> QED BY <1>6, <2>3, Zenon
<1> HIDE DEF from, rest
<1>10. end = IF m = n THEN 0 ELSE m + 1
  <2>1. end = FirstOf(J)
    BY <1>9, Zenon
  <2> QED BY <1>5, <2>1, Zenon
<1> HIDE DEF end
<1>11. digits = SubSeq(s, 1, m)
  <2>1. CASE m = n
    BY <1>6, <1>9, <1>10, <2>1
  <2>2. CASE m # n
    <3>1. end # 0 /\ end - 1 = m
      BY <1>1, <1>10, <2>2
    <3> QED BY <1>9, <3>1
  <2> QED BY <2>1, <2>2
<1> QED BY <1>8, <1>11

\* A line without the command word is no seek.
LEMMA ParseNoSeek ==
  ASSUME NEW buf, ~Contains(buf, SEEK)
  PROVE  ParseSeekTo(buf) = {NotSeek}
<1>1. {i \in 1..Len(buf) : buf[i] = SEEK} = {}
  BY DEF Contains
<1>2. SelectInSeq(buf, LAMBDA b : b = SEEK) = 0
  BY <1>1 DEF SelectInSeq
<1> QED BY <1>2 DEF ParseSeekTo


\* The parts of a seek line: the numbers are strings of digits.
LEMMA SeekLineParts ==
  ASSUME NEW buf \in Seq(Byte), IsSeekLine(buf)
  PROVE  /\ Len(buf) \in Nat /\ Comma(buf) \in 3..(Len(buf) - 2)
         /\ Contains(buf, SEEK)
         /\ SeekX(buf) \in Seq(0..9) /\ Number(SeekX(buf)) \in Nat
         /\ Len(SeekX(buf)) = Comma(buf) - 2
         /\ \A i \in 1..(Comma(buf) - 2) : SeekX(buf)[i] = buf[i + 1]
         /\ SeekY(buf) \in Seq(0..9) /\ Number(SeekY(buf)) \in Nat
         /\ Len(SeekY(buf)) = Len(buf) - Comma(buf) - 1
         /\ \A i \in 1..(Len(buf) - Comma(buf) - 1) : SeekY(buf)[i] = buf[Comma(buf) + i]
<1> DEFINE n == Len(buf)
           c == Comma(buf)
<1>1. n \in Nat
  BY LenProperties
<1>2. /\ c \in 3..(n - 2) /\ buf[1] = SEEK
      /\ \A i \in 2..(n - 1) : i # c => buf[i] \in 0..9
  BY DEF IsSeekLine, IsDigit
<1>3. SeekX(buf) = SubSeq(buf, 2, c - 1) /\ SeekY(buf) = SubSeq(buf, c + 1, n - 1)
  BY DEF SeekX, SeekY
<1> HIDE DEF n, c
<1>4. 1 \in 1..n
  BY <1>1, <1>2
<1>5. Contains(buf, SEEK)
  BY <1>2, <1>4 DEF Contains, n
<1>6. \A i \in 2..(c - 1) : buf[i] \in 0..9
  BY <1>1, <1>2
<1>7. \A i \in (c + 1)..(n - 1) : buf[i] \in 0..9
  BY <1>1, <1>2
<1>8. 2 \in Int /\ c - 1 \in Int /\ 2 <= c - 1 /\ (c - 1) - 2 + 1 = c - 2
  BY <1>1, <1>2
<1>9. c + 1 \in Int /\ n - 1 \in Int /\ c + 1 <= n - 1 /\ (n - 1) - (c + 1) + 1 = n - c - 1
  BY <1>1, <1>2
<1>10. /\ SeekX(buf) \in Seq(0..9) /\ Len(SeekX(buf)) = c - 2
       /\ \A i \in 1..(c - 2) : SeekX(buf)[i] = buf[i + 1]
  <2>1. /\ SubSeq(buf, 2, c - 1) \in Seq(0..9) /\ Len(SubSeq(buf, 2, c - 1)) = c - 2
        /\ \A i \in 1..(c - 2) : SubSeq(buf, 2, c - 1)[i] = buf[2 + i - 1]
    BY <1>6, <1>8, SubSeqProperties
  <2>2. \A i \in 1..(c - 2) : 2 + i - 1 = i + 1
    OBVIOUS
  <2> QED BY <1>3, <2>1, <2>2
<1>11. /\ SeekY(buf) \in Seq(0..9) /\ Len(SeekY(buf)) = n - c - 1
       /\ \A i \in 1..(n - c - 1) : SeekY(buf)[i] = buf[c + i]
  <2>1. /\ SubSeq(buf, c + 1, n - 1) \in Seq(0..9) /\ Len(SubSeq(buf, c + 1, n - 1)) = n - c - 1
        /\ \A i \in 1..(n - c - 1) : SubSeq(buf, c + 1, n - 1)[i] = buf[(c + 1) + i - 1]
    BY <1>7, <1>9, SubSeqProperties
  <2>2. \A i \in 1..(n - c - 1) : (c + 1) + i - 1 = c + i
    BY <1>1, <1>2
  <2> QED BY <1>3, <2>1, <2>2
<1>12. Number(SeekX(buf)) \in Nat /\ Number(SeekY(buf)) \in Nat
  BY <1>10, <1>11, NumberIsNat
<1> QED BY <1>1, <1>2, <1>5, <1>10, <1>11, <1>12 DEF n, c


\* What parse_seekto_cmd returns for a well-formed seek line.
SeekArgs(line) ==
  IF Number(SeekX(line)) > ULongMax \/ Number(SeekY(line)) > ULongMax THEN NotSeek
  ELSE <<Number(SeekX(line)) % UIntMod, Number(SeekY(line)) % UIntMod>>

LEMMA ParseSeek ==
  ASSUME NEW buf \in Seq(Byte), IsSeekLine(buf)
  PROVE  ParseSeekTo(buf) = {SeekArgs(buf)}
<1> DEFINE n == Len(buf)
           c == Comma(buf)
           cmd == FirstOf({i \in 1..Len(buf) : buf[i] = SEEK})
           args == SubSeq(buf, cmd + 1, Len(buf))
           comma == FirstOf({i \in 1..Len(args) : args[i] = COMMA})
           first == SubSeq(args, 1, comma - 1)
           second == SubSeq(args, comma + 1, Len(args))
           Val(s) == IF s = << >> THEN Garbage ELSE {Strtoul(s)}
           xy == IF comma # 0 THEN {Strtoul(first)} \X Val(second)
                 ELSE (Garbage \X Val(args))
                        \cup (IF cmd > 1 THEN {Strtoul(args)} \X (Garbage \cup {ERANGE})
                              ELSE {})
           Result(p) == IF ERANGE \in {p[1], p[2]} THEN NotSeek ELSE p
<1>1. ParseSeekTo(buf) = IF cmd = 0 THEN {NotSeek} ELSE {Result(p) : p \in xy}
  BY DEF ParseSeekTo, SelectInSeq, FirstOf
<1>2. /\ n \in Nat /\ c \in 3..(n - 2) /\ c \in Nat
      /\ SeekX(buf) \in Seq(0..9) /\ Number(SeekX(buf)) \in Nat
      /\ Len(SeekX(buf)) = c - 2
      /\ \A i \in 1..(c - 2) : SeekX(buf)[i] = buf[i + 1]
      /\ SeekY(buf) \in Seq(0..9) /\ Number(SeekY(buf)) \in Nat
      /\ Len(SeekY(buf)) = n - c - 1
      /\ \A i \in 1..(n - c - 1) : SeekY(buf)[i] = buf[c + i]
  BY SeekLineParts, SMTT(30)
<1>a. n \in Nat /\ c \in 3..(n - 2) /\ c \in Nat
  BY <1>2
<1>3. /\ buf[1] = SEEK /\ buf[n] = NL
      /\ \A i \in 2..(n - 1) : i # c => IsDigit(buf[i])
  BY DEF IsSeekLine
<1>4. buf[c] = COMMA
  <2> DEFINE I == {i \in 1..Len(buf) : buf[i] = COMMA}
  <2>1. c = FirstOf(I)
    BY DEF Comma, SelectInSeq, FirstOf
  <2>2. I # {} => buf[Min(I)] = COMMA
    BY FirstPosition
  <2> HIDE DEF I, c
  <2>3. c # 0
    BY <1>2
  <2>4. I # {} /\ c = Min(I)
    BY <2>1, <2>3 DEF FirstOf
  <2> QED BY <2>2, <2>4
<1>5. cmd = 1
  <2> DEFINE I == {i \in 1..Len(buf) : buf[i] = SEEK}
  <2>1. 1 \in I /\ I \subseteq 1..n /\ \A i \in 1..(1 - 1) : i \notin I
    BY <1>a, <1>3
  <2> HIDE DEF I
  <2>2. FirstOf(I) = 1
    BY <1>2, <2>1, FirstIs
  <2> QED BY <2>2 DEF I
<1> HIDE DEF cmd, n, c
<1>6. /\ args \in Seq(Byte) /\ Len(args) = n - 1
      /\ \A i \in 1..(n - 1) : args[i] = buf[i + 1]
  <2>1. args = SubSeq(buf, 2, n)
    BY <1>5 DEF n
  <2>2. 2 \in Int /\ n \in Int /\ 2 <= n /\ n - 2 + 1 = n - 1
    BY <1>2
  <2>3. \A i \in 2..n : buf[i] \in Byte
    BY <1>2, ElementOfSeq DEF n
  <2>4. /\ SubSeq(buf, 2, n) \in Seq(Byte) /\ Len(SubSeq(buf, 2, n)) = n - 1
        /\ \A i \in 1..(n - 1) : SubSeq(buf, 2, n)[i] = buf[2 + i - 1]
    BY <2>2, <2>3, SubSeqProperties
  <2>5. \A i \in 1..(n - 1) : 2 + i - 1 = i + 1
    BY <1>2
  <2> HIDE DEF args
  <2> QED BY <2>1, <2>4, <2>5
<1> HIDE DEF args
<1>7. comma = c - 1
  <2> DEFINE I == {i \in 1..Len(args) : args[i] = COMMA}
  <2>1. c - 1 \in 1..(n - 1) /\ (c - 1) + 1 = c
    BY <1>2
  <2>2. c - 1 \in I /\ I \subseteq 1..(n - 1) /\ n - 1 \in Nat
    <3>1. args[c - 1] = COMMA
      BY <1>4, <1>6, <2>1
    <3>2. c - 1 \in 1..Len(args) /\ n - 1 \in Nat /\ Len(args) = n - 1
      BY <1>2, <1>6, <2>1
    <3> QED BY <3>1, <3>2
  <2>3. ASSUME NEW i \in 1..((c - 1) - 1) PROVE i \notin I
    <3>1. i \in 1..(n - 1) /\ i + 1 \in 2..(n - 1) /\ i + 1 # c
      BY <1>a
    <3>2. IsDigit(args[i])
      BY <1>3, <1>6, <3>1
    <3> QED BY <3>2, CharactersAssumption
  <2> HIDE DEF I
  <2>4. FirstOf(I) = c - 1
    BY <2>2, <2>3, FirstIs
  <2> QED BY <2>4 DEF I
<1> HIDE DEF comma
<1>8. first \in Seq(Byte) /\ Len(first) = c - 2 /\ \A i \in 1..(c - 2) : first[i] = buf[i + 1]
  <2>1. 1 \in Int /\ comma - 1 \in Int /\ 1 <= comma - 1 /\ comma - 1 - 1 + 1 = c - 2
    BY <1>a, <1>7
  <2>2. \A i \in 1..(comma - 1) : args[i] \in Byte
    BY <1>a, <1>6, <1>7, ElementOfSeq
  <2>3. /\ first \in Seq(Byte) /\ Len(first) = c - 2
        /\ \A i \in 1..(c - 2) : first[i] = args[1 + i - 1]
    BY <2>1, <2>2, SubSeqProperties
  <2>4. \A i \in 1..(c - 2) : 1 + i - 1 = i /\ i \in 1..(n - 1)
    BY <1>2
  <2> HIDE DEF first
  <2> QED BY <1>6, <2>3, <2>4
<1>9. /\ second \in Seq(Byte) /\ Len(second) = n - c
      /\ \A i \in 1..(n - c) : second[i] = buf[c + i]
  <2>1. /\ comma + 1 \in Int /\ Len(args) \in Int /\ comma + 1 <= Len(args)
        /\ Len(args) - (comma + 1) + 1 = n - c
    BY <1>2, <1>6, <1>7
  <2>2. \A i \in (comma + 1)..Len(args) : args[i] \in Byte
    BY <1>a, <1>6, <1>7, ElementOfSeq
  <2>3. /\ second \in Seq(Byte) /\ Len(second) = n - c
        /\ \A i \in 1..(n - c) : second[i] = args[(comma + 1) + i - 1]
    BY <2>1, <2>2, SubSeqProperties
  <2>4. \A i \in 1..(n - c) : (comma + 1) + i - 1 = (c - 1) + i /\ (c - 1) + i \in 1..(n - 1)
                              /\ ((c - 1) + i) + 1 = c + i
    BY <1>2, <1>7
  <2> HIDE DEF second
  <2> QED BY <1>6, <2>3, <2>4
<1> HIDE DEF first, second
<1>10. Strtoul(first) = Value32(SeekX(buf))
  <2>1. c - 2 \in 1..Len(first) /\ c - 2 = Len(first)
    BY <1>2, <1>8
  <2>2. \A i \in 1..(c - 2) : IsDigit(first[i])
    <3>1. \A i \in 1..(c - 2) : i + 1 \in 2..(n - 1) /\ i + 1 # c
      BY <1>a
    <3> QED BY <1>3, <1>8, <3>1
  <2>3. Strtoul(first) = Value32(SubSeq(first, 1, c - 2))
    BY <1>8, <2>1, <2>2, StrtoulReads
  <2>4. SubSeq(first, 1, c - 2) = first
    BY <1>8, <2>1, SubSeqFull
  <2>5. first = SeekX(buf)
    BY <1>2, <1>8, SeqEqual, SMTT(30)
  <2> QED BY <2>3, <2>4, <2>5
<1>11. Strtoul(second) = Value32(SeekY(buf))
  <2> DEFINE m == n - c - 1
  <2>1. m \in 1..Len(second) /\ m + 1 = n - c /\ m # Len(second) /\ n - c \in 1..(n - c)
        /\ c + (n - c) = n /\ Len(second) \in Nat
    BY <1>2, <1>9
  <2>2. \A i \in 1..m : IsDigit(second[i])
    <3>1. \A i \in 1..m : c + i \in 2..(n - 1) /\ c + i # c /\ i \in 1..(n - c)
      BY <1>a
    <3> QED BY <1>3, <1>9, <3>1
  <2>3. ~IsDigit(second[m + 1])
    <3>1. second[m + 1] = NL
      BY <1>3, <1>9, <2>1
    <3> QED BY <3>1, CharactersAssumption
  <2> DEFINE d == SubSeq(second, 1, m)
  <2>4. Strtoul(second) = Value32(d)
    BY <1>9, <2>1, <2>2, <2>3, StrtoulReads
  <2>5. d \in Seq(0..9) /\ Len(d) = m /\ \A i \in 1..m : d[i] = buf[c + i]
    <3>1. 1 \in Int /\ m \in Int /\ 1 <= m /\ m - 1 + 1 = m /\ \A i \in 1..m : i \in 1..(n - c)
      BY <1>2, <2>1
    <3>2. \A i \in 1..m : second[i] \in 0..9
      BY <2>2 DEF IsDigit
    <3>3. d \in Seq(0..9) /\ Len(d) = m /\ \A i \in 1..m : d[i] = second[1 + i - 1]
      BY <3>1, <3>2, SubSeqProperties
    <3>4. \A i \in 1..m : 1 + i - 1 = i
      BY <3>1
    <3> HIDE DEF d, m
    <3> QED BY <1>9, <3>1, <3>3, <3>4
  <2> HIDE DEF d
  <2>6. d = SeekY(buf)
    <3>1. Len(d) = Len(SeekY(buf)) /\ \A i \in 1..Len(d) : d[i] = SeekY(buf)[i]
      BY <1>2, <2>5
    <3>2. SeekY(buf) \in Seq(0..9) /\ d \in Seq(0..9)
      BY <1>2, <2>5
    <3> QED BY <3>1, <3>2, SeqEqual, Zenon
  <2> QED BY <2>4, <2>6
<1>12. xy = {<<Value32(SeekX(buf)), Value32(SeekY(buf))>>}
  <2>1. comma # 0
    BY <1>2, <1>7
  <2>2. second # << >>
    BY <1>2, <1>9, EmptySeq
  <2>3. xy = {Strtoul(first)} \X {Strtoul(second)}
    BY <2>1, <2>2
  <2> QED BY <1>10, <1>11, <2>3
<1> HIDE DEF xy
<1> DEFINE p == <<Value32(SeekX(buf)), Value32(SeekY(buf))>>
<1>13. {Result(q) : q \in xy} = {Result(p)}
  BY <1>12
<1>14. Result(p) = SeekArgs(buf)
  <2>1. /\ Value32(SeekX(buf)) = ERANGE <=> Number(SeekX(buf)) > ULongMax
        /\ Value32(SeekY(buf)) = ERANGE <=> Number(SeekY(buf)) > ULongMax
    <3>1. \A m \in Nat : m % UIntMod # -1
      BY SessionAssumption
    <3>2. Number(SeekX(buf)) % UIntMod # -1 /\ Number(SeekY(buf)) % UIntMod # -1
      BY <1>2, <3>1
    <3> QED BY <3>2, Zenon DEF Value32, ERANGE
  <2> QED BY <2>1, Zenon DEF SeekArgs, Value32
<1>15. cmd # 0
  BY <1>5
<1> HIDE DEF p, Result
<1> QED BY <1>1, <1>13, <1>14, <1>15, Zenon DEF Result


\* A line is stored exactly when it has to be, if its seek is well formed.
LEMMA ParsedCommand ==
  ASSUME NEW line \in Seq(Byte), Contains(line, SEEK) => IsSeekLine(line),
         NEW seekto \in ParseSeekTo(line)
  PROVE  seekto = NotSeek <=> IsCommand(line)
<1>1. CASE ~Contains(line, SEEK)
  BY <1>1, ParseNoSeek DEF IsCommand
<1>2. CASE Contains(line, SEEK)
  <2>1. IsSeekLine(line) /\ seekto = SeekArgs(line)
    BY <1>2, ParseSeek
  <2>2. IsCommand(line) <=> Number(SeekX(line)) > ULongMax \/ Number(SeekY(line)) > ULongMax
    BY <1>2, <2>1 DEF IsCommand
  <2>3. \A a, c : <<a, c>> # NotSeek
    BY DEF NotSeek
  <2> QED BY <2>1, <2>2, <2>3, Zenon DEF SeekArgs
<1> QED BY <1>1, <1>2

-----------------------------------------------------------------------------
(* The device *)

\* The ring, with blocks as long as the sizes in its entries say.
ExactRing(b) ==
  /\ WellFormed(b)
  /\ \A k \in 1..Count(b) : Contents(b)[k].size = Len(Contents(b)[k].buffptr)

\* The entry aesd_write makes of the bytes it collected.
EntryOf(line) == [buffptr |-> line, size |-> Len(line)]

LEMMA EntryOfLine ==
  ASSUME Addrs = Seq(Byte), NEW line \in Seq(Byte), Len(line) # 0
  PROVE  /\ EntryOf(line) \in Entry
         /\ EntryOf(line).buffptr = line /\ EntryOf(line).size = Len(line)
<1>1. Len(line) \in Nat \ {0}
  BY LenProperties
<1> QED BY <1>1 DEF EntryOf, Entry

LEMMA ExactAfterAdd ==
  ASSUME NEW b, ExactRing(b), NEW e \in Entry, e.size = Len(e.buffptr)
  PROVE  ExactRing(AddEntry(b, e))
<1> DEFINE c == AddEntry(b, e)
           n == Count(b)
<1>1. WellFormed(b) /\ WellFormed(c)
  BY AddEntryWellFormed DEF ExactRing
<1>2. n \in Nat
  BY <1>1, ContentsAreEntries, MaxEntriesAssumption
<1>3. \A k \in 1..n : Contents(b)[k].size = Len(Contents(b)[k].buffptr)
  BY DEF ExactRing
<1>4. CASE b.full
  <2>1. /\ Count(c) = n
        /\ \A k \in 1..n : Contents(c)[k] = IF k = n THEN e ELSE Contents(b)[k + 1]
    BY <1>1, <1>4, ContentsAfterAdd
  <2> HIDE DEF c, n
  <2>2. \A k \in 1..n : k # n => k + 1 \in 1..n
    BY <1>2
  <2>3. ASSUME NEW k \in 1..Count(c) PROVE Contents(c)[k].size = Len(Contents(c)[k].buffptr)
    <3>1. CASE k = n
      BY <2>1, <3>1
    <3>2. CASE k # n
      BY <1>3, <2>1, <2>2, <3>2
    <3> QED BY <3>1, <3>2
  <2>4. ExactRing(c)
    BY <1>1, <2>3 DEF ExactRing
  <2> QED BY <2>4 DEF c
<1>5. CASE ~b.full
  <2>1. /\ Count(c) = n + 1
        /\ \A k \in 1..(n + 1) : Contents(c)[k] = IF k = n + 1 THEN e ELSE Contents(b)[k]
    BY <1>1, <1>5, ContentsAfterAdd
  <2> HIDE DEF c, n
  <2>2. \A k \in 1..(n + 1) : k # n + 1 => k \in 1..n
    BY <1>2
  <2>3. ASSUME NEW k \in 1..Count(c) PROVE Contents(c)[k].size = Len(Contents(c)[k].buffptr)
    <3>1. CASE k = n + 1
      BY <2>1, <3>1
    <3>2. CASE k # n + 1
      BY <1>3, <2>1, <2>2, <3>2
    <3> QED BY <3>1, <3>2
  <2>4. ExactRing(c)
    BY <1>1, <2>3 DEF ExactRing
  <2> QED BY <2>4 DEF c
<1> QED BY <1>4, <1>5

\* aesd_write: what it collects, and when it becomes an entry.
LEMMA DeviceWriteKeeps ==
  ASSUME Addrs = Seq(Byte), ExactRing(buffer), partial \in Seq(Byte),
         NEW buf \in Seq(Byte), Len(buf) # 0, DeviceWrite(buf)
  PROVE  ExactRing(buffer') /\ partial' \in Seq(Byte)
<1> DEFINE t == partial \o LinePart(buf)
<1>1. t \in Seq(Byte) /\ Len(t) # 0
  <2>1. LinePart(buf) \in Seq(Byte) /\ Len(LinePart(buf)) \in 1..Len(buf)
    BY Parts
  <2>2. Len(partial) \in Nat /\ Len(buf) \in Nat
    BY LenProperties
  <2>3. t \in Seq(Byte) /\ Len(t) = Len(partial) + Len(LinePart(buf))
    BY <2>1, ConcatProperties
  <2> HIDE DEF t
  <2> QED BY <2>1, <2>2, <2>3
<1>2. IF Last(t) = NL THEN buffer' = AddEntry(buffer, EntryOf(t)) /\ partial' = << >>
      ELSE partial' = t /\ UNCHANGED buffer
  BY DEF DeviceWrite, LinePart, EntryOf
<1> HIDE DEF t
<1>3. CASE Last(t) = NL
  <2>1. EntryOf(t) \in Entry /\ EntryOf(t).size = Len(EntryOf(t).buffptr)
    BY <1>1, EntryOfLine
  <2>2. ExactRing(AddEntry(buffer, EntryOf(t)))
    BY <2>1, ExactAfterAdd
  <2> QED BY <1>2, <1>3, <2>2, EmptySeq
<1>4. CASE Last(t) # NL
  BY <1>1, <1>2, <1>4
<1> QED BY <1>3, <1>4

\* A whole line, written when nothing is pending, becomes one entry.
LEMMA DeviceWriteLine ==
  ASSUME partial = << >>, NEW buf \in Seq(Byte), Newlines(buf) = {Len(buf)}, DeviceWrite(buf)
  PROVE  /\ Len(buf) # 0
         /\ buffer' = AddEntry(buffer, EntryOf(buf)) /\ partial' = << >>
<1>1. Len(buf) \in Nat
  BY LenProperties
<1>2. Len(buf) \in 1..Len(buf) /\ buf[Len(buf)] = NL /\ \A i \in 1..Len(buf) : buf[i] = NL => i = Len(buf)
  BY DEF Newlines
<1>3. Len(buf) # 0
  BY <1>1, <1>2
<1>4. CurrLen(buf) = Len(buf)
  <2>1. HasNL(buf)
    BY <1>2 DEF HasNL, Contains
  <2>2. CurrLen(buf) \in 1..Len(buf) /\ buf[CurrLen(buf)] = NL
    BY <1>3, <2>1, CurrLenBound, FirstLine
  <2> QED BY <1>2, <2>2
<1>5. SubSeq(buf, 1, CurrLen(buf)) = buf
  BY <1>4, SubSeqFull
<1>6. partial \o SubSeq(buf, 1, CurrLen(buf)) = buf
  BY <1>5, ConcatEmptySeq
<1>7. Last(buf) = NL
  BY <1>2 DEF Last
<1> QED BY <1>3, <1>6, <1>7 DEF DeviceWrite, EntryOf


\* The entries of the ring are the latest of some commands.
LatestKept(b, commands) ==
  LET n == Len(commands)
      c == Count(b)
  IN  /\ c = IF n <= MaxEntries THEN n ELSE MaxEntries
      /\ \A k \in 1..c : Contents(b)[k].buffptr = commands[n - c + k]

LEMMA LatestAfterAdd ==
  ASSUME NEW b, WellFormed(b), NEW commands \in Seq(Seq(Byte)), LatestKept(b, commands),
         NEW e \in Entry, NEW line \in Seq(Byte), e.buffptr = line
  PROVE  LatestKept(AddEntry(b, e), Append(commands, line))
<1> DEFINE d == AddEntry(b, e)
           n == Len(commands)
           c == Count(b)
           u == Append(commands, line)
<1>1. n \in Nat /\ MaxEntries \in Nat
  BY LenProperties, MaxEntriesAssumption
<1>2. /\ Len(u) = n + 1 /\ u[n + 1] = line
      /\ \A k \in 1..n : u[k] = commands[k]
  BY AppendProperties
<1>3. /\ c = IF n <= MaxEntries THEN n ELSE MaxEntries
      /\ \A k \in 1..c : Contents(b)[k].buffptr = commands[n - c + k]
  BY DEF LatestKept
<1>4. WellFormed(d)
  BY AddEntryWellFormed
<1>5. CASE b.full
  <2>1. /\ c = MaxEntries /\ Count(d) = c
        /\ \A k \in 1..c : Contents(d)[k] = IF k = c THEN e ELSE Contents(b)[k + 1]
    BY <1>5, ContentsAfterAdd
  <2> HIDE DEF d, n, c, u
  <2>2. n >= MaxEntries /\ ~(n + 1 <= MaxEntries) /\ n - c \in Nat
    BY <1>1, <1>3, <2>1
  <2>3. ASSUME NEW k \in 1..c PROVE Contents(d)[k].buffptr = u[(n + 1) - c + k]
    <3>1. CASE k = c
      <4>1. (n + 1) - c + k = n + 1
        BY <1>1, <2>1, <3>1
      <4> QED BY <1>2, <2>1, <3>1, <4>1
    <3>2. CASE k # c
      <4>1. k + 1 \in 1..c /\ (n + 1) - c + k = n - c + (k + 1) /\ n - c + (k + 1) \in 1..n
        BY <1>1, <2>1, <2>2, <3>2
      <4>2. Contents(d)[k].buffptr = commands[n - c + (k + 1)]
        BY <1>3, <2>1, <3>2, <4>1
      <4> QED BY <1>2, <4>1, <4>2
    <3> QED BY <3>1, <3>2
  <2>4. LatestKept(d, u)
    BY <1>2, <2>1, <2>2, <2>3 DEF LatestKept
  <2> QED BY <2>4 DEF d, u
<1>6. CASE ~b.full
  <2>1. /\ Count(d) = c + 1
        /\ \A k \in 1..(c + 1) : Contents(d)[k] = IF k = c + 1 THEN e ELSE Contents(b)[k]
    BY <1>6, ContentsAfterAdd
  <2>2. Count(d) \in 0..MaxEntries
    BY <1>4, ContentsAreEntries
  <2> HIDE DEF d, n, c, u
  <2>3. c = n /\ n + 1 <= MaxEntries
    BY <1>1, <1>3, <2>1, <2>2
  <2>4. ASSUME NEW k \in 1..(c + 1) PROVE Contents(d)[k].buffptr = u[(n + 1) - (c + 1) + k]
    <3>1. (n + 1) - (c + 1) + k = k /\ n - c + k = k
      BY <1>1, <2>3
    <3>2. CASE k = c + 1
      BY <1>2, <2>1, <2>3, <3>1, <3>2
    <3>3. CASE k # c + 1
      <4>1. k \in 1..c /\ k \in 1..n
        BY <1>1, <2>3, <3>3
      <4>2. Contents(d)[k] = Contents(b)[k]
        BY <2>1, <3>3, Zenon
      <4>3. Contents(b)[k].buffptr = commands[k]
        <5>1. Contents(b)[k].buffptr = commands[n - c + k]
          BY <1>3, <4>1, Zenon
        <5> QED BY <3>1, <5>1, Zenon
      <4>4. u[(n + 1) - (c + 1) + k] = commands[k]
        <5>1. u[k] = commands[k]
          BY <1>2, <4>1, Zenon
        <5> QED BY <3>1, <5>1, Zenon
      <4> QED BY <4>2, <4>3, <4>4, Zenon
    <3> QED BY <3>2, <3>3
  <2>5. LatestKept(d, u)
    BY <1>2, <2>1, <2>3, <2>4 DEF LatestKept
  <2> QED BY <2>5 DEF d, u
<1> QED BY <1>5, <1>6

\* The same said of the sequences.
LEMMA LatestIsSuffix ==
  ASSUME NEW b, WellFormed(b), NEW commands \in Seq(Seq(Byte)), LatestKept(b, commands)
  PROVE  LET n == Len(commands)
         IN  /\ Count(b) = Min({n, MaxEntries})
             /\ Kept(b) = SubSeq(commands, n - Count(b) + 1, n)
<1> DEFINE n == Len(commands)
           c == Count(b)
           t == SubSeq(commands, n - c + 1, n)
<1>1. n \in Nat /\ MaxEntries \in Nat
  BY LenProperties, MaxEntriesAssumption
<1>2. /\ c = IF n <= MaxEntries THEN n ELSE MaxEntries
      /\ \A k \in 1..c : Contents(b)[k].buffptr = commands[n - c + k]
  BY DEF LatestKept
<1>3. Kept(b) = [k \in 1..c |-> Contents(b)[k].buffptr]
  BY DEF Kept
<1>4. \A i \in 1..n : commands[i] \in Seq(Byte)
  BY ElementOfSeq
<1> HIDE DEF n, c
<1>5. c = Min({n, MaxEntries})
  <2> DEFINE T == {n, MaxEntries}
  <2>1. T \subseteq Nat /\ c \in T /\ \A y \in T : c <= y
    BY <1>1, <1>2
  <2> HIDE DEF T
  <2>2. Min(T) = c
    BY <2>1, MinIs
  <2> QED BY <2>2 DEF T
<1>6. c \in Nat /\ n - c + 1 \in Int /\ n \in Int /\ n - (n - c + 1) + 1 = c
      /\ \A i \in (n - c + 1)..n : i \in 1..n
  BY <1>1, <1>2
<1>7. /\ t \in Seq(Seq(Byte)) /\ Len(t) = IF n - c + 1 <= n THEN c ELSE 0
      /\ \A i \in 1..c : t[i] = commands[(n - c + 1) + i - 1]
  <2>1. \A i \in (n - c + 1)..n : commands[i] \in Seq(Byte)
    BY <1>4, <1>6
  <2> DEFINE m == n - c + 1
  <2>2. m \in Int /\ n - m + 1 = c /\ \A i \in m..n : commands[i] \in Seq(Byte)
    BY <1>6, <2>1
  <2> HIDE DEF m
  <2>3. LET v == SubSeq(commands, m, n)
        IN  /\ v \in Seq(Seq(Byte)) /\ Len(v) = IF m <= n THEN n - m + 1 ELSE 0
            /\ \A i \in 1..(n - m + 1) : v[i] = commands[m + i - 1]
    BY <1>6, <2>2, SubSeqProperties
  <2> QED BY <2>2, <2>3 DEF m
<1> HIDE DEF t
<1>8. Len(t) = c
  BY <1>1, <1>6, <1>7
<1>9. t = [k \in 1..c |-> t[k]]
  <2>1. t \in [1..Len(t) -> Seq(Byte)]
    BY <1>7, LenProperties
  <2> QED BY <1>8, <2>1
<1>10. \A k \in 1..c : t[k] = Contents(b)[k].buffptr
  <2>1. \A k \in 1..c : (n - c + 1) + k - 1 = n - c + k
    BY <1>1, <1>6
  <2> QED BY <1>2, <1>7, <2>1
<1>11. Kept(b) = t
  BY <1>3, <1>9, <1>10, Zenon
<1> QED BY <1>5, <1>11 DEF n, c, t


-----------------------------------------------------------------------------
(* The line a recv() completes *)

\* A stream that is empty or ends with a newline.
EndsLine(s) == Len(s) = 0 \/ s[Len(s)] = NL

\* A line after such a stream is its last line, whatever is begun after it.
LEMMA LastLineIs ==
  ASSUME NEW s \in Seq(Byte), EndsLine(s), NEW line \in Seq(Byte), Newlines(line) = {Len(line)},
         NEW t \in Seq(Byte), Newlines(t) = {}
  PROVE  LastLine((s \o line) \o t) = line
<1> DEFINE u == (s \o line) \o t
           a == Len(s)
           b == Len(line)
           c == Len(t)
           ends == Newlines(u)
<1>1. a \in Nat /\ b \in Nat /\ c \in Nat
  BY LenProperties
<1>2. /\ s \o line \in Seq(Byte) /\ Len(s \o line) = a + b
      /\ \A i \in 1..(a + b) : (s \o line)[i] = IF i <= a THEN s[i] ELSE line[i - a]
  BY ConcatProperties
<1>3. /\ u \in Seq(Byte) /\ Len(u) = (a + b) + c
      /\ \A i \in 1..((a + b) + c) : u[i] = IF i <= a + b THEN (s \o line)[i] ELSE t[i - (a + b)]
  BY <1>2, ConcatProperties
<1>4. b \in 1..b /\ line[b] = NL /\ \A i \in 1..b : line[i] = NL => i = b
  BY DEF Newlines
<1>5. \A i \in 1..c : t[i] # NL
  BY DEF Newlines
<1>6. a # 0 => s[a] = NL
  BY DEF EndsLine
<1>7. \A i : i \in ends <=> i \in 1..Len(u) /\ u[i] = NL
  BY DEF Newlines
<1> HIDE DEF u, a, b, c, ends
<1>8. \A i \in 1..a : u[i] = s[i]
  <2> SUFFICES ASSUME NEW i \in 1..a PROVE u[i] = s[i]
    OBVIOUS
  <2>1. i \in 1..((a + b) + c) /\ i <= a + b /\ i \in 1..(a + b) /\ i <= a
    BY <1>1
  <2> QED BY <1>2, <1>3, <2>1
<1>9. \A i \in 1..b : u[a + i] = line[i]
  <2> SUFFICES ASSUME NEW i \in 1..b PROVE u[a + i] = line[i]
    OBVIOUS
  <2>1. a + i \in 1..((a + b) + c) /\ a + i <= a + b /\ a + i \in 1..(a + b)
        /\ ~(a + i <= a) /\ (a + i) - a = i
    BY <1>1
  <2> QED BY <1>2, <1>3, <2>1
<1>10. \A i \in 1..Len(u) : i > a + b => u[i] # NL
  <2> SUFFICES ASSUME NEW i \in 1..Len(u), i > a + b PROVE u[i] # NL
    OBVIOUS
  <2>1. i \in 1..((a + b) + c) /\ ~(i <= a + b) /\ i - (a + b) \in 1..c
    BY <1>1, <1>3
  <2> QED BY <1>3, <1>5, <2>1
<1>11. a + b \in ends
  <2>1. a + b \in 1..Len(u)
    BY <1>1, <1>3, <1>4
  <2>2. u[a + b] = NL
    BY <1>4, <1>9
  <2> QED BY <1>7, <2>1, <2>2
<1>12. ends \subseteq Nat /\ \A i \in ends : i <= a + b
  BY <1>1, <1>3, <1>7, <1>10
<1>13. Max(ends) = a + b
  BY <1>11, <1>12, MaxIs
<1>14. ASSUME NEW i \in ends, i # a + b PROVE i <= a
  <2> SUFFICES ASSUME ~(i <= a) PROVE FALSE
    OBVIOUS
  <2>1. i \in Nat /\ i <= a + b /\ u[i] = NL
    BY <1>7, <1>12
  <2>2. i - a \in 1..b /\ a + (i - a) = i /\ i - a # b
    BY <1>1, <1>14, <2>1
  <2>3. u[a + (i - a)] = line[i - a]
    BY <1>9, <2>2
  <2> QED BY <1>4, <2>1, <2>2, <2>3
<1> DEFINE T == {0} \cup (ends \ {a + b})
<1>15. T \subseteq Nat /\ \A i \in T : i <= a
  <2>1. 0 <= a /\ 0 \in Nat
    BY <1>1
  <2>2. T \subseteq Nat
    BY <1>12, <2>1, Zenon
  <2>3. ASSUME NEW i \in T PROVE i <= a
    <3>1. CASE i = 0
      BY <2>1, <3>1
    <3>2. CASE i # 0
      <4>1. i \in ends /\ i # a + b
        BY <3>2, Zenon
      <4> QED BY <1>14, <4>1
    <3> QED BY <3>1, <3>2
  <2> QED BY <2>2, <2>3
<1>16. a \in T
  <2>1. CASE a = 0
    BY <2>1
  <2>2. CASE a # 0
    <3>1. a \in 1..a /\ a \in 1..Len(u) /\ a # a + b
      BY <1>1, <1>3, <1>4, <2>2
    <3>2. a \in ends
      BY <1>6, <1>7, <1>8, <2>2, <3>1
    <3> QED BY <3>1, <3>2
  <2> QED BY <2>1, <2>2
<1> HIDE DEF T
<1>17. Max(T) = a
  BY <1>15, <1>16, MaxIs
<1>18. LastLine(u) = SubSeq(u, a + 1, a + b)
  <2>1. LastLine(u) = SubSeq(u, Max({0} \cup (ends \ {Max(ends)})) + 1, Max(ends))
    BY DEF LastLine, ends
  <2> QED BY <1>13, <1>17, <2>1 DEF T
<1> DEFINE v == SubSeq(u, a + 1, a + b)
<1>19. v \in Seq(Byte) /\ Len(v) = b /\ \A i \in 1..b : v[i] = line[i]
  <2>1. /\ a + 1 \in Int /\ a + b \in Int /\ a + 1 <= a + b
        /\ (a + b) - (a + 1) + 1 = b /\ \A i \in (a + 1)..(a + b) : i \in 1..Len(u)
    BY <1>1, <1>3, <1>4
  <2>2. \A i \in (a + 1)..(a + b) : u[i] \in Byte
    BY <1>3, <2>1, ElementOfSeq
  <2>3. /\ v \in Seq(Byte) /\ Len(v) = b
        /\ \A i \in 1..b : v[i] = u[(a + 1) + i - 1]
    BY <2>1, <2>2, SubSeqProperties
  <2>4. \A i \in 1..b : (a + 1) + i - 1 = a + i
    BY <1>1
  <2> HIDE DEF v
  <2> QED BY <1>9, <2>3, <2>4
<1> HIDE DEF v
<1>20. v = line
  BY <1>19, SeqEqual DEF b
<1> QED BY <1>18, <1>20 DEF v, u


\* The streams LinesAreCommands is about, and the logs.
Orderly == OneLineAtATime /\ ~Contains(Received, NUL)
SeeksFormed(lines) == \A i \in 1..Len(lines) : Contains(lines[i], SEEK) => IsSeekLine(lines[i])

\* What is known of the receive buffer.
StreamInv ==
  /\ HistoryType /\ NothingLost /\ WritesAreLines
  /\ Orderly => EndsLine(FlattenSeq(written))

\* The line that a recv() completes is the one appended to the data file.
LEMMA CompletedLine ==
  ASSUME StreamInv, NEW w \in Chunks, Receive(w), Orderly', HasNL(w)
  PROVE  /\ Orderly
         /\ Last(written') \in Seq(Byte)
         /\ Newlines(Last(written')) = {Len(Last(written'))}
         /\ LastLine(Received') = Last(written')
         /\ EndsLine(FlattenSeq(written'))
<1> DEFINE line == text \o LinePart(w)
           s == FlattenSeq(written)
           n == Len(written)
<1>1. HistoryType /\ NothingLost /\ WritesAreLines
  BY DEF StreamInv
<1>2. OneLineAtATime' /\ ~Contains(Received', NUL)
  BY DEF Orderly
<1>3. Orderly
  BY <1>1, <1>2, OneLineBefore, ReceivePlain DEF Orderly
<1>4. s \in Seq(Byte) /\ EndsLine(s)
  <2>1. written \in Seq(Seq(Byte)) /\ << >> \in Seq(Byte)
    BY <1>1, EmptySeq DEF HistoryType
  <2> QED BY <1>3, <2>1, FlattenAppend DEF StreamInv
<1>5. HistoryType' /\ NothingLost' /\ WritesAreLines'
  BY <1>1, ReceiveHistory, ReceiveKeepsBytes, ReceiveWritesLines
<1>6. text \in Seq(Byte) /\ written \in Seq(Seq(Byte)) /\ text' \in Seq(Byte)
  BY <1>1, <1>5 DEF HistoryType
<1>7. line \in Seq(Byte)
  <2>1. w \in Seq(Byte) /\ Len(w) # 0
    BY <1>1, ReceiveHistory
  <2> QED BY <1>6, <2>1, Parts, ConcatProperties
<1>8. written' = Append(written, line)
  BY <1>1, <1>2, ReceivePlain
<1> HIDE DEF line
<1>9. Len(written') = n + 1 /\ written'[n + 1] = line /\ n \in Nat
  BY <1>6, <1>7, <1>8, AppendProperties, LenProperties
<1>10. Last(written') = line
  BY <1>9 DEF Last
<1>11. Newlines(line) = {Len(line)} /\ Newlines(text') = {}
  <2>1. /\ \A i \in 1..Len(written') : Newlines(written'[i]) = {Len(written'[i])}
        /\ Newlines(text') = {}
    BY <1>2, <1>5 DEF WritesAreLines, Newlines
  <2>2. n + 1 \in 1..Len(written')
    BY <1>9
  <2> QED BY <1>9, <2>1, <2>2
<1>12. FlattenSeq(written') = s \o line
  BY <1>6, <1>7, <1>8, FlattenAppend
<1>13. Received' = (s \o line) \o text'
  BY <1>2, <1>5, <1>12 DEF NothingLost
<1>14. LastLine(Received') = line
  BY <1>4, <1>6, <1>7, <1>11, <1>13, LastLineIs
<1>15. EndsLine(s \o line)
  <2> DEFINE u == s \o line
             a == Len(s)
             b == Len(line)
  <2>1. a \in Nat /\ b \in Nat
    BY <1>4, <1>7, LenProperties
  <2>2. Len(u) = a + b /\ \A i \in 1..(a + b) : u[i] = IF i <= a THEN s[i] ELSE line[i - a]
    BY <1>4, <1>7, ConcatProperties
  <2>3. b \in 1..b /\ line[b] = NL
    BY <1>11 DEF Newlines
  <2> HIDE DEF u, a, b, s
  <2>4. a + b \in 1..(a + b) /\ ~(a + b <= a) /\ (a + b) - a = b
    BY <2>1, <2>3
  <2>5. u[a + b] = NL
    BY <2>2, <2>3, <2>4
  <2>6. EndsLine(u)
    BY <2>2, <2>5 DEF EndsLine
  <2> QED BY <2>6 DEF u
<1> QED BY <1>3, <1>7, <1>10, <1>11, <1>12, <1>14, <1>15


\* What was orderly is so before each recv().
LEMMA OrderlyBefore ==
  ASSUME HistoryType, NEW w \in Chunks, Receive(w), Orderly'
  PROVE  Orderly
<1>1. OneLineAtATime' /\ ~Contains(Received', NUL)
  BY DEF Orderly
<1> QED BY <1>1, OneLineBefore, ReceivePlain DEF Orderly

LEMMA StreamInit == FInit => StreamInv
<1> SUFFICES ASSUME FInit PROVE StreamInv
  OBVIOUS
<1>1. HistoryType /\ NothingLost
  BY HistoryInit
<1>2. WritesAreLines
  BY DEF FInit, WritesAreLines, Newlines
<1>3. EndsLine(FlattenSeq(written))
  <2>1. << >> \in Seq(Seq(Byte)) /\ << >> \in Seq(Byte) /\ Len(<< >>) = 0
    BY EmptySeq
  <2>2. FlattenSeq(<< >>) = << >>
    BY <2>1, FlattenAppend
  <2> QED BY <2>1, <2>2 DEF FInit, EndsLine
<1> QED BY <1>1, <1>2, <1>3 DEF StreamInv

LEMMA StreamKept ==
  ASSUME StreamInv, [FNext]_fvars
  PROVE  StreamInv'
<1>1. HistoryType /\ NothingLost /\ WritesAreLines
  BY DEF StreamInv
<1>2. ASSUME NEW w \in Chunks, Receive(w)
      PROVE  StreamInv'
  <2>1. HistoryType' /\ NothingLost' /\ WritesAreLines'
    BY <1>1, <1>2, ReceiveHistory, ReceiveKeepsBytes, ReceiveWritesLines
  <2>2. ASSUME Orderly' PROVE EndsLine(FlattenSeq(written'))
    <3>1. CASE HasNL(w)
      BY <1>2, <2>2, <3>1, CompletedLine
    <3>2. CASE ~HasNL(w)
      <4>1. written' = written
        BY <1>2, <3>2 DEF Receive
      <4>2. Orderly
        BY <1>1, <1>2, <2>2, OrderlyBefore
      <4> QED BY <4>1, <4>2 DEF StreamInv
    <3> QED BY <3>1, <3>2
  <2> QED BY <2>1, <2>2 DEF StreamInv, EndsLine
<1>3. CASE UNCHANGED fvars
  BY <1>3 DEF fvars, StreamInv, HistoryType, NothingLost, WritesAreLines, OneLineAtATime,
              Received, Newlines, Orderly, EndsLine
<1> QED BY <1>2, <1>3 DEF FNext

\* The commands in the device are the latest lines; for the streams in question.
LogInv ==
  /\ ExactRing(buffer) /\ partial \in Seq(Byte)
  /\ Orderly => log \in Seq(Seq(Byte))
  /\ Orderly /\ SeeksFormed(log) => partial = << >> /\ LatestKept(buffer, Commands(log))

\* A log with one more line.
LEMMA LogAppended ==
  ASSUME NEW lines \in Seq(Seq(Byte)), NEW line \in Seq(Byte)
  PROVE  /\ Append(lines, line) \in Seq(Seq(Byte))
         /\ SeeksFormed(Append(lines, line)) =>
              SeeksFormed(lines) /\ (Contains(line, SEEK) => IsSeekLine(line))
<1> DEFINE u == Append(lines, line)
           n == Len(lines)
<1>1. /\ u \in Seq(Seq(Byte)) /\ Len(u) = n + 1 /\ n \in Nat
      /\ \A i \in 1..n : u[i] = lines[i]
      /\ u[n + 1] = line
  BY AppendProperties, LenProperties
<1> HIDE DEF u, n
<1>2. n + 1 \in 1..(n + 1) /\ \A i \in 1..n : i \in 1..(n + 1)
  BY <1>1
<1>3. ASSUME SeeksFormed(u)
      PROVE  SeeksFormed(lines) /\ (Contains(line, SEEK) => IsSeekLine(line))
  <2>1. \A i \in 1..(n + 1) : Contains(u[i], SEEK) => IsSeekLine(u[i])
    BY <1>1, <1>3 DEF SeeksFormed
  <2>2. \A i \in 1..n : Contains(lines[i], SEEK) => IsSeekLine(lines[i])
    BY <1>1, <1>2, <2>1
  <2>3. Contains(line, SEEK) => IsSeekLine(line)
    BY <1>1, <1>2, <2>1
  <2> QED BY <2>2, <2>3 DEF SeeksFormed, n
<1> QED BY <1>1, <1>3 DEF u

\* Writing a line to the device when it has to be stored.
LEMMA LatestAfterWrite ==
  ASSUME Addrs = Seq(Byte), ExactRing(buffer), partial = << >>,
         NEW lines \in Seq(Seq(Byte)), LatestKept(buffer, Commands(lines)),
         NEW line \in Seq(Byte), Newlines(line) = {Len(line)}, IsCommand(line),
         DeviceWrite(line)
  PROVE  partial' = << >> /\ LatestKept(buffer', Commands(Append(lines, line)))
<1>1. /\ Len(line) # 0
      /\ buffer' = AddEntry(buffer, EntryOf(line)) /\ partial' = << >>
  BY DeviceWriteLine
<1>2. EntryOf(line) \in Entry /\ EntryOf(line).buffptr = line
  BY <1>1, EntryOfLine
<1>3. /\ Commands(lines) \in Seq(Seq(Byte))
      /\ Commands(Append(lines, line)) = Append(Commands(lines), line)
  BY CommandsAppend
<1>4. WellFormed(buffer)
  BY DEF ExactRing
<1>5. LatestKept(AddEntry(buffer, EntryOf(line)), Append(Commands(lines), line))
  BY <1>2, <1>3, <1>4, LatestAfterAdd
<1> QED BY <1>1, <1>3, <1>5


\* A line of another connection is not empty.
LEMMA OtherLineType ==
  ASSUME NEW line \in OtherLines
  PROVE  /\ line \in Seq(Byte) /\ Len(line) # 0
         /\ Newlines(line) = {Len(line)} /\ IsCommand(line)
<1>1. line \in Seq(Byte) /\ Newlines(line) = {Len(line)} /\ IsCommand(line)
  BY SessionAssumption, OtherLinesAssumption
<1>2. Len(line) \in Nat /\ Len(line) \in 1..Len(line)
  BY <1>1, LenProperties DEF Newlines
<1> QED BY <1>1, <1>2

\* The string given to append_datafile.
LEMMA WrittenLine ==
  ASSUME HistoryType, NEW w \in Chunks, Deliver(w), HasNL(w)
  PROVE  Last(written') \in Seq(Byte) /\ Len(Last(written')) # 0
<1>1. Receive(w) /\ Last(written') # << >>
  BY DEF Deliver
<1>2. written' \in Seq(Seq(Byte))
  BY <1>1, ReceiveHistory DEF HistoryType
<1> DEFINE line == text \o CString(LinePart(w))
<1>3. line \in Seq(Byte) /\ written \in Seq(Seq(Byte))
  <2>1. w \in Seq(Byte) /\ Len(w) # 0
    BY <1>1, ReceiveHistory
  <2>2. CString(LinePart(w)) \in Seq(Byte)
    BY <2>1, Parts, StrLenBound
  <2> QED BY <2>2, ConcatProperties DEF HistoryType
<1>4. Len(written') \in Nat /\ Len(written') # 0
  <2>1. written' = Append(written, line)
    BY <1>1, Zenon DEF Receive, LinePart
  <2> HIDE DEF line
  <2>2. Len(written') = Len(written) + 1 /\ Len(written) \in Nat
    BY <1>3, <2>1, AppendProperties, LenProperties
  <2> QED BY <2>2
<1>5. Last(written') \in Seq(Byte)
  <2>1. Len(written') \in 1..Len(written')
    BY <1>4
  <2> QED BY <1>2, <2>1, ElementOfSeq DEF Last
<1> QED BY <1>1, <1>5, EmptySeq

\* The device is well formed after every step.
LEMMA RingKept ==
  ASSUME Addrs = Seq(Byte), HistoryType, ExactRing(buffer), partial \in Seq(Byte), [SNext]_vars
  PROVE  ExactRing(buffer') /\ partial' \in Seq(Byte)
<1>1. ASSUME NEW w \in Chunks, Deliver(w)
      PROVE  ExactRing(buffer') /\ partial' \in Seq(Byte)
  <2>1. CASE HasNL(w)
    <3> DEFINE line == Last(written')
    <3>1. line \in Seq(Byte) /\ Len(line) # 0
      BY <1>1, <2>1, WrittenLine
    <3>2. PICK seekto \in ParseSeekTo(line) : AppendDatafile(line, seekto)
      BY <1>1, <2>1, Zenon DEF Deliver
    <3> HIDE DEF line
    <3>3. DeviceWrite(line) \/ UNCHANGED <<buffer, partial>>
      BY <3>2, Zenon DEF AppendDatafile
    <3>4. CASE DeviceWrite(line)
      BY <3>1, <3>4, DeviceWriteKeeps
    <3>5. CASE UNCHANGED <<buffer, partial>>
      BY <3>5
    <3> QED BY <3>3, <3>4, <3>5
  <2>2. CASE ~HasNL(w)
    <3>1. UNCHANGED <<buffer, partial>>
      BY <1>1, <2>2, Zenon DEF Deliver
    <3> QED BY <3>1
  <2> QED BY <2>1, <2>2
<1>2. ASSUME NEW line \in OtherLines, OtherLine(line)
      PROVE  ExactRing(buffer') /\ partial' \in Seq(Byte)
  <2>1. DeviceWrite(line)
    BY <1>2 DEF OtherLine
  <2> QED BY <2>1, OtherLineType, DeviceWriteKeeps
<1>3. CASE UNCHANGED vars
  BY <1>3 DEF vars
<1> QED BY <1>1, <1>2, <1>3 DEF SNext

LEMMA DeliverKeepsLog ==
  ASSUME Addrs = Seq(Byte), StreamInv, LogInv, NEW w \in Chunks, Deliver(w), Orderly'
  PROVE  /\ log' \in Seq(Seq(Byte))
         /\ SeeksFormed(log') => partial' = << >> /\ LatestKept(buffer', Commands(log'))
<1>1. HistoryType /\ Receive(w)
  BY DEF StreamInv, Deliver
<1>2. Orderly
  BY <1>1, OrderlyBefore
<1>3. /\ log \in Seq(Seq(Byte)) /\ ExactRing(buffer)
      /\ SeeksFormed(log) => partial = << >> /\ LatestKept(buffer, Commands(log))
  BY <1>2 DEF LogInv
<1>4. CASE HasNL(w)
  <2> DEFINE line == Last(written')
  <2>1. /\ line \in Seq(Byte) /\ Newlines(line) = {Len(line)}
        /\ LastLine(Received') = line
    BY <1>1, <1>4, CompletedLine
  <2>2. PICK seekto \in ParseSeekTo(line) : AppendDatafile(line, seekto)
    BY <1>4, Zenon DEF Deliver
  <2>3. log' = Append(log, line)
    <3>1. log' = Append(log, LastLine(FlattenSeq(received')))
      BY <1>4, Zenon DEF Deliver
    <3> QED BY <2>1, <3>1 DEF Received
  <2> HIDE DEF line
  <2>4. log' \in Seq(Seq(Byte))
    BY <1>3, <2>1, <2>3, LogAppended
  <2>5. ASSUME SeeksFormed(log')
        PROVE  partial' = << >> /\ LatestKept(buffer', Commands(log'))
    <3>1. SeeksFormed(log) /\ (Contains(line, SEEK) => IsSeekLine(line))
      BY <1>3, <2>1, <2>3, <2>5, LogAppended
    <3>2. partial = << >> /\ LatestKept(buffer, Commands(log))
      BY <1>3, <3>1
    <3>3. seekto = NotSeek <=> IsCommand(line)
      BY <2>1, <3>1, ParsedCommand
    <3>4. CASE IsCommand(line)
      <4>1. DeviceWrite(line)
        BY <2>2, <3>3, <3>4, Zenon DEF AppendDatafile
      <4> QED BY <1>3, <2>1, <2>3, <3>2, <3>4, <4>1, LatestAfterWrite
    <3>5. CASE ~IsCommand(line)
      <4>1. buffer' = buffer /\ partial' = partial
        BY <2>2, <3>3, <3>5, Zenon DEF AppendDatafile
      <4>2. Commands(log') = Commands(log)
        BY <1>3, <2>1, <2>3, <3>5, CommandsAppend
      <4> QED BY <3>2, <4>1, <4>2
    <3> QED BY <3>4, <3>5
  <2> QED BY <2>4, <2>5
<1>5. CASE ~HasNL(w)
  <2>1. UNCHANGED <<buffer, partial, log>>
    BY <1>5, Zenon DEF Deliver
  <2>2. buffer' = buffer /\ partial' = partial /\ log' = log
    BY <2>1
  <2> QED BY <1>3, <2>2
<1> QED BY <1>4, <1>5

LEMMA OtherKeepsLog ==
  ASSUME Addrs = Seq(Byte), LogInv, NEW line \in OtherLines, OtherLine(line), Orderly
  PROVE  /\ log' \in Seq(Seq(Byte))
         /\ SeeksFormed(log') => partial' = << >> /\ LatestKept(buffer', Commands(log'))
<1>1. DeviceWrite(line) /\ log' = Append(log, line)
  BY DEF OtherLine
<1>2. line \in Seq(Byte) /\ Newlines(line) = {Len(line)} /\ IsCommand(line)
  BY OtherLineType
<1>3. /\ log \in Seq(Seq(Byte)) /\ ExactRing(buffer)
      /\ SeeksFormed(log) => partial = << >> /\ LatestKept(buffer, Commands(log))
  BY DEF LogInv
<1>4. log' \in Seq(Seq(Byte))
  BY <1>1, <1>2, <1>3, LogAppended
<1>5. ASSUME SeeksFormed(log')
      PROVE  partial' = << >> /\ LatestKept(buffer', Commands(log'))
  <2>1. partial = << >> /\ LatestKept(buffer, Commands(log))
    BY <1>1, <1>2, <1>3, <1>5, LogAppended
  <2> QED BY <1>1, <1>2, <1>3, <2>1, LatestAfterWrite
<1> QED BY <1>4, <1>5


LEMMA LogInit ==
  ASSUME Addrs = Seq(Byte), SInit
  PROVE  LogInv
<1>1. buffer = EmptyBuffer /\ partial = << >> /\ log = << >>
  BY DEF SInit, CBInit
<1>2. WellFormed(EmptyBuffer) /\ Count(EmptyBuffer) = 0
  <2>1. EmptyBuffer.full = FALSE /\ EmptyBuffer.in_offs = 0
    BY DEF EmptyBuffer
  <2> QED BY <2>1, EmptyBufferWellFormed DEF Count
<1>3. ExactRing(buffer)
  BY <1>1, <1>2 DEF ExactRing
<1>4. << >> \in Seq(Seq(Byte)) /\ << >> \in Seq(Byte) /\ Len(<< >>) = 0
  BY EmptySeq
<1>5. Commands(<< >>) = << >>
  BY <1>4, CommandsAppend
<1>6. LatestKept(buffer, << >>)
  BY <1>1, <1>2, <1>4, MaxEntriesAssumption DEF LatestKept
<1> QED BY <1>1, <1>3, <1>4, <1>5, <1>6 DEF LogInv

LEMMA LogKept ==
  ASSUME Addrs = Seq(Byte), StreamInv, LogInv, [SNext]_vars
  PROVE  LogInv'
<1>1. ExactRing(buffer') /\ partial' \in Seq(Byte)
  BY RingKept DEF StreamInv, LogInv
<1>2. ASSUME Orderly'
      PROVE  /\ log' \in Seq(Seq(Byte))
             /\ SeeksFormed(log') => partial' = << >> /\ LatestKept(buffer', Commands(log'))
  <2>1. ASSUME NEW w \in Chunks, Deliver(w)
        PROVE  /\ log' \in Seq(Seq(Byte))
               /\ SeeksFormed(log') => partial' = << >> /\ LatestKept(buffer', Commands(log'))
    BY <1>2, <2>1, DeliverKeepsLog
  <2>2. ASSUME NEW line \in OtherLines, OtherLine(line)
        PROVE  /\ log' \in Seq(Seq(Byte))
               /\ SeeksFormed(log') => partial' = << >> /\ LatestKept(buffer', Commands(log'))
    <3>1. received' = received
      BY <2>2 DEF OtherLine, fvars
    <3>2. Orderly
      BY <1>2, <3>1 DEF Orderly, OneLineAtATime, Received, Newlines
    <3> QED BY <2>2, <3>2, OtherKeepsLog
  <2>3. CASE UNCHANGED vars
    <3>1. received' = received /\ log' = log /\ buffer' = buffer /\ partial' = partial
      BY <2>3 DEF vars, fvars
    <3>2. Orderly
      BY <1>2, <3>1 DEF Orderly, OneLineAtATime, Received, Newlines
    <3> QED BY <3>1, <3>2 DEF LogInv
  <2> QED BY <2>1, <2>2, <2>3 DEF SNext
<1> QED BY <1>1, <1>2 DEF LogInv

(***************************************************************************)
(* The device keeps the latest lines of all connections in the order of    *)
(* their writes, and nothing else: for every block size, every ring and    *)
(* every orderly stream, however recv() cuts it and others interleave.     *)
(***************************************************************************)
THEOREM SessionKeepsLines ==
  ASSUME Addrs = Seq(Byte)
  PROVE  SSpec => []LinesAreCommands
<1>1. SInit => StreamInv /\ LogInv
  BY StreamInit, LogInit DEF SInit
<1>2. StreamInv /\ LogInv /\ [SNext]_vars => StreamInv' /\ LogInv'
  BY SessionStep, StreamKept, LogKept
<1>3. StreamInv /\ LogInv => LinesAreCommands
  <2> SUFFICES ASSUME StreamInv, LogInv, Orderly, SeeksFormed(log)
               PROVE  LET commands == Commands(log)
                          n == Len(commands)
                      IN  /\ partial = << >>
                          /\ Count(buffer) = Min({n, MaxEntries})
                          /\ Kept(buffer) = SubSeq(commands, n - Count(buffer) + 1, n)
    BY DEF LinesAreCommands, Orderly, SeeksFormed
  <2>1. /\ log \in Seq(Seq(Byte)) /\ WellFormed(buffer)
        /\ partial = << >> /\ LatestKept(buffer, Commands(log))
    BY DEF LogInv, ExactRing
  <2>2. << >> \in Seq(Byte)
    BY EmptySeq
  <2>3. Commands(log) \in Seq(Seq(Byte))
    BY <2>1, <2>2, CommandsAppend
  <2> QED BY <2>1, <2>3, LatestIsSuffix
<1> QED BY <1>1, <1>2, <1>3, PTL DEF SSpec


-----------------------------------------------------------------------------
(* send_response *)

\* Everything the device holds, byte by byte.
LEMMA StreamOfRing ==
  ASSUME Addrs = Seq(Byte), NEW b, ExactRing(b)
  PROVE  /\ Stream(b) \in Seq(Byte)
         /\ Len(Stream(b)) = PrefixSize(b, Count(b))
         /\ \A k \in 1..Count(b) :
              /\ Contents(b)[k].buffptr \in Seq(Byte)
              /\ Contents(b)[k].size = Len(Contents(b)[k].buffptr)
              /\ \A j \in 1..Contents(b)[k].size :
                   Stream(b)[PrefixSize(b, k - 1) + j] = Contents(b)[k].buffptr[j]
<1> DEFINE n == Count(b)
           s == Kept(b)
           before == [k \in 0..n |-> PrefixSize(b, k)]
<1>1. WellFormed(b) /\ \A k \in 1..n : Contents(b)[k].size = Len(Contents(b)[k].buffptr)
  BY DEF ExactRing
<1>2. n \in Nat
  BY <1>1, ContentsAreEntries, MaxEntriesAssumption
<1>3. \A k \in 1..n : Contents(b)[k].buffptr \in Seq(Byte)
  <2>1. \A k \in 1..n : Contents(b)[k] \in Entry
    BY <1>1, ContentsAreEntries, ElementOfSeq
  <2> QED BY <2>1 DEF Entry
<1>4. s = [k \in 1..n |-> Contents(b)[k].buffptr]
  BY DEF Kept
<1>5. \A k \in 0..n : PrefixSize(b, k) \in Nat
  BY <1>1, PrefixGrows
<1> HIDE DEF n, s
<1>6. s \in [1..n -> Seq(Byte)] /\ \A k \in 1..n : s[k] = Contents(b)[k].buffptr
  BY <1>3, <1>4
<1>7. s \in Seq(Seq(Byte)) /\ Len(s) = n
  <2>1. s \in Seq(Seq(Byte))
    BY <1>2, <1>6
  <2>2. DOMAIN s = 1..n /\ DOMAIN s = 1..Len(s) /\ Len(s) \in Nat
    BY <1>6, <2>1, LenProperties
  <2> QED BY <1>2, <2>1, <2>2
<1>8. before \in [0..n -> Nat] /\ \A k \in 0..n : before[k] = PrefixSize(b, k)
  BY <1>5
<1> HIDE DEF before
<1>9. before[0] = 0
  <2>1. 0 \in 0..n
    BY <1>2
  <2> QED BY <1>1, <1>8, <2>1, PrefixSizes
<1>10. \A k \in 1..n : k \in 0..n /\ k - 1 \in 0..n
  BY <1>2
<1>11. \A k \in 1..n : before[k] = before[k - 1] + Len(s[k])
  <2> SUFFICES ASSUME NEW k \in 1..n PROVE before[k] = before[k - 1] + Len(s[k])
    OBVIOUS
  <2>1. PrefixSize(b, k) = PrefixSize(b, k - 1) + Contents(b)[k].size
    BY <1>1, PrefixSizes DEF n
  <2>2. Contents(b)[k].size = Len(s[k])
    BY <1>1, <1>6
  <2> QED BY <1>8, <1>10, <2>1, <2>2
<1>12. FlattenSeq(s) \in Seq(Byte) /\ Flattens(s, before, n, FlattenSeq(s))
  BY <1>7, <1>8, <1>9, <1>11, FlattenElements
<1>13. Stream(b) = FlattenSeq(s)
  BY DEF Stream, s
<1>14. Len(Stream(b)) = before[n] /\ n \in 0..n
  BY <1>2, <1>12, <1>13 DEF Flattens
<1>15. ASSUME NEW k \in 1..n, NEW j \in 1..Contents(b)[k].size
       PROVE  Stream(b)[PrefixSize(b, k - 1) + j] = Contents(b)[k].buffptr[j]
  <2>1. j \in 1..Len(s[k])
    BY <1>1, <1>6
  <2>2. Stream(b)[before[k - 1] + j] = s[k][j]
    BY <1>12, <1>13, <2>1 DEF Flattens
  <2> QED BY <1>6, <1>8, <1>10, <2>2
<1> QED BY <1>1, <1>3, <1>8, <1>12, <1>13, <1>14, <1>15 DEF n

\* The bytes of the device from a position on.
Rest(b, pos) == SubSeq(Stream(b), pos + 1, Len(Stream(b)))

\* One read(): the rest of an entry, then the rest of the device.
ReadStep(b, pos) ==
  LET found == FindEntry(b, pos)
      data == b.entry[found.ind].buffptr
      next == pos + Len(data) - found.offset
  IN  IF found = NULL THEN Rest(b, pos) = << >>
      ELSE /\ next \in Nat /\ next > pos
           /\ Rest(b, pos) = SubSeq(data, found.offset + 1, Len(data)) \o Rest(b, next)

LEMMA ReadsRest ==
  ASSUME Addrs = Seq(Byte), NEW b, ExactRing(b), NEW pos \in Nat
  PROVE  /\ ReadStep(b, pos)
         /\ pos >= Len(Stream(b)) => FindEntry(b, pos) = NULL
<1> DEFINE n == Count(b)
           all == Stream(b)
           found == FindEntry(b, pos)
<1>1. WellFormed(b) /\ n \in Nat
  BY ContentsAreEntries, MaxEntriesAssumption DEF ExactRing
<1>2. /\ all \in Seq(Byte) /\ Len(all) \in Nat /\ Len(all) = PrefixSize(b, n)
      /\ \A k \in 1..n :
           /\ Contents(b)[k].buffptr \in Seq(Byte)
           /\ Contents(b)[k].size = Len(Contents(b)[k].buffptr)
           /\ \A j \in 1..Contents(b)[k].size :
                all[PrefixSize(b, k - 1) + j] = Contents(b)[k].buffptr[j]
  BY StreamOfRing, LenProperties
<1>3. pos >= Len(all) => found = NULL
  BY <1>1, <1>2, FindEntryFinds DEF FoundAt
<1>4. CASE found = NULL
  <2>1. pos >= Len(all)
    <3> SUFFICES ASSUME ~(pos >= Len(all)) PROVE FALSE
      OBVIOUS
    <3>1. PICK k \in 1..n : found = [ind |-> PointerCast(b.out_offs + k - 1),
                                     offset |-> pos - PrefixSize(b, k - 1)]
                            /\ PrefixSize(b, k - 1) <= pos
      BY <1>1, <1>2, FindEntryFinds DEF FoundAt
    <3>2. PointerCast(b.out_offs + k - 1) \in Nat
      <4>1. b.out_offs \in Slots
        BY <1>1, BoundaryIsEnd
      <4>2. b.out_offs + k - 1 \in Nat
        BY <1>1, <4>1, MaxEntriesAssumption DEF Slots
      <4> QED BY <1>1, <4>2, BlockLens
    <3>3. pos - PrefixSize(b, k - 1) \in Nat
      <4>1. k - 1 \in 0..n
        BY <1>1
      <4>2. PrefixSize(b, k - 1) \in Nat
        BY <1>1, <4>1, PrefixGrows
      <4> QED BY <3>1, <4>2
    <3>4. found \in [ind : Nat, offset : Nat]
      BY <3>1, <3>2, <3>3
    <3> QED BY <1>4, <3>4, NULLAssumption
  <2>2. Len(all) < pos + 1 /\ pos + 1 \in Int /\ Len(all) \in Int
    BY <1>2, <2>1
  <2>3. Rest(b, pos) = << >>
    BY <2>2, SubSeqEmpty DEF Rest
  <2> QED BY <1>3, <1>4, <2>3 DEF ReadStep
<1>5. CASE found # NULL
  <2>1. PICK k \in 1..n : LocatedIn(b, pos, k)
    BY <1>1, <1>5, FoundIsLocated
  <2> DEFINE e == Contents(b)[k]
             data == e.buffptr
             len == Len(data)
             p == PrefixSize(b, k - 1)
             off == found.offset
             next == pos + len - off
  <2>2. /\ b.entry[found.ind] = e
        /\ off = pos - p /\ off \in Nat /\ p \in Nat
        /\ len \in Nat /\ off < len
    BY <1>2, <2>1, LenProperties DEF LocatedIn
  <2>3. data \in Seq(Byte) /\ \A j \in 1..len : all[p + j] = data[j]
    BY <1>2
  <2>4. p + len = PrefixSize(b, k) /\ PrefixSize(b, k) <= Len(all)
    <3>1. k \in 0..n /\ n \in 0..n /\ k <= n
      BY <1>1
    <3>2. PrefixSize(b, k) <= PrefixSize(b, n)
      BY <1>1, <3>1, PrefixGrows
    <3> QED BY <1>1, <1>2, <3>2, PrefixSizes
  <2> HIDE DEF e, data, len, p, off, found, all, n
  <2>5. next = p + len /\ next \in Nat /\ next > pos /\ next <= Len(all)
    BY <1>2, <2>2, <2>4
  <2> HIDE DEF next
  <2>6. SubSeq(all, pos + 1, next) \o SubSeq(all, next + 1, Len(all))
          = SubSeq(all, pos + 1, Len(all))
    <3>1. pos + 1 \in 1..(Len(all) + 1) /\ next \in ((pos + 1) - 1)..Len(all) /\ Len(all) \in next..Len(all)
      BY <1>2, <2>5
    <3> QED BY <1>2, <3>1, ConcatAdjacentSubSeq
  <2>7. SubSeq(all, pos + 1, next) = SubSeq(data, off + 1, len)
    <3> DEFINE u == SubSeq(all, pos + 1, next)
               v == SubSeq(data, off + 1, len)
               m == len - off
    <3>1. /\ pos + 1 \in Int /\ next \in Int /\ pos + 1 <= next /\ next - (pos + 1) + 1 = m
          /\ \A i \in (pos + 1)..next : i \in 1..Len(all)
          /\ off + 1 \in Int /\ len \in Int /\ off + 1 <= len /\ len - (off + 1) + 1 = m
          /\ \A i \in (off + 1)..len : i \in 1..len
      BY <1>2, <2>2, <2>5
    <3>2. \A i \in (pos + 1)..next : all[i] \in Byte
      BY <1>2, <3>1, ElementOfSeq
    <3>3. \A i \in (off + 1)..len : data[i] \in Byte
      BY <2>3, <3>1, ElementOfSeq DEF len
    <3>4. u \in Seq(Byte) /\ Len(u) = m /\ \A i \in 1..m : u[i] = all[(pos + 1) + i - 1]
      BY <3>1, <3>2, SubSeqProperties
    <3>5. v \in Seq(Byte) /\ Len(v) = m /\ \A i \in 1..m : v[i] = data[(off + 1) + i - 1]
      BY <3>1, <3>3, SubSeqProperties
    <3>6. \A i \in 1..m : /\ (pos + 1) + i - 1 = p + (off + i)
                          /\ (off + 1) + i - 1 = off + i
                          /\ off + i \in 1..len
      BY <2>2
    <3> HIDE DEF u, v, m
    <3>7. ASSUME NEW i \in 1..m PROVE u[i] = v[i]
      <4>1. all[p + (off + i)] = data[off + i]
        BY <2>3, <3>6
      <4>2. u[i] = all[p + (off + i)]
        BY <3>4, <3>6
      <4>3. v[i] = data[off + i]
        BY <3>5, <3>6
      <4> QED BY <4>1, <4>2, <4>3
    <3>8. u = v
      BY <3>4, <3>5, <3>7, SeqEqual
    <3> QED BY <3>8 DEF u, v
  <2>8. Rest(b, pos) = SubSeq(data, off + 1, len) \o Rest(b, next)
    BY <2>6, <2>7 DEF Rest, all
  <2>9. b.entry[found.ind].buffptr = data
    BY <2>2 DEF data
  <2>10. next = pos + Len(b.entry[found.ind].buffptr) - found.offset
    BY <2>9 DEF next, len, off
  <2> QED BY <1>3, <1>5, <2>5, <2>8, <2>9, <2>10, Zenon DEF ReadStep, found, off, len, all
<1> QED BY <1>4, <1>5


\* The loop of send_response.
IsSent(b, f) ==
  f = [p \in Nat |->
        LET found == FindEntry(b, p)
            data == b.entry[found.ind].buffptr
        IN  IF found = NULL THEN << >>
            ELSE SubSeq(data, found.offset + 1, Len(data))
                   \o f[p + Len(data) - found.offset]]

\* One round of it.
SentStep(b, f, p) ==
  LET found == FindEntry(b, p)
      data == b.entry[found.ind].buffptr
  IN  f[p] = IF found = NULL THEN << >>
             ELSE SubSeq(data, found.offset + 1, Len(data))
                    \o f[p + Len(data) - found.offset]

\* The loop ends: it is given by the rest of the device.
LEMMA SentExists ==
  ASSUME Addrs = Seq(Byte), NEW b, ExactRing(b)
  PROVE  \E f : IsSent(b, f)
<1> DEFINE f == [p \in Nat |-> Rest(b, p)]
<1>1. ASSUME NEW p \in Nat PROVE SentStep(b, f, p)
  <2>1. ReadStep(b, p)
    BY ReadsRest
  <2> DEFINE found == FindEntry(b, p)
             data == b.entry[found.ind].buffptr
             next == p + Len(data) - found.offset
  <2>2. IF found = NULL THEN Rest(b, p) = << >>
        ELSE /\ next \in Nat
             /\ Rest(b, p) = SubSeq(data, found.offset + 1, Len(data)) \o Rest(b, next)
    BY <2>1, Zenon DEF ReadStep
  <2>3. f[p] = Rest(b, p) /\ (next \in Nat => f[next] = Rest(b, next))
    BY Zenon
  <2> HIDE DEF f, found, data, next
  <2>4. f[p] = IF found = NULL THEN << >>
               ELSE SubSeq(data, found.offset + 1, Len(data)) \o f[next]
    BY <2>2, <2>3, Zenon
  <2> QED BY <2>4, Zenon DEF SentStep, found, data, next
<1>2. f = [p \in Nat |-> f[p]]
  OBVIOUS
<1> HIDE DEF f
<1>3. IsSent(b, f)
  BY <1>1, <1>2, Zenon DEF SentStep, IsSent
<1> QED BY <1>3

(***************************************************************************)
(* send_response sends everything from the position on, once: the reads of *)
(* one entry after the other neither skip nor repeat a byte.               *)
(***************************************************************************)
LEMMA ResponseIsRest ==
  ASSUME Addrs = Seq(Byte), NEW b, ExactRing(b), NEW pos \in Nat
  PROVE  Response(b, pos) = Rest(b, pos)
<1> DEFINE f == CHOOSE g : IsSent(b, g)
           total == Len(Stream(b))
<1>1. Response(b, pos) = f[pos]
  BY Zenon DEF Response, IsSent
<1>2. IsSent(b, f)
  BY SentExists, Zenon
<1>3. total \in Nat
  BY StreamOfRing, LenProperties
<1> HIDE DEF f
<1>4. \A p \in Nat : SentStep(b, f, p)
  BY <1>2, Zenon DEF IsSent, SentStep
<1>5. \A p \in Nat : ReadStep(b, p) /\ (p >= total => FindEntry(b, p) = NULL)
  BY ReadsRest
<1> HIDE DEF total
<1> DEFINE P == {d \in Nat : \A p \in Nat : p + d >= total => f[p] = Rest(b, p)}
<1>6. \A p \in Nat : FindEntry(b, p) = NULL => f[p] = Rest(b, p)
  BY <1>4, <1>5, Zenon DEF SentStep, ReadStep
<1>7. 0 \in P
  BY <1>5, <1>6
<1>8. ASSUME NEW d \in Nat, d \in P PROVE d + 1 \in P
  <2> SUFFICES ASSUME NEW p \in Nat, p + (d + 1) >= total, FindEntry(b, p) # NULL
               PROVE  f[p] = Rest(b, p)
    BY <1>6
  <2> DEFINE found == FindEntry(b, p)
             data == b.entry[found.ind].buffptr
             next == p + Len(data) - found.offset
             head == SubSeq(data, found.offset + 1, Len(data))
  <2>1. next \in Nat /\ next > p /\ Rest(b, p) = head \o Rest(b, next)
    BY <1>5, Zenon DEF ReadStep
  <2>2. f[p] = head \o f[next]
    BY <1>4, Zenon DEF SentStep
  <2> HIDE DEF found, data, next, head
  <2>3. next + d >= total
    BY <1>3, <2>1
  <2>4. f[next] = Rest(b, next)
    BY <1>8, <2>1, <2>3
  <2> QED BY <2>1, <2>2, <2>4
<1> HIDE DEF P
<1>9. total \in P
  BY <1>3, <1>7, <1>8, InductionSet
<1>10. pos + total >= total
  BY <1>3
<1>11. f[pos] = Rest(b, pos)
  BY <1>9, <1>10 DEF P
<1> QED BY <1>1, <1>11


\* The numbers of a seek, as the driver takes them.
EntryNumber(line) == (Number(SeekX(line)) % UIntMod) % 256
ByteNumber(line) == Number(SeekY(line)) % UIntMod

\* SeekAnswers for a device, a line and its answer.
Answered(b, line, answer) ==
  LET x == EntryNumber(line)
      y == ByteNumber(line)
      all == Stream(b)
  IN  /\ line # << >> /\ IsCommand(line) => answer = all
      /\ line # << >> /\ IsSeekLine(line) /\ ~IsCommand(line) /\ b.out_offs + x < MaxEntries =>
           answer = IF x < Count(b) /\ y < Contents(b)[x + 1].size
                    THEN SubSeq(all, PrefixSize(b, x) + y + 1, Len(all))
                    ELSE all

LEMMA RestFromStart ==
  ASSUME Addrs = Seq(Byte), NEW b, ExactRing(b)
  PROVE  Rest(b, 0) = Stream(b)
<1>1. Stream(b) \in Seq(Byte) /\ 0 + 1 = 1
  BY StreamOfRing
<1> QED BY <1>1, SubSeqFull DEF Rest

\* A line that is stored is answered from the start.
LEMMA CommandAnswered ==
  ASSUME Addrs = Seq(Byte), NEW line \in Seq(Byte), IsCommand(line),
         NEW seekto \in ParseSeekTo(line), ExactRing(buffer')
  PROVE  Response(buffer', PositionAfter(seekto)) = Stream(buffer')
<1>1. seekto = NotSeek
  <2>1. Contains(line, SEEK) => IsSeekLine(line)
    BY DEF IsCommand
  <2> QED BY <2>1, ParsedCommand
<1>2. PositionAfter(seekto) = 0
  BY <1>1 DEF PositionAfter
<1>3. Response(buffer', 0) = Stream(buffer')
  BY ResponseIsRest, RestFromStart
<1> QED BY <1>2, <1>3

\* A seek is answered from the byte it names.
LEMMA SeekAnswered ==
  ASSUME Addrs = Seq(Byte), NEW line \in Seq(Byte), IsSeekLine(line), ~IsCommand(line),
         NEW seekto \in ParseSeekTo(line), ExactRing(buffer), AppendDatafile(line, seekto),
         buffer.out_offs + EntryNumber(line) < MaxEntries
  PROVE  LET x == EntryNumber(line)
             y == ByteNumber(line)
             all == Stream(buffer)
         IN  /\ buffer' = buffer
             /\ Response(buffer, PositionAfter(seekto)) =
                  IF x < Count(buffer) /\ y < Contents(buffer)[x + 1].size
                  THEN SubSeq(all, PrefixSize(buffer, x) + y + 1, Len(all))
                  ELSE all
<1> DEFINE x == EntryNumber(line)
           y == ByteNumber(line)
           all == Stream(buffer)
           pos == JmpEntryOffset(buffer, x, y)
           there == x < Count(buffer) /\ y < Contents(buffer)[x + 1].size
<1>1. seekto = <<Number(SeekX(line)) % UIntMod, y>>
  <2>1. seekto = SeekArgs(line)
    BY ParseSeek
  <2>2. ~(Number(SeekX(line)) > ULongMax \/ Number(SeekY(line)) > ULongMax)
    BY DEF IsCommand
  <2> QED BY <2>1, <2>2 DEF SeekArgs, ByteNumber
<1>2. seekto # NotSeek
  BY <1>1 DEF NotSeek
<1>3. buffer' = buffer
  BY <1>2, Zenon DEF AppendDatafile
<1>4. PositionAfter(seekto) = IF pos < 0 THEN 0 ELSE pos
  <2>1. PositionAfter(seekto) = DeviceSeek(seekto)
    BY <1>2, Zenon DEF PositionAfter
  <2>2. seekto[1] % 256 = x /\ seekto[2] = y
    BY <1>1 DEF EntryNumber
  <2>3. DeviceSeek(seekto) = IF JmpEntryOffset(buffer, seekto[1] % 256, seekto[2]) < 0 THEN 0
                             ELSE JmpEntryOffset(buffer, seekto[1] % 256, seekto[2])
    BY Zenon DEF DeviceSeek
  <2> QED BY <2>1, <2>2, <2>3, Zenon
<1>5. WellFormed(buffer) /\ buffer.out_offs \in Slots
  BY BoundaryIsEnd DEF ExactRing
<1>6. x \in Slots /\ y \in Nat
  <2>1. Number(SeekX(line)) \in Nat /\ Number(SeekY(line)) \in Nat
    BY SeekLineParts
  <2>2. \A m \in Nat : m % UIntMod \in Nat /\ m % 256 \in Nat
    BY SessionAssumption
  <2>3. x \in Nat /\ y \in Nat
    BY <2>1, <2>2 DEF EntryNumber, ByteNumber
  <2> HIDE DEF x, y
  <2>4. buffer.out_offs + x < MaxEntries
    BY DEF x
  <2> DEFINE o == buffer.out_offs
  <2>5. o \in Nat /\ o + x < MaxEntries
    BY <1>5, <2>4, MaxEntriesAssumption DEF Slots
  <2> HIDE DEF o
  <2> QED BY <2>3, <2>5, MaxEntriesAssumption DEF Slots
<1>7. IF there THEN pos >= 0 /\ pos = PrefixSize(buffer, x) + y ELSE pos = EINVAL
  BY <1>5, <1>6, JumpLands
<1>8. CASE there
  <2>1. x \in 0..Count(buffer)
    BY <1>5, <1>6, <1>8, BoundaryIsEnd, MaxEntriesAssumption DEF Slots
  <2>2. PrefixSize(buffer, x) \in Nat
    BY <1>5, <2>1, PrefixGrows
  <2> HIDE DEF pos, x, y, all
  <2>3. pos \in Nat /\ ~(pos < 0) /\ pos = PrefixSize(buffer, x) + y
    BY <1>6, <1>7, <1>8, <2>2
  <2>4. PositionAfter(seekto) = pos
    BY <1>4, <2>3
  <2>5. Response(buffer, pos) = SubSeq(all, PrefixSize(buffer, x) + y + 1, Len(all))
    BY <2>3, ResponseIsRest DEF Rest, all
  <2> QED BY <1>3, <1>8, <2>4, <2>5 DEF x, y, all
<1>9. CASE ~there
  <2>1. pos < 0
    BY <1>7, <1>9 DEF EINVAL
  <2>2. PositionAfter(seekto) = 0
    BY <1>4, <2>1
  <2>3. Response(buffer, 0) = all
    BY ResponseIsRest, RestFromStart
  <2> QED BY <1>3, <1>9, <2>2, <2>3
<1> QED BY <1>8, <1>9


\* The invariant behind SeekAnswers: with the ring it speaks of.
AnswerInv ==
  /\ HistoryType /\ ExactRing(buffer) /\ partial \in Seq(Byte)
  /\ Answered(buffer, exchange.line, exchange.answer)

LEMMA DeliverAnswers ==
  ASSUME Addrs = Seq(Byte), AnswerInv, ExactRing(buffer'), NEW w \in Chunks, Deliver(w)
  PROVE  Answered(buffer', exchange'.line, exchange'.answer)
<1>1. CASE HasNL(w)
  <2> DEFINE line == Last(written')
  <2>1. PICK seekto \in ParseSeekTo(line) :
          /\ AppendDatafile(line, seekto)
          /\ exchange' = [line |-> line, answer |-> Response(buffer', PositionAfter(seekto))]
    BY <1>1, Zenon DEF Deliver
  <2>2. line \in Seq(Byte)
    BY <1>1, WrittenLine DEF AnswerInv
  <2> DEFINE answer == Response(buffer', PositionAfter(seekto))
  <2>3. exchange'.line = line /\ exchange'.answer = answer
    BY <2>1
  <2> HIDE DEF line
  <2>4. IsCommand(line) => answer = Stream(buffer')
    BY <2>2, CommandAnswered
  <2>5. ASSUME IsSeekLine(line), ~IsCommand(line),
               buffer'.out_offs + EntryNumber(line) < MaxEntries
        PROVE  LET x == EntryNumber(line)
                   y == ByteNumber(line)
                   all == Stream(buffer')
               IN  answer = IF x < Count(buffer') /\ y < Contents(buffer')[x + 1].size
                            THEN SubSeq(all, PrefixSize(buffer', x) + y + 1, Len(all))
                            ELSE all
    <3>1. seekto # NotSeek
      BY <2>2, <2>5, ParsedCommand
    <3>2. buffer' = buffer
      BY <2>1, <3>1, Zenon DEF AppendDatafile
    <3>3. ExactRing(buffer)
      BY DEF AnswerInv
    <3> QED BY <2>1, <2>2, <2>5, <3>2, <3>3, SeekAnswered
  <2> HIDE DEF answer
  <2>6. Answered(buffer', line, answer)
    BY <2>4, <2>5, Zenon DEF Answered
  <2> QED BY <2>3, <2>6
<1>2. CASE ~HasNL(w)
  <2>1. buffer' = buffer /\ exchange' = exchange
    BY <1>2, Zenon DEF Deliver
  <2> QED BY <2>1 DEF AnswerInv
<1> QED BY <1>1, <1>2

LEMMA AnswerInit ==
  ASSUME Addrs = Seq(Byte), SInit
  PROVE  AnswerInv
<1>1. HistoryType
  BY HistoryInit DEF SInit
<1>2. ExactRing(buffer) /\ partial \in Seq(Byte)
  BY LogInit DEF LogInv
<1>3. exchange.line = << >>
  BY DEF SInit, NoExchange
<1>4. Answered(buffer, exchange.line, exchange.answer)
  BY <1>3, Zenon DEF Answered
<1> QED BY <1>1, <1>2, <1>4 DEF AnswerInv

LEMMA AnswersKept ==
  ASSUME Addrs = Seq(Byte), AnswerInv, [SNext]_vars
  PROVE  AnswerInv'
<1>1. HistoryType /\ ExactRing(buffer) /\ partial \in Seq(Byte)
  BY DEF AnswerInv
<1>2. ExactRing(buffer') /\ partial' \in Seq(Byte)
  BY <1>1, RingKept
<1>3. HistoryType'
  <2>1. [FNext]_fvars
    BY SessionStep
  <2>2. CASE FNext
    BY <1>1, <2>2, ReceiveHistory DEF FNext
  <2>3. CASE UNCHANGED fvars
    BY <1>1, <2>3 DEF HistoryType, fvars
  <2> QED BY <2>1, <2>2, <2>3
<1>4. Answered(buffer', exchange'.line, exchange'.answer)
  <2>1. ASSUME NEW w \in Chunks, Deliver(w)
        PROVE  Answered(buffer', exchange'.line, exchange'.answer)
    BY <1>2, <2>1, DeliverAnswers
  <2>2. ASSUME NEW line \in OtherLines, OtherLine(line)
        PROVE  Answered(buffer', exchange'.line, exchange'.answer)
    <3>1. exchange'.line = << >>
      BY <2>2 DEF OtherLine, NoExchange
    <3> QED BY <3>1, Zenon DEF Answered
  <2>3. CASE UNCHANGED vars
    <3>1. buffer' = buffer /\ exchange' = exchange
      BY <2>3 DEF vars
    <3> QED BY <3>1 DEF AnswerInv
  <2> QED BY <2>1, <2>2, <2>3 DEF SNext
<1> QED BY <1>1, <1>2, <1>3, <1>4 DEF AnswerInv

(***************************************************************************)
(* Every answer is the one the line asks for: all the device holds, or     *)
(* all from the byte a seek names on; for every ring, every number of      *)
(* digits and every stream, '\0' bytes and several lines at once included. *)
(***************************************************************************)
THEOREM SessionAnswersSeeks ==
  ASSUME Addrs = Seq(Byte)
  PROVE  SSpec => []SeekAnswers
<1>1. SInit => AnswerInv
  BY AnswerInit
<1>2. AnswerInv /\ [SNext]_vars => AnswerInv'
  BY AnswersKept
<1>3. AnswerInv => SeekAnswers
  BY Zenon DEF AnswerInv, Answered, SeekAnswers, EntryNumber, ByteNumber
<1> QED BY <1>1, <1>2, <1>3, PTL DEF SSpec
=============================================================================
