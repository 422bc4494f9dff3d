----------------------------- MODULE NatLemmas -----------------------------
(***************************************************************************)
(* Facts about naturals on which the other proofs rest: minima, the first  *)
(* occurrence of a character in a string, induction, and the existence of  *)
(* the functions that the loops of the code are modelled by.               *)
(***************************************************************************)
EXTENDS Integers, SequencesExt, SequenceTheorems, WellFoundedInduction, TLAPS

(***************************************************************************)
(* A non-empty set of naturals has a minimum: the loops of find_char and   *)
(* connnection_handler stop at the first position that fits, if any does.  *)
(***************************************************************************)
LEMMA MinimumExists ==
  ASSUME NEW T, T \subseteq Nat, T # {}
  PROVE  Min(T) \in T /\ \A y \in T : Min(T) <= y
<1> DEFINE R == OpToRel(<, Nat)
<1>1. R = {ss \in Nat \X Nat : ss[1] < ss[2]}
  BY Zenon DEF OpToRel
<1>2. IsWellFoundedOn(R, Nat)
  BY NatLessThanWellFounded
<1> HIDE DEF R
<1>3. PICK x \in T : \A y \in T : ~(<<y, x>> \in R)
  BY <1>2, WFMin
<1>4. \A y \in T : x <= y
  <2> TAKE y \in T
  <2>1. <<y, x>> \in Nat \X Nat /\ ~(<<y, x>> \in R)
    BY <1>3
  <2> QED
    BY <2>1, <1>1
<1> QED
  BY <1>4 DEF Min

(***************************************************************************)
(* The first position of ch in the string w, which SelectInSeq computes:   *)
(* it is a position of w, it holds ch, and no position before it does.     *)
(***************************************************************************)
LEMMA FirstPosition ==
  ASSUME NEW S, NEW w \in Seq(S), NEW ch,
         {i \in 1..Len(w) : w[i] = ch} # {}
  PROVE  LET p == Min({i \in 1..Len(w) : w[i] = ch})
         IN  /\ p \in 1..Len(w)
             /\ w[p] = ch
             /\ \A i \in 1..(p - 1) : w[i] # ch
<1> DEFINE I == {i \in 1..Len(w) : w[i] = ch}
           p == Min(I)
<1>1. Len(w) \in Nat
  BY LenProperties
<1>2. I \subseteq Nat /\ I # {}
  BY <1>1
<1>3. p \in I /\ \A y \in I : p <= y
  BY <1>2, MinimumExists
<1> HIDE DEF p
<1>4. p \in 1..Len(w) /\ w[p] = ch
  BY <1>3
<1>5. \A i \in 1..(p - 1) : i \in 1..Len(w) /\ ~(p <= i)
  BY <1>1, <1>4
<1>6. \A i \in 1..(p - 1) : w[i] # ch
  BY <1>3, <1>5
<1> QED
  BY <1>4, <1>6 DEF p
(***************************************************************************)
(* Induction: a set of naturals that has 0 and the successor of each of    *)
(* its members is Nat.                                                     *)
(***************************************************************************)
LEMMA InductionSet ==
  ASSUME NEW P, 0 \in P, \A n \in Nat : n \in P => n + 1 \in P
  PROVE  \A n \in Nat : n \in P
<1> SUFFICES ASSUME Nat \ P # {} PROVE FALSE
  OBVIOUS
<1> DEFINE m == Min(Nat \ P)
<1>1. m \in Nat \ P /\ \A y \in Nat \ P : m <= y
  BY MinimumExists
<1> HIDE DEF m
<1>2. m - 1 \in Nat /\ m - 1 \in P
  BY <1>1
<1>3. (m - 1) + 1 \in P
  BY <1>2
<1>4. (m - 1) + 1 = m
  BY <1>1
<1> QED BY <1>1, <1>3, <1>4

(***************************************************************************)
(* Recursion: a first value and a step for every natural determine a       *)
(* function.  It is built from its approximations on 0..n.                 *)
(***************************************************************************)
Approximates(g, n, V, base, F) ==
  /\ g \in [0..n -> V] /\ g[0] = base
  /\ \A i \in 0..(n - 1) : g[i + 1] = F[i][g[i]]

LEMMA ApproximationsExist ==
  ASSUME NEW V, NEW base \in V, NEW F \in [Nat -> [V -> V]], NEW n \in Nat
  PROVE  \E g : Approximates(g, n, V, base, F)
<1> DEFINE P == {k \in Nat : \E g : Approximates(g, k, V, base, F)}
<1>1. 0 \in P
  <2> DEFINE g == [i \in 0..0 |-> base]
  <2>1. Approximates(g, 0, V, base, F)
    BY DEF Approximates
  <2> QED BY <2>1
<1>2. ASSUME NEW k \in Nat, k \in P PROVE k + 1 \in P
  <2>1. PICK g : Approximates(g, k, V, base, F)
    BY <1>2
  <2> DEFINE h == [i \in 0..(k + 1) |-> IF i = k + 1 THEN F[k][g[k]] ELSE g[i]]
  <2>2. g \in [0..k -> V] /\ g[0] = base /\ \A i \in 0..(k - 1) : g[i + 1] = F[i][g[i]]
    BY <2>1 DEF Approximates
  <2>3. g[k] \in V /\ F[k][g[k]] \in V
    BY <2>2
  <2>4. h \in [0..(k + 1) -> V] /\ h[0] = base
    BY <2>2, <2>3
  <2>5. ASSUME NEW i \in 0..((k + 1) - 1) PROVE h[i + 1] = F[i][h[i]]
    <3>1. h[i] = g[i]
      OBVIOUS
    <3>2. CASE i = k
      BY <3>1, <3>2
    <3>3. CASE i # k
      <4>1. i \in 0..(k - 1) /\ i + 1 \in 0..k /\ i + 1 # k + 1
        BY <3>3
      <4>2. h[i + 1] = g[i + 1]
        BY <4>1
      <4> QED BY <2>2, <3>1, <4>1, <4>2
    <3> QED BY <3>2, <3>3
  <2> HIDE DEF h
  <2>6. Approximates(h, k + 1, V, base, F)
    BY <2>4, <2>5 DEF Approximates
  <2> QED BY <2>6
<1> HIDE DEF P
<1>3. n \in P
  BY <1>1, <1>2, InductionSet
<1> QED BY <1>3 DEF P

\* Two approximations agree where both are defined.
LEMMA ApproximationsAgree ==
  ASSUME NEW V, NEW base, NEW F, NEW m \in Nat, NEW n \in Nat, m <= n,
         NEW g, Approximates(g, m, V, base, F), NEW h, Approximates(h, n, V, base, F)
  PROVE  g[m] = h[m]
<1> DEFINE P == {k \in Nat : k <= m => g[k] = h[k]}
<1>1. 0 \in P
  BY DEF Approximates
<1>2. ASSUME NEW k \in Nat, k \in P PROVE k + 1 \in P
  <2> SUFFICES ASSUME k + 1 <= m PROVE g[k + 1] = h[k + 1]
    OBVIOUS
  <2>1. k \in 0..(m - 1) /\ k \in 0..(n - 1) /\ g[k] = h[k]
    BY <1>2
  <2>2. g[k + 1] = F[k][g[k]] /\ h[k + 1] = F[k][h[k]]
    BY <2>1 DEF Approximates
  <2> QED BY <2>1, <2>2
<1> HIDE DEF P
<1>3. m \in P
  BY <1>1, <1>2, InductionSet
<1> QED BY <1>3 DEF P

Recursion(g, V, base, F) ==
  /\ g \in [Nat -> V] /\ g[0] = base
  /\ \A n \in Nat : g[n + 1] = F[n][g[n]]

LEMMA RecursionExists ==
  ASSUME NEW V, NEW base \in V, NEW F \in [Nat -> [V -> V]]
  PROVE  \E g : Recursion(g, V, base, F)
<1> DEFINE A(n) == CHOOSE g : Approximates(g, n, V, base, F)
           f == [n \in Nat |-> A(n)[n]]
<1>1. \A n \in Nat : Approximates(A(n), n, V, base, F)
  BY ApproximationsExist
<1> HIDE DEF A
<1>2. f \in [Nat -> V] /\ f[0] = base
  <2>1. \A n \in Nat : A(n)[n] \in V
    BY <1>1 DEF Approximates
  <2>2. A(0)[0] = base
    BY <1>1 DEF Approximates
  <2> QED BY <2>1, <2>2
<1>3. ASSUME NEW n \in Nat PROVE f[n + 1] = F[n][f[n]]
  <2>1. A(n)[n] = A(n + 1)[n]
    BY <1>1, ApproximationsAgree
  <2>2. n \in 0..((n + 1) - 1)
    OBVIOUS
  <2>3. Approximates(A(n + 1), n + 1, V, base, F)
    BY <1>1
  <2>4. A(n + 1)[n + 1] = F[n][A(n + 1)[n]]
    BY <2>2, <2>3 DEF Approximates
  <2> QED BY <2>1, <2>4
<1> HIDE DEF f
<1>4. Recursion(f, V, base, F)
  BY <1>2, <1>3 DEF Recursion
<1> QED BY <1>4

(***************************************************************************)
(* A loop for (i = ...; i < m; i++), read from its end: what it computes   *)
(* from index i on is determined by what it computes from i + 1 on.        *)
(***************************************************************************)
Loop(g, m, V, stop, F) ==
  /\ g \in [Nat -> V]
  /\ \A i \in Nat : g[i] = IF i >= m THEN stop ELSE F[i][g[i + 1]]

LEMMA LoopExists ==
  ASSUME NEW V, NEW stop \in V, NEW F \in [Nat -> [V -> V]], NEW m \in Nat
  PROVE  \E g : Loop(g, m, V, stop, F)
<1> DEFINE id == [v \in V |-> v]
           E == [n \in Nat |-> IF n < m THEN F[m - 1 - n] ELSE id]
<1>0. id \in [V -> V]
  OBVIOUS
<1> HIDE DEF id
<1>1. E \in [Nat -> [V -> V]]
  <2>1. \A n \in Nat : n < m => m - 1 - n \in Nat
    OBVIOUS
  <2> QED BY <1>0, <2>1
<1>2. \A n \in Nat : n < m => E[n] = F[m - 1 - n]
  OBVIOUS
<1> HIDE DEF E
<1>a. PICK h : Recursion(h, V, stop, E)
  BY <1>1, RecursionExists
<1>3. h \in [Nat -> V] /\ h[0] = stop /\ \A n \in Nat : h[n + 1] = E[n][h[n]]
  BY <1>a DEF Recursion
<1> DEFINE g == [i \in Nat |-> IF i >= m THEN stop ELSE h[m - i]]
<1>4. \A i \in Nat : g[i] = IF i >= m THEN stop ELSE h[m - i]
  OBVIOUS
<1>5. g \in [Nat -> V]
  <2>1. \A i \in Nat : ~(i >= m) => m - i \in Nat
    OBVIOUS
  <2> QED BY <1>3, <2>1
<1> HIDE DEF g
<1>6. ASSUME NEW i \in Nat, ~(i >= m) PROVE g[i] = F[i][g[i + 1]]
  <2> DEFINE n == m - 1 - i
  <2>1. n \in Nat /\ n < m /\ n + 1 = m - i /\ m - 1 - n = i
    BY <1>6
  <2>2. g[i] = h[n + 1]
    BY <1>4, <1>6, <2>1
  <2>3. h[n + 1] = E[n][h[n]] /\ E[n] = F[i]
    <3> HIDE DEF n
    <3> QED BY <1>2, <1>3, <2>1
  <2>4. h[n] = g[i + 1]
    <3>1. CASE i + 1 >= m
      <4>1. n = 0 /\ g[i + 1] = stop
        BY <1>4, <1>6, <3>1
      <4> QED BY <1>3, <4>1
    <3>2. CASE ~(i + 1 >= m)
      <4>1. g[i + 1] = h[m - (i + 1)] /\ m - (i + 1) = n
        BY <1>4, <3>2
      <4> QED BY <4>1
    <3> QED BY <3>1, <3>2
  <2> QED BY <2>2, <2>3, <2>4
<1>7. \A i \in Nat : g[i] = IF i >= m THEN stop ELSE F[i][g[i + 1]]
  BY <1>4, <1>6
<1>8. Loop(g, m, V, stop, F)
  BY <1>5, <1>7 DEF Loop
<1> QED BY <1>8


\* Sums of naturals grow.
LEMMA SumsGrow ==
  ASSUME NEW n \in Nat, NEW g \in [0..n -> Nat], NEW s,
         \A k \in 1..n : s[k] \in Nat /\ g[k] = g[k - 1] + s[k],
         NEW k \in 0..n, NEW l \in 0..n, k <= l
  PROVE  g[k] <= g[l]
<1> DEFINE P == {i \in Nat : k + i <= n => g[k] <= g[k + i]}
<1>1. 0 \in P
  OBVIOUS
<1>2. ASSUME NEW i \in Nat, i \in P PROVE i + 1 \in P
  <2> SUFFICES ASSUME k + (i + 1) <= n PROVE g[k] <= g[k + (i + 1)]
    OBVIOUS
  <2> DEFINE m == k + (i + 1)
  <2>1. m \in 1..n /\ m - 1 = k + i /\ k + i \in 0..n /\ k + i <= n
    OBVIOUS
  <2>2. g[m] = g[k + i] + s[m] /\ s[m] \in Nat /\ g[k] <= g[k + i]
    BY <1>2, <2>1
  <2>3. g[k] \in Nat /\ g[k + i] \in Nat
    BY <2>1
  <2> HIDE DEF m
  <2>4. g[k] <= g[m]
    BY <2>2, <2>3
  <2> QED BY <2>4 DEF m
<1> HIDE DEF P
<1>3. l - k \in Nat /\ k + (l - k) = l
  OBVIOUS
<1>4. l - k \in P
  BY <1>1, <1>2, <1>3, InductionSet
<1> QED BY <1>3, <1>4 DEF P

\* The loop behind FlattenSeq.
IsFlatten(s, f) ==
  f = [i \in 1..Len(s) |-> IF i = 1 THEN s[i] ELSE f[i - 1] \o s[i]]

LEMMA FlattenExists ==
  ASSUME NEW S, NEW s \in Seq(Seq(S)), Len(s) # 0
  PROVE  \E f : IsFlatten(s, f)
<1> DEFINE n == Len(s)
           V == Seq(S)
           F == [i \in Nat |-> [v \in V |-> IF i < n THEN v \o s[i + 1] ELSE v]]
<1>1. n \in Nat /\ n # 0
  BY LenProperties
<1>2. \A k \in 1..n : s[k] \in V
  BY ElementOfSeq
<1>3. \A i \in Nat, v \in V : (IF i < n THEN v \o s[i + 1] ELSE v) \in V
  <2> SUFFICES ASSUME NEW i \in Nat, NEW v \in V, i < n PROVE v \o s[i + 1] \in V
    OBVIOUS
  <2>1. s[i + 1] \in V
    BY <1>1, <1>2
  <2> QED BY <2>1, ConcatProperties
<1> HIDE DEF n, V
<1>4. F \in [Nat -> [V -> V]]
  BY <1>3
<1>5. \A i \in Nat, v \in V : i < n => F[i][v] = v \o s[i + 1]
  OBVIOUS
<1>6. << >> \in V
  BY EmptySeq DEF V
<1> HIDE DEF F
<1>7. PICK g : Recursion(g, V, << >>, F)
  BY <1>4, <1>6, RecursionExists
<1>8. g \in [Nat -> V] /\ g[0] = << >> /\ \A i \in Nat : g[i + 1] = F[i][g[i]]
  BY <1>7 DEF Recursion
<1>9. ASSUME NEW i \in 1..n PROVE g[i] = g[i - 1] \o s[i]
  <2>1. i - 1 \in Nat /\ (i - 1) + 1 = i /\ i - 1 < n
    BY <1>1
  <2>2. g[(i - 1) + 1] = F[i - 1][g[i - 1]] /\ g[i - 1] \in V
    BY <1>8, <2>1
  <2>3. F[i - 1][g[i - 1]] = g[i - 1] \o s[(i - 1) + 1]
    BY <1>5, <2>1, <2>2
  <2> QED BY <2>1, <2>2, <2>3
<1>10. g[1] = s[1]
  <2>1. 1 \in 1..n /\ 1 - 1 = 0
    BY <1>1
  <2>2. g[1] = << >> \o s[1] /\ s[1] \in V
    BY <1>2, <1>8, <1>9, <2>1
  <2> QED BY <2>2, ConcatEmptySeq DEF V
<1> DEFINE f == [i \in 1..n |-> g[i]]
<1>11. ASSUME NEW i \in 1..n PROVE f[i] = IF i = 1 THEN s[i] ELSE f[i - 1] \o s[i]
  <2>1. CASE i = 1
    BY <1>10, <2>1
  <2>2. CASE i # 1
    <3>1. i - 1 \in 1..n
      BY <1>1, <2>2
    <3>2. f[i - 1] = g[i - 1] /\ f[i] = g[i]
      BY <3>1
    <3> QED BY <1>9, <2>2, <3>2
  <2> QED BY <2>1, <2>2
<1>12. f = [i \in 1..n |-> f[i]]
  OBVIOUS
<1> HIDE DEF f
<1>13. f = [i \in 1..n |-> IF i = 1 THEN s[i] ELSE f[i - 1] \o s[i]]
  BY <1>11, <1>12
<1>14. IsFlatten(s, f)
  BY <1>13 DEF IsFlatten, n
<1> QED BY <1>14

\* Flattening a sequence with one more item.
LEMMA FlattenAppend ==
  ASSUME NEW S, NEW s \in Seq(Seq(S)), NEW e \in Seq(S)
  PROVE  /\ FlattenSeq(<< >>) = << >>
         /\ FlattenSeq(s) \in Seq(S)
         /\ FlattenSeq(Append(s, e)) = FlattenSeq(s) \o e
<1> DEFINE n == Len(s)
           u == Append(s, e)
           f == CHOOSE g : IsFlatten(s, g)
           h == CHOOSE g : IsFlatten(u, g)
<1>1. n \in Nat
  BY LenProperties
<1>2. /\ u \in Seq(Seq(S)) /\ Len(u) = n + 1
      /\ \A k \in 1..n : u[k] = s[k]
      /\ u[n + 1] = e
  BY AppendProperties
<1>3. \A k \in 1..n : s[k] \in Seq(S)
  BY ElementOfSeq
<1>4. FlattenSeq(<< >>) = << >>
  BY EmptySeq DEF FlattenSeq
<1>5. n + 1 # 0 /\ n + 1 \in 1..(n + 1)
  BY <1>1
<1>6. IsFlatten(u, h) /\ FlattenSeq(u) = h[n + 1]
  <2>1. \E g : IsFlatten(u, g)
    BY <1>2, <1>5, FlattenExists, Zenon
  <2> QED BY <1>2, <1>5, <2>1, Zenon DEF FlattenSeq, IsFlatten
<1>7. n # 0 => IsFlatten(s, f) /\ FlattenSeq(s) = f[n]
  <2> SUFFICES ASSUME n # 0 PROVE IsFlatten(s, f) /\ FlattenSeq(s) = f[n]
    OBVIOUS
  <2>1. \E g : IsFlatten(s, g)
    BY FlattenExists
  <2> QED BY <2>1, Zenon DEF FlattenSeq, IsFlatten
<1> HIDE DEF f, h
<1>8. \A i \in 1..(n + 1) : h[i] = IF i = 1 THEN u[i] ELSE h[i - 1] \o u[i]
  <2>1. h = [i \in 1..(n + 1) |-> IF i = 1 THEN u[i] ELSE h[i - 1] \o u[i]]
    BY <1>2, <1>6 DEF IsFlatten
  <2> QED BY <2>1, Zenon
<1>9. CASE n = 0
  <2>1. s = << >> /\ FlattenSeq(s) = << >>
    BY <1>4, <1>9, EmptySeq
  <2>2. h[1] = e
    BY <1>2, <1>5, <1>8, <1>9
  <2>3. << >> \o e = e /\ << >> \in Seq(S)
    BY ConcatEmptySeq, EmptySeq
  <2>4. FlattenSeq(u) = e
    <3>1. n + 1 = 1
      BY <1>9
    <3> QED BY <1>6, <2>2, <3>1
  <2> HIDE DEF u
  <2> QED BY <1>4, <2>1, <2>3, <2>4 DEF u
<1>10. CASE n # 0
  <2>1. \A i \in 1..n : f[i] = IF i = 1 THEN s[i] ELSE f[i - 1] \o s[i]
    <3>1. f = [i \in 1..n |-> IF i = 1 THEN s[i] ELSE f[i - 1] \o s[i]]
      BY <1>7, <1>10 DEF IsFlatten
    <3> QED BY <3>1, Zenon
  <2> HIDE DEF n, u
  <2> DEFINE P == {i \in Nat : i + 1 <= n => h[i + 1] = f[i + 1] /\ f[i + 1] \in Seq(S)}
  <2>2. 0 \in P
    <3>1. 1 \in 1..n /\ 1 \in 1..(n + 1) /\ 0 + 1 = 1
      BY <1>1, <1>10
    <3>2. h[1] = u[1] /\ f[1] = s[1] /\ u[1] = s[1] /\ s[1] \in Seq(S)
      BY <1>2, <1>3, <1>8, <2>1, <3>1
    <3> QED BY <3>1, <3>2
  <2>3. ASSUME NEW i \in Nat, i \in P PROVE i + 1 \in P
    <3> SUFFICES ASSUME (i + 1) + 1 <= n
                 PROVE  h[(i + 1) + 1] = f[(i + 1) + 1] /\ f[(i + 1) + 1] \in Seq(S)
      OBVIOUS
    <3> DEFINE m == (i + 1) + 1
    <3>1. m \in 1..n /\ m \in 1..(n + 1) /\ m # 1 /\ m - 1 = i + 1 /\ i + 1 <= n
      BY <1>1
    <3>2. h[i + 1] = f[i + 1] /\ f[i + 1] \in Seq(S)
      BY <2>3, <3>1
    <3> HIDE DEF m, P
    <3>3. h[m] = h[i + 1] \o u[m] /\ f[m] = f[i + 1] \o s[m]
      BY <1>8, <2>1, <3>1
    <3>4. u[m] = s[m] /\ s[m] \in Seq(S)
      BY <1>2, <1>3, <3>1
    <3>5. h[m] = f[m] /\ f[m] \in Seq(S)
      BY <3>2, <3>3, <3>4, ConcatProperties
    <3> QED BY <3>5 DEF m
  <2> HIDE DEF P
  <2>4. n - 1 \in Nat /\ (n - 1) + 1 = n
    BY <1>1, <1>10
  <2>5. n - 1 \in P
    BY <2>2, <2>3, <2>4, InductionSet
  <2>6. h[n] = f[n] /\ f[n] \in Seq(S)
    BY <1>1, <2>4, <2>5 DEF P
  <2>7. h[n + 1] = h[n] \o e
    <3>1. n + 1 # 1 /\ (n + 1) - 1 = n
      BY <1>1, <1>10
    <3> QED BY <1>2, <1>5, <1>8, <3>1
  <2> QED BY <1>4, <1>6, <1>7, <1>10, <2>6, <2>7 DEF u
<1> QED BY <1>9, <1>10

\* Where the bytes of a flattened sequence come from; before[k] counts those of
\* its first k items.
Flattens(s, before, n, w) ==
  /\ Len(w) = before[n]
  /\ \A k \in 1..n : \A j \in 1..Len(s[k]) : w[before[k - 1] + j] = s[k][j]

LEMMA FlattenElements ==
  ASSUME NEW S, NEW s \in Seq(Seq(S)), NEW before \in [0..Len(s) -> Nat], before[0] = 0,
         \A k \in 1..Len(s) : before[k] = before[k - 1] + Len(s[k])
  PROVE  FlattenSeq(s) \in Seq(S) /\ Flattens(s, before, Len(s), FlattenSeq(s))
<1> DEFINE n == Len(s)
           f == CHOOSE g : IsFlatten(s, g)
<1>1. n \in Nat
  BY LenProperties
<1>2. \A k \in 1..n : s[k] \in Seq(S) /\ Len(s[k]) \in Nat
  BY ElementOfSeq, LenProperties
<1>a. \A a \in Nat, c \in Nat : \A j \in 1..c :
        a + j \in 1..(a + c) /\ ~(a + j <= a) /\ (a + j) - a = j
  OBVIOUS
<1>b. \A a \in Nat, c \in Nat, d \in Nat, e \in Nat : \A j \in 1..c :
        a + c <= d => a + j \in 1..(d + e) /\ a + j <= d
  OBVIOUS
<1>3. CASE n = 0
  <2>1. FlattenSeq(s) = << >> /\ Len(<< >>) = 0 /\ << >> \in Seq(S)
    BY <1>3, EmptySeq DEF FlattenSeq
  <2> QED BY <1>3, <2>1 DEF Flattens
<1>4. CASE n # 0
  <2>1. IsFlatten(s, f)
    BY <1>4, FlattenExists
  <2>2. FlattenSeq(s) = f[n]
    BY <1>4 DEF FlattenSeq, IsFlatten
  <2> HIDE DEF f
  <2>3. f = [i \in 1..n |-> IF i = 1 THEN s[i] ELSE f[i - 1] \o s[i]]
    BY <2>1 DEF IsFlatten
  <2> HIDE DEF n
  <2>4. \A i \in 1..n : f[i] = IF i = 1 THEN s[i] ELSE f[i - 1] \o s[i]
    BY <2>3, Zenon
  <2>5. /\ before \in [0..n -> Nat] /\ before[0] = 0
        /\ \A k \in 1..n : before[k] = before[k - 1] + Len(s[k])
    BY DEF n
  <2> DEFINE P == {i \in Nat : i + 1 <= n =>
                     f[i + 1] \in Seq(S) /\ Flattens(s, before, i + 1, f[i + 1])}
  <2>6. 0 \in P
    <3>1. 1 \in 1..n /\ 0 + 1 = 1 /\ 1 - 1 = 0
      BY <1>1, <1>4
    <3>2. f[1] = s[1] /\ s[1] \in Seq(S) /\ Len(s[1]) \in Nat
      BY <1>2, <2>4, <3>1
    <3>3. before[1] = Len(s[1])
      <4>1. before[1] = before[1 - 1] + Len(s[1])
        BY <2>5, <3>1
      <4> QED BY <2>5, <3>1, <3>2, <4>1
    <3>4. ASSUME NEW k \in 1..1, NEW j \in 1..Len(s[k])
          PROVE  s[1][before[k - 1] + j] = s[k][j]
      <4>1. k = 1
        OBVIOUS
      <4>2. j \in Nat
        BY <3>2, <4>1
      <4>3. before[k - 1] + j = j
        BY <2>5, <4>1, <4>2
      <4> QED BY <4>1, <4>3
    <3>5. Flattens(s, before, 1, f[1])
      BY <3>2, <3>3, <3>4 DEF Flattens
    <3> QED BY <3>1, <3>2, <3>5
  <2>7. ASSUME NEW i \in Nat, i \in P PROVE i + 1 \in P
    <3> SUFFICES ASSUME (i + 1) + 1 <= n
                 PROVE  /\ f[(i + 1) + 1] \in Seq(S)
                        /\ Flattens(s, before, (i + 1) + 1, f[(i + 1) + 1])
      OBVIOUS
    <3> DEFINE l == i + 1
               m == (i + 1) + 1
               old == f[l]
               new == f[m]
    <3>1. l \in 1..n /\ m \in 1..n /\ m - 1 = l /\ l + 1 <= n /\ i + 1 <= n /\ m # 1 /\ l \in 0..n
          /\ m \in 0..n
      BY <1>1
    <3>2. old \in Seq(S) /\ Flattens(s, before, l, old)
      BY <2>7, <3>1
    <3>3. new = old \o s[m] /\ s[m] \in Seq(S) /\ Len(s[m]) \in Nat
      BY <1>2, <2>4, <3>1
    <3> HIDE DEF P, old, new
    <3>4. before[m] = before[l] + Len(s[m]) /\ before[l] \in Nat /\ Len(old) = before[l]
      <4>1. before[m] = before[m - 1] + Len(s[m])
        BY <2>5, <3>1
      <4> QED BY <2>5, <3>1, <3>2, <4>1 DEF Flattens
    <3> HIDE DEF l, m
    <3>5. /\ new \in Seq(S) /\ Len(new) = Len(old) + Len(s[m])
          /\ \A x \in 1..(Len(old) + Len(s[m])) :
               new[x] = IF x <= Len(old) THEN old[x] ELSE s[m][x - Len(old)]
      BY <3>2, <3>3, ConcatProperties
    <3>6. ASSUME NEW k \in 1..m, NEW j \in 1..Len(s[k])
          PROVE  new[before[k - 1] + j] = s[k][j]
      <4>1. CASE k = m
        <5> DEFINE x == before[k - 1] + j
        <5>1. before[k - 1] = Len(old)
          BY <3>1, <3>4, <4>1
        <5>2. j \in 1..Len(s[m])
          BY <4>1
        <5>3. x \in 1..(Len(old) + Len(s[m])) /\ ~(x <= Len(old)) /\ x - Len(old) = j
          BY <3>3, <3>4, <5>1, <5>2, <1>a, ZenonT(60) DEF x
        <5> HIDE DEF x
        <5>4. new[x] = s[m][j]
          BY <3>5, <5>3
        <5> QED BY <4>1, <5>4 DEF x
      <4>2. CASE k # m
        <5> DEFINE x == before[k - 1] + j
        <5>1. k \in 1..l /\ k \in 1..n /\ k \in 0..n /\ k - 1 \in 0..n
          BY <1>1, <3>1, <4>2
        <5>2. old[x] = s[k][j]
          BY <3>2, <5>1 DEF Flattens
        <5>3. Len(s[k]) \in Nat /\ before[k - 1] \in Nat /\ before[k] = before[k - 1] + Len(s[k])
          BY <1>2, <2>5, <5>1
        <5>4. before[k] <= before[l]
          <6> DEFINE len == [q \in 1..n |-> Len(s[q])]
          <6>1. \A q \in 1..n : len[q] \in Nat /\ before[q] = before[q - 1] + len[q]
            BY <1>2, <2>5 DEF n
          <6>2. k <= l
            BY <3>1, <5>1
          <6> HIDE DEF len
          <6> QED BY <1>1, <2>5, <3>1, <5>1, <6>1, <6>2, SumsGrow
        <5>5. x \in 1..(Len(old) + Len(s[m])) /\ x <= Len(old)
          BY <3>3, <3>4, <5>3, <5>4, <1>b
        <5> HIDE DEF x
        <5>6. new[x] = old[x]
          BY <3>5, <5>5
        <5> QED BY <5>2, <5>6 DEF x
      <4> QED BY <4>1, <4>2
    <3>7. Flattens(s, before, m, new)
      BY <3>4, <3>5, <3>6 DEF Flattens
    <3> QED BY <3>5, <3>7 DEF new, m, l
  <2> HIDE DEF P
  <2>8. n - 1 \in P /\ n - 1 \in Nat /\ (n - 1) + 1 = n
    BY <1>1, <1>4, <2>6, <2>7, InductionSet
  <2>9. f[n] \in Seq(S) /\ Flattens(s, before, n, f[n])
    BY <1>1, <2>8 DEF P
  <2> QED BY <2>2, <2>9 DEF n
<1> QED BY <1>3, <1>4

\* The minimum and the maximum of a set, from what they must satisfy.
LEMMA MinIs ==
  ASSUME NEW T, T \subseteq Nat, NEW m \in T, \A y \in T : m <= y
  PROVE  Min(T) = m
<1>1. Min(T) \in T /\ \A y \in T : Min(T) <= y
  BY MinimumExists
<1>2. Min(T) <= m /\ m <= Min(T)
  BY <1>1
<1> DEFINE l == Min(T)
<1>3. l \in Nat /\ m \in Nat
  BY <1>1
<1> HIDE DEF l
<1> QED BY <1>2, <1>3 DEF l

LEMMA MaxIs ==
  ASSUME NEW T, T \subseteq Nat, NEW m \in T, \A y \in T : y <= m
  PROVE  Max(T) = m
<1>1. m \in T /\ \A y \in T : m >= y
  OBVIOUS
<1>2. Max(T) \in T /\ \A y \in T : Max(T) >= y
  BY <1>1, Zenon DEF Max
<1>3. Max(T) >= m /\ m >= Max(T)
  BY <1>1, <1>2
<1> DEFINE l == Max(T)
<1>4. l \in Nat /\ m \in Nat
  BY <1>2
<1> HIDE DEF l
<1> QED BY <1>3, <1>4 DEF l

\* A loop that runs from 1 to n and starts with base.
IsFold(g, n, base, F) ==
  \A i \in 0..n : g[i] = IF i = 0 THEN base ELSE F[i][g[i - 1]]

LEMMA FoldExists ==
  ASSUME NEW V, NEW base \in V, NEW n \in Nat, NEW F \in [1..n -> [V -> V]]
  PROVE  \E g \in [0..n -> V] : IsFold(g, n, base, F)
<1> DEFINE E == [i \in Nat |-> [v \in V |-> IF i < n THEN F[i + 1][v] ELSE v]]
<1>1. \A i \in Nat, v \in V : (IF i < n THEN F[i + 1][v] ELSE v) \in V
  <2> SUFFICES ASSUME NEW i \in Nat, NEW v \in V, i < n PROVE F[i + 1][v] \in V
    OBVIOUS
  <2>1. i + 1 \in 1..n
    OBVIOUS
  <2> QED BY <2>1
<1>2. E \in [Nat -> [V -> V]]
  BY <1>1
<1>3. \A i \in Nat, v \in V : i < n => E[i][v] = F[i + 1][v]
  OBVIOUS
<1> HIDE DEF E
<1>4. PICK f : Recursion(f, V, base, E)
  BY <1>2, RecursionExists
<1>5. f \in [Nat -> V] /\ f[0] = base /\ \A i \in Nat : f[i + 1] = E[i][f[i]]
  BY <1>4 DEF Recursion
<1> DEFINE g == [i \in 0..n |-> f[i]]
<1>6. g \in [0..n -> V] /\ \A i \in 0..n : g[i] = f[i]
  BY <1>5
<1> HIDE DEF g
<1>7. ASSUME NEW i \in 0..n, i # 0 PROVE g[i] = F[i][g[i - 1]]
  <2>1. i - 1 \in Nat /\ i - 1 \in 0..n /\ i - 1 < n /\ (i - 1) + 1 = i
    BY <1>7
  <2>2. f[(i - 1) + 1] = E[i - 1][f[i - 1]] /\ f[i - 1] \in V
    BY <1>5, <2>1
  <2>3. E[i - 1][f[i - 1]] = F[(i - 1) + 1][f[i - 1]]
    BY <1>3, <2>1, <2>2
  <2> QED BY <1>6, <2>1, <2>2, <2>3
<1>8. 0 \in 0..n /\ g[0] = base
  BY <1>5, <1>6
<1>9. IsFold(g, n, base, F)
  BY <1>7, <1>8 DEF IsFold
<1> QED BY <1>6, <1>9
=============================================================================
