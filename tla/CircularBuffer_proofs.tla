------------------------ MODULE CircularBuffer_proofs ------------------------
(***************************************************************************)
(* For every number of slots up to 128: the circular buffer stays well     *)
(* formed and implements the history of its most recent entries, its size  *)
(* is the sum of theirs, and positions are found as in their               *)
(* concatenation.                                                          *)
(***************************************************************************)
EXTENDS CircularBuffer, NatLemmas

\* Appending to a sequence, and to one that has lost its head.
LEMMA AppendElements ==
  ASSUME NEW S, NEW h \in Seq(S), NEW e \in S
  PROVE  /\ Append(h, e) \in [1..(Len(h) + 1) -> S]
         /\ \A k \in 1..(Len(h) + 1) :
              Append(h, e)[k] = IF k = Len(h) + 1 THEN e ELSE h[k]
<1>1. Append(h, e) \in Seq(S) /\ Len(Append(h, e)) = Len(h) + 1
  BY AppendProperties
<1>2. Append(h, e) \in [1..(Len(h) + 1) -> S]
  BY <1>1, LenProperties
<1> QED BY <1>2, AppendProperties

LEMMA AppendTailElements ==
  ASSUME NEW S, NEW h \in Seq(S), h # << >>, NEW e \in S
  PROVE  /\ Append(Tail(h), e) \in [1..Len(h) -> S]
         /\ \A k \in 1..Len(h) :
              Append(Tail(h), e)[k] = IF k = Len(h) THEN e ELSE h[k + 1]
<1>1. /\ Tail(h) \in Seq(S) /\ Len(Tail(h)) = Len(h) - 1
      /\ \A k \in 1..(Len(h) - 1) : Tail(h)[k] = h[k + 1]
  BY HeadTailProperties
<1>2. Len(h) \in Nat \ {0}
  BY LenProperties, EmptySeq
<1> DEFINE t == Tail(h)
<1> HIDE DEF t
<1>3. /\ Append(t, e) \in [1..(Len(t) + 1) -> S]
      /\ \A k \in 1..(Len(t) + 1) : Append(t, e)[k] = IF k = Len(t) + 1 THEN e ELSE t[k]
  <2>1. t \in Seq(S)
    BY <1>1 DEF t
  <2> QED BY <2>1, AppendElements
<1>4. Len(t) + 1 = Len(h) /\ \A k \in 1..(Len(h) - 1) : t[k] = h[k + 1]
  BY <1>1, <1>2 DEF t
<1>5. /\ Append(t, e) \in [1..Len(h) -> S]
      /\ \A k \in 1..Len(h) : Append(t, e)[k] = IF k = Len(h) THEN e ELSE h[k + 1]
  BY <1>2, <1>3, <1>4
<1> QED BY <1>5 DEF t

\* CB_POINTER_INC steps to the next slot and wraps after the last one.
LEMMA PointerIncProperty ==
  ASSUME NEW p \in Slots
  PROVE  /\ PointerInc(p) \in Slots
         /\ PointerInc(p) = IF p = MaxEntries - 1 THEN 0 ELSE p + 1
BY MaxEntriesAssumption DEF PointerInc, Slots

\* CB_POINTER_CAST of an index at most one lap ahead.
LEMMA PointerCastProperty ==
  ASSUME NEW p \in 0..(2 * MaxEntries - 1)
  PROVE  /\ PointerCast(p) \in Slots
         /\ PointerCast(p) = IF p < MaxEntries THEN p ELSE p - MaxEntries
BY MaxEntriesAssumption DEF PointerCast, Slots

\* A zeroed slot is never mistaken for an entry.
LEMMA NoEntryIsNoEntry == NoEntry \notin Entry
BY NULLAssumption DEF NoEntry, Entry

\* What the stand-alone buffer is given are entries.
LEMMA AddedAreEntries == Added \subseteq Entry
BY MaxSizeAssumption DEF Added, Entry

\* aesd_circular_buffer_init leaves a well-formed, empty buffer.
LEMMA EmptyBufferWellFormed == WellFormed(EmptyBuffer) /\ Contents(EmptyBuffer) = << >>
<1>1. 0 \in Slots
  BY MaxEntriesAssumption DEF Slots
<1>2. WellFormed(EmptyBuffer)
  BY <1>1, NoEntryIsNoEntry DEF WellFormed, EmptyBuffer, BufferType, Slots
<1>3. Contents(EmptyBuffer) = << >>
  BY DEF Contents, Count, EmptyBuffer
<1> QED BY <1>2, <1>3

\* The contents of a well-formed ring are its entries.
LEMMA ContentsAreEntries ==
  ASSUME NEW b, WellFormed(b)
  PROVE  /\ Count(b) \in 0..MaxEntries
         /\ Contents(b) \in Seq(Entry) /\ Len(Contents(b)) = Count(b)
         /\ \A k \in 1..Count(b) : \E i \in Slots : Contents(b)[k] = b.entry[i]
<1> USE MaxEntriesAssumption
<1>1. /\ b.in_offs \in Slots /\ b.out_offs \in Slots /\ b.full \in BOOLEAN
      /\ b.entry \in [Slots -> Entry \cup {NoEntry}]
  BY DEF WellFormed, BufferType
<1>2. Count(b) \in 0..MaxEntries
  BY <1>1 DEF Count, Slots
<1>3. ASSUME NEW k \in 1..Count(b)
      PROVE  /\ PointerCast(b.out_offs + k - 1) \in Slots
             /\ b.entry[PointerCast(b.out_offs + k - 1)] \in Entry
  <2>1. /\ PointerCast(b.out_offs + k - 1) \in Slots
        /\ PointerCast(b.out_offs + k - 1) = IF b.out_offs + k - 1 < MaxEntries
             THEN b.out_offs + k - 1 ELSE b.out_offs + k - 1 - MaxEntries
    BY <1>1, <1>2, PointerCastProperty, SMTT(30) DEF Slots
  <2>2. CASE b.full
    BY <2>1, <2>2 DEF WellFormed
  <2>3. CASE ~b.full
    <3>1. b.out_offs = 0 /\ Count(b) = b.in_offs
      BY <2>3 DEF WellFormed, Count
    <3>2. PointerCast(b.out_offs + k - 1) < b.in_offs
      BY <1>1, <2>1, <3>1 DEF Slots
    <3> QED BY <2>1, <2>3, <3>2 DEF WellFormed
  <2> QED BY <2>2, <2>3
<1>4. Contents(b) \in Seq(Entry) /\ Len(Contents(b)) = Count(b)
  BY <1>2, <1>3 DEF Contents
<1>5. \A k \in 1..Count(b) : \E i \in Slots : Contents(b)[k] = b.entry[i]
  BY <1>3 DEF Contents
<1> QED BY <1>2, <1>4, <1>5

\* aesd_circular_buffer_add_entry keeps the buffer well formed.
LEMMA AddEntryWellFormed ==
  ASSUME NEW b, WellFormed(b), NEW e \in Entry
  PROVE  WellFormed(AddEntry(b, e))
<1> DEFINE c == AddEntry(b, e)
<1> USE MaxEntriesAssumption
<1>1. /\ b.in_offs \in Slots /\ b.out_offs \in Slots /\ b.full \in BOOLEAN
      /\ b.entry \in [Slots -> Entry \cup {NoEntry}] /\ b.size \in Int
  BY DEF WellFormed, BufferType
<1>2. /\ c.in_offs = PointerInc(b.in_offs)
      /\ c.out_offs = IF b.full THEN PointerInc(b.out_offs) ELSE b.out_offs
      /\ c.full = (c.in_offs = c.out_offs)
      /\ c.entry = [b.entry EXCEPT ![b.in_offs] = e]
      /\ c.size = b.size + (e.size - b.entry[b.in_offs].size)
  BY DEF AddEntry
<1> SUFFICES WellFormed(c) OBVIOUS
<1>3. c \in BufferType
  <2>1. c.size \in Int
    BY <1>1, <1>2 DEF Entry, NoEntry
  <2>2. c.entry \in [Slots -> Entry \cup {NoEntry}]
    BY <1>1, <1>2
  <2>3. c.in_offs \in Slots /\ c.out_offs \in Slots /\ c.full \in BOOLEAN
    BY <1>1, <1>2, PointerIncProperty
  <2> QED BY <2>1, <2>2, <2>3 DEF AddEntry, BufferType
<1> HIDE DEF c
<1>4. CASE b.full
  <2>1. c.in_offs = c.out_offs /\ c.full
    BY <1>1, <1>2, <1>4 DEF WellFormed
  <2>2. \A i \in Slots : c.entry[i] \in Entry
    BY <1>1, <1>2, <1>4 DEF WellFormed
  <2> QED BY <1>3, <2>1, <2>2 DEF WellFormed
<1>5. CASE ~b.full
  <2>1. /\ b.out_offs = 0 /\ c.out_offs = 0
        /\ \A i \in Slots : b.entry[i] \in Entry <=> i < b.in_offs
    BY <1>1, <1>2, <1>5 DEF WellFormed
  <2>2. \A i \in Slots : c.entry[i] \in Entry <=> i <= b.in_offs
    BY <1>1, <1>2, <2>1 DEF Slots
  <2>3. CASE b.in_offs = MaxEntries - 1
    <3>1. c.in_offs = 0 /\ c.full
      BY <1>1, <1>2, <2>1, <2>3, PointerIncProperty
    <3>2. \A i \in Slots : c.entry[i] \in Entry
      BY <2>2, <2>3 DEF Slots
    <3> QED BY <1>3, <2>1, <3>1, <3>2 DEF WellFormed
  <2>4. CASE b.in_offs # MaxEntries - 1
    <3>1. c.in_offs = b.in_offs + 1 /\ ~c.full
      BY <1>1, <1>2, <2>1, <2>4, PointerIncProperty, SMTT(30) DEF Slots
    <3>2. \A i \in Slots : c.entry[i] \in Entry <=> i < c.in_offs
      BY <1>1, <2>2, <3>1 DEF Slots
    <3> QED BY <1>3, <2>1, <3>1, <3>2 DEF WellFormed
  <2> QED BY <2>3, <2>4
<1> QED BY <1>1, <1>4, <1>5

(***************************************************************************)
(* aesd_circular_buffer_add_entry appends its entry to the contents and    *)
(* drops the oldest entry when the buffer was full.                        *)
(***************************************************************************)
LEMMA AddEntryPushes ==
  ASSUME NEW b, WellFormed(b), NEW e \in Entry
  PROVE  Contents(AddEntry(b, e)) = History!Push(Contents(b), e)
<1> DEFINE c == AddEntry(b, e)
           P == History!Push(Contents(b), e)
<1> USE MaxEntriesAssumption
<1>1. /\ b.in_offs \in Slots /\ b.out_offs \in Slots /\ b.full \in BOOLEAN
      /\ b.entry \in [Slots -> Entry \cup {NoEntry}]
  BY DEF WellFormed, BufferType
<1>2. /\ c.in_offs = PointerInc(b.in_offs)
      /\ c.out_offs = IF b.full THEN PointerInc(b.out_offs) ELSE b.out_offs
      /\ c.full = (c.in_offs = c.out_offs)
      /\ c.entry = [b.entry EXCEPT ![b.in_offs] = e]
  BY DEF AddEntry
<1> SUFFICES Contents(c) = P OBVIOUS
<1> HIDE DEF c
<1>3. Count(b) \in 0..MaxEntries
  BY <1>1 DEF Count, Slots
<1>4. \A k \in 1..Count(b) : Contents(b)[k] = b.entry[PointerCast(b.out_offs + k - 1)]
  BY DEF Contents
<1>5. Contents(b) \in Seq(Entry \cup {NoEntry}) /\ Len(Contents(b)) = Count(b)
  <2>1. \A k \in 1..Count(b) : PointerCast(b.out_offs + k - 1) \in Slots
    BY <1>1, <1>3, PointerCastProperty DEF Slots
  <2> QED BY <1>1, <1>3, <2>1 DEF Contents
<1>6. CASE b.full
  <2>1. /\ b.in_offs = b.out_offs /\ c.in_offs = c.out_offs /\ c.full
        /\ Count(b) = MaxEntries /\ Count(c) = MaxEntries
    BY <1>1, <1>2, <1>6 DEF WellFormed, Count
  <2>2. P = Append(Tail(Contents(b)), e)
    BY <1>5, <2>1 DEF History!Push
  <2>3. /\ P \in [1..MaxEntries -> Entry \cup {NoEntry}]
        /\ \A k \in 1..MaxEntries :
             P[k] = IF k = MaxEntries THEN e ELSE Contents(b)[k + 1]
    <3> DEFINE h == Contents(b)
    <3>1. Len(h) = MaxEntries /\ h \in Seq(Entry \cup {NoEntry})
      BY <1>5, <2>1
    <3>2. P = Append(Tail(h), e)
      BY <2>2
    <3> HIDE DEF P, h
    <3>3. h # << >>
      BY <3>1, EmptySeq
    <3>4. /\ Append(Tail(h), e) \in [1..Len(h) -> Entry \cup {NoEntry}]
          /\ \A k \in 1..Len(h) :
               Append(Tail(h), e)[k] = IF k = Len(h) THEN e ELSE h[k + 1]
      BY <3>1, <3>3, AppendTailElements, SMTT(30)
    <3>5. /\ P \in [1..MaxEntries -> Entry \cup {NoEntry}]
          /\ \A k \in 1..MaxEntries : P[k] = IF k = MaxEntries THEN e ELSE h[k + 1]
      BY <3>1, <3>2, <3>4
    <3> QED BY <3>5 DEF h
  <2>4. ASSUME NEW k \in 1..MaxEntries
        PROVE  c.entry[PointerCast(c.out_offs + k - 1)] = P[k]
    <3>1. c.out_offs = IF b.out_offs = MaxEntries - 1 THEN 0 ELSE b.out_offs + 1
      BY <1>1, <1>2, <1>6, PointerIncProperty
    <3>2. PointerCast(c.out_offs + k - 1) =
            IF b.out_offs + k < MaxEntries THEN b.out_offs + k
            ELSE b.out_offs + k - MaxEntries
      BY <1>1, <3>1, PointerCastProperty, SMTT(30) DEF Slots
    <3>3. CASE k = MaxEntries
      BY <1>1, <1>2, <2>1, <2>3, <3>2, <3>3 DEF Slots
    <3>4. CASE k # MaxEntries
      <4>1. /\ k + 1 \in 1..MaxEntries
            /\ PointerCast(b.out_offs + (k + 1) - 1) = PointerCast(c.out_offs + k - 1)
            /\ PointerCast(c.out_offs + k - 1) \in Slots \ {b.in_offs}
        BY <1>1, <2>1, <3>2, <3>4, PointerCastProperty DEF Slots
      <4>2. P[k] = b.entry[PointerCast(b.out_offs + (k + 1) - 1)]
        BY <1>4, <2>1, <2>3, <3>4, <4>1
      <4> QED BY <1>1, <1>2, <4>1, <4>2
    <3> QED BY <3>3, <3>4
  <2>5. Contents(c) = [k \in 1..MaxEntries |-> c.entry[PointerCast(c.out_offs + k - 1)]]
    BY <2>1 DEF Contents
  <2>6. P = [k \in 1..MaxEntries |-> P[k]]
    BY <2>3
  <2> HIDE DEF P
  <2> QED BY <2>4, <2>5, <2>6
<1>7. CASE ~b.full
  <2>1. /\ b.out_offs = 0 /\ c.out_offs = 0 /\ Count(b) = b.in_offs
        /\ b.in_offs < MaxEntries
    BY <1>1, <1>2, <1>7 DEF WellFormed, Count, Slots
  <2>2. P = Append(Contents(b), e)
    BY <1>5, <2>1 DEF History!Push
  <2>3. Count(c) = b.in_offs + 1
    <3>1. CASE b.in_offs = MaxEntries - 1
      <4>1. c.in_offs = 0 /\ c.full
        BY <1>1, <1>2, <2>1, <3>1, PointerIncProperty
      <4> QED BY <1>1, <3>1, <4>1 DEF Count, Slots
    <3>2. CASE b.in_offs # MaxEntries - 1
      <4>1. c.in_offs = b.in_offs + 1 /\ ~c.full
        BY <1>1, <1>2, <2>1, <3>2, PointerIncProperty DEF Slots
      <4> QED BY <4>1 DEF Count
    <3> QED BY <3>1, <3>2
  <2>4. /\ P \in [1..(b.in_offs + 1) -> Entry \cup {NoEntry}]
        /\ \A k \in 1..(b.in_offs + 1) :
             P[k] = IF k = b.in_offs + 1 THEN e ELSE Contents(b)[k]
    <3> HIDE DEF P
    <3> QED BY <1>5, <2>1, <2>2, AppendElements
  <2>5. ASSUME NEW k \in 1..(b.in_offs + 1)
        PROVE  c.entry[PointerCast(c.out_offs + k - 1)] = P[k]
    <3>1. PointerCast(c.out_offs + k - 1) = k - 1 /\ k - 1 \in Slots
      <4>1. c.out_offs + k - 1 = k - 1 /\ k - 1 \in 0..(MaxEntries - 1)
        BY <1>1, <2>1 DEF Slots
      <4>2. k - 1 \in 0..(2 * MaxEntries - 1) /\ k - 1 < MaxEntries
        BY <4>1
      <4> QED BY <4>1, <4>2, PointerCastProperty DEF Slots
    <3>2. CASE k = b.in_offs + 1
      BY <1>1, <1>2, <2>4, <3>1, <3>2 DEF Slots
    <3>3. CASE k # b.in_offs + 1
      BY <1>1, <1>2, <1>4, <2>1, <2>4, <3>1, <3>3, SMTT(30) DEF Slots
    <3> QED BY <3>2, <3>3
  <2>6. Contents(c) = [k \in 1..(b.in_offs + 1) |-> c.entry[PointerCast(c.out_offs + k - 1)]]
    BY <2>3 DEF Contents
  <2>7. P = [k \in 1..(b.in_offs + 1) |-> P[k]]
    BY <2>4
  <2> HIDE DEF P
  <2> QED BY <2>5, <2>6, <2>7
<1> QED BY <1>1, <1>6, <1>7

-----------------------------------------------------------------------------

(***************************************************************************)
(* Whatever is added, the structure of aesd-circular-buffer.h stays well   *)
(* formed: full, in_offs and out_offs agree on which slots hold entries.   *)
(***************************************************************************)
THEOREM RingWellFormed == CBSpec => []BufferWellFormed
<1>1. CBInit => BufferWellFormed
  BY EmptyBufferWellFormed DEF CBInit, BufferWellFormed
<1>2. BufferWellFormed /\ [CBNext]_buffer => BufferWellFormed'
  BY AddEntryWellFormed, AddedAreEntries DEF BufferWellFormed, CBNext, Add
<1> QED BY <1>1, <1>2, PTL DEF CBSpec

(***************************************************************************)
(* aesd_circular_buffer_add_entry implements the abstract history: the     *)
(* buffer always holds the most recent entries, oldest first.              *)
(***************************************************************************)
THEOREM RingImplementsHistory == CBSpec => RingKeepsLatest
<1>1. CBInit => History!HInit
  BY EmptyBufferWellFormed DEF CBInit, History!HInit
<1>2. BufferWellFormed /\ [CBNext]_buffer => [History!HNext]_(Contents(buffer))
  <2>1. ASSUME BufferWellFormed, NEW e \in Added, Add(e)
        PROVE  History!HNext
    BY <2>1, AddEntryPushes, AddedAreEntries DEF BufferWellFormed, Add, History!HNext
  <2>2. ASSUME UNCHANGED buffer
        PROVE  UNCHANGED Contents(buffer)
    BY <2>2
  <2> QED BY <2>1, <2>2 DEF CBNext
<1> QED BY <1>1, <1>2, RingWellFormed, PTL DEF CBSpec, RingKeepsLatest, History!HSpec

-----------------------------------------------------------------------------
(* The bytes before an entry *)

\* The boundary of the loops over the buffer: one beyond the newest entry.
LEMMA BoundaryIsEnd ==
  ASSUME NEW b, WellFormed(b)
  PROVE  /\ b.out_offs \in Slots /\ Count(b) \in 0..MaxEntries
         /\ UpperBoundary(b) = b.out_offs + Count(b)
         /\ UpperBoundary(b) \in 0..(2 * MaxEntries - 1)
<1> USE MaxEntriesAssumption
<1>1. b.in_offs \in Slots /\ b.out_offs \in Slots /\ b.full \in BOOLEAN
  BY DEF WellFormed, BufferType
<1>2. CASE b.full
  <2>1. b.in_offs = b.out_offs /\ Count(b) = MaxEntries
    BY <1>2 DEF WellFormed, Count
  <2>2. UpperBoundary(b) = (b.in_offs + MaxEntries) % 256
    BY <1>2 DEF UpperBoundary
  <2>3. b.in_offs + MaxEntries \in 0..255
    BY <1>1, SMTT(30) DEF Slots
  <2> QED BY <1>1, <2>1, <2>2, <2>3 DEF Slots
<1>3. CASE ~b.full
  <2>1. b.out_offs = 0 /\ Count(b) = b.in_offs
    BY <1>3 DEF WellFormed, Count
  <2>2. UpperBoundary(b) = b.in_offs % 256
    BY <1>1, <1>3 DEF UpperBoundary, Slots
  <2>3. b.in_offs \in 0..255
    BY <1>1 DEF Slots
  <2> QED BY <1>1, <2>1, <2>2, <2>3 DEF Slots
<1> QED BY <1>1, <1>2, <1>3

\* The loop behind PrefixSize.
IsPrefixSum(b, g) ==
  g = [n \in 0..Count(b) |-> IF n = 0 THEN 0 ELSE g[n - 1] + Contents(b)[n].size]

LEMMA PrefixSumExists ==
  ASSUME NEW b, WellFormed(b)
  PROVE  \E g \in [0..Count(b) -> Nat] : IsPrefixSum(b, g)
<1> DEFINE h == Contents(b)
           c == Count(b)
           F == [n \in Nat |-> [v \in Nat |-> IF n < c THEN v + h[n + 1].size ELSE v]]
<1>1. c \in Nat /\ \A k \in 1..c : h[k].size \in Nat
  <2>1. c \in Nat /\ h \in Seq(Entry) /\ Len(h) = c
    BY ContentsAreEntries, MaxEntriesAssumption
  <2>2. \A k \in 1..c : h[k] \in Entry
    BY <2>1, ElementOfSeq
  <2> QED BY <2>1, <2>2 DEF Entry
<1> HIDE DEF c, h
<1>2. F \in [Nat -> [Nat -> Nat]]
  <2>1. \A n \in Nat, v \in Nat : (IF n < c THEN v + h[n + 1].size ELSE v) \in Nat
    BY <1>1
  <2> QED BY <2>1
<1>3. \A n \in Nat, v \in Nat : n < c => F[n][v] = v + h[n + 1].size
  OBVIOUS
<1> HIDE DEF F
<1>4. PICK f : Recursion(f, Nat, 0, F)
  BY <1>2, RecursionExists
<1>5. f \in [Nat -> Nat] /\ f[0] = 0 /\ \A n \in Nat : f[n + 1] = F[n][f[n]]
  BY <1>4 DEF Recursion
<1> DEFINE g == [n \in 0..c |-> f[n]]
<1>6. g \in [0..c -> Nat]
  BY <1>1, <1>5
<1>7. \A n \in 0..c : g[n] = IF n = 0 THEN 0 ELSE g[n - 1] + h[n].size
  <2> SUFFICES ASSUME NEW n \in 0..c, n # 0 PROVE g[n] = g[n - 1] + h[n].size
    BY <1>1, <1>5
  <2>1. n - 1 \in Nat /\ n - 1 \in 0..c /\ n - 1 < c /\ (n - 1) + 1 = n /\ n \in 0..c
    BY <1>1
  <2>2. f[(n - 1) + 1] = F[n - 1][f[n - 1]]
    BY <1>5, <2>1
  <2>3. F[n - 1][f[n - 1]] = f[n - 1] + h[(n - 1) + 1].size
    BY <1>3, <1>5, <2>1
  <2>4. g[n] = f[n] /\ g[n - 1] = f[n - 1]
    BY <2>1
  <2> QED BY <2>1, <2>2, <2>3, <2>4
<1>8. g = [n \in 0..c |-> g[n]]
  OBVIOUS
<1> HIDE DEF g
<1>9. g = [n \in 0..c |-> IF n = 0 THEN 0 ELSE g[n - 1] + h[n].size]
  BY <1>7, <1>8
<1>10. IsPrefixSum(b, g) /\ g \in [0..Count(b) -> Nat]
  BY <1>6, <1>9 DEF IsPrefixSum, c, h
<1> QED BY <1>10

\* The sizes of the entries add up.
LEMMA PrefixSizes ==
  ASSUME NEW b, WellFormed(b)
  PROVE  /\ PrefixSize(b, 0) = 0
         /\ \A k \in 1..Count(b) :
              PrefixSize(b, k) = PrefixSize(b, k - 1) + Contents(b)[k].size
<1> DEFINE g == CHOOSE f : IsPrefixSum(b, f)
<1>1. IsPrefixSum(b, g)
  BY PrefixSumExists
<1>2. \A k : PrefixSize(b, k) = g[k]
  BY DEF PrefixSize, IsPrefixSum
<1> HIDE DEF g
<1>3. Count(b) \in Nat
  BY ContentsAreEntries, MaxEntriesAssumption
<1>4. \A n \in 0..Count(b) : g[n] = IF n = 0 THEN 0 ELSE g[n - 1] + Contents(b)[n].size
  BY <1>1 DEF IsPrefixSum
<1>5. g[0] = 0
  BY <1>3, <1>4
<1>6. \A k \in 1..Count(b) : g[k] = g[k - 1] + Contents(b)[k].size
  BY <1>3, <1>4
<1> QED BY <1>2, <1>5, <1>6

\* Sizes are positive: the bytes before an entry grow from entry to entry.
LEMMA PrefixGrows ==
  ASSUME NEW b, WellFormed(b)
  PROVE  /\ \A k \in 0..Count(b) : PrefixSize(b, k) \in Nat
         /\ \A k \in 1..Count(b) : Contents(b)[k].size \in Nat \ {0}
         /\ \A k \in 0..Count(b), l \in 0..Count(b) :
              k <= l => PrefixSize(b, k) <= PrefixSize(b, l)
<1> DEFINE c == Count(b)
           g == [k \in 0..c |-> PrefixSize(b, k)]
           s == [k \in 1..c |-> Contents(b)[k].size]
<1>1. c \in Nat
  BY ContentsAreEntries, MaxEntriesAssumption
<1>2. \A k \in 1..c : Contents(b)[k].size \in Nat \ {0}
  <2>1. \A k \in 1..c : Contents(b)[k] \in Entry
    BY ContentsAreEntries, ElementOfSeq
  <2> QED BY <2>1 DEF Entry
<1>3. g[0] = 0 /\ \A k \in 1..c : g[k] = g[k - 1] + s[k]
  <2>1. \A k \in 1..c : k - 1 \in 0..c /\ k \in 0..c
    BY <1>1
  <2> QED BY <1>1, <2>1, PrefixSizes
<1>4. \A k \in 1..c : s[k] \in Nat \ {0}
  BY <1>2
<1>5. \A k \in 0..c : PrefixSize(b, k) = g[k]
  OBVIOUS
<1> HIDE DEF g, s
<1>6. \A k \in 0..c : g[k] \in Nat
  <2> DEFINE P == {k \in Nat : k <= c => g[k] \in Nat}
  <2>1. 0 \in P
    BY <1>3
  <2>2. ASSUME NEW k \in Nat, k \in P PROVE k + 1 \in P
    <3> SUFFICES ASSUME k + 1 <= c PROVE g[k + 1] \in Nat
      OBVIOUS
    <3>1. k + 1 \in 1..c /\ (k + 1) - 1 = k /\ g[k] \in Nat
      BY <1>1, <2>2
    <3>2. g[k + 1] = g[k] + s[k + 1]
      BY <1>3, <3>1
    <3> QED BY <1>4, <3>1, <3>2
  <2> HIDE DEF P
  <2>3. \A k \in Nat : k \in P
    BY <2>1, <2>2, InductionSet
  <2> QED BY <1>1, <2>3 DEF P
<1>7. g \in [0..c -> Nat]
  <2>1. g = [k \in 0..c |-> g[k]]
    BY DEF g
  <2> QED BY <1>6, <2>1
<1>8. \A k \in 0..c, l \in 0..c : k <= l => g[k] <= g[l]
  <2>1. \A k \in 1..c : s[k] \in Nat /\ g[k] = g[k - 1] + s[k]
    BY <1>3, <1>4
  <2> QED BY <1>1, <1>7, <2>1, SumsGrow
<1> QED BY <1>2, <1>5, <1>6, <1>8


\* The contents after aesd_circular_buffer_add_entry, and what it overwrites.
LEMMA ContentsAfterAdd ==
  ASSUME NEW b, WellFormed(b), NEW e \in Entry
  PROVE  LET c == AddEntry(b, e)
             h == Contents(b)
             n == Count(b)
         IN  IF b.full
             THEN /\ n = MaxEntries /\ Count(c) = n
                  /\ h[1] = b.entry[b.in_offs]
                  /\ \A k \in 1..n : Contents(c)[k] = IF k = n THEN e ELSE h[k + 1]
             ELSE /\ Count(c) = n + 1
                  /\ b.entry[b.in_offs] = NoEntry
                  /\ \A k \in 1..(n + 1) : Contents(c)[k] = IF k = n + 1 THEN e ELSE h[k]
<1> DEFINE c == AddEntry(b, e)
           h == Contents(b)
           n == Count(b)
<1> USE MaxEntriesAssumption
<1>1. /\ b.in_offs \in Slots /\ b.out_offs \in Slots
      /\ b.entry \in [Slots -> Entry \cup {NoEntry}]
  BY DEF WellFormed, BufferType
<1>2. n \in 0..MaxEntries /\ h \in Seq(Entry) /\ Len(h) = n
  BY ContentsAreEntries
<1>3. Contents(c) = History!Push(h, e) /\ WellFormed(c)
  BY AddEntryPushes, AddEntryWellFormed
<1>4. Len(Contents(c)) = Count(c)
  BY <1>3, ContentsAreEntries
<1>5. CASE b.full
  <2>1. n = MaxEntries /\ b.in_offs = b.out_offs
    BY <1>5 DEF Count, WellFormed
  <2>2. h[1] = b.entry[b.in_offs]
    <3>1. 1 \in 1..n /\ PointerCast(b.out_offs + 1 - 1) = b.out_offs
      <4>1. /\ b.out_offs + 1 - 1 = b.out_offs /\ b.out_offs < MaxEntries
            /\ b.out_offs \in 0..(2 * MaxEntries - 1)
        BY <1>1 DEF Slots
      <4>2. PointerCast(b.out_offs) = b.out_offs
        BY <4>1, PointerCastProperty
      <4>3. 1 \in 1..n
        BY <2>1
      <4> HIDE DEF n
      <4> QED BY <4>1, <4>2, <4>3
    <3> QED BY <2>1, <3>1 DEF Contents
  <2>3. Contents(c) = Append(Tail(h), e)
    BY <1>2, <1>3, <2>1 DEF History!Push
  <2> HIDE DEF h, n, c
  <2>4. h # << >>
    <3>1. Len(h) # 0
      BY <1>2, <2>1
    <3> QED BY <3>1, EmptySeq
  <2>5. /\ Contents(c) \in [1..n -> Entry]
        /\ \A k \in 1..n : Contents(c)[k] = IF k = n THEN e ELSE h[k + 1]
    <3>1. /\ Append(Tail(h), e) \in [1..Len(h) -> Entry]
          /\ \A k \in 1..Len(h) :
               Append(Tail(h), e)[k] = IF k = Len(h) THEN e ELSE h[k + 1]
      BY <1>2, <2>4, AppendTailElements
    <3> QED BY <1>2, <2>3, <3>1
  <2>6. Len(Contents(c)) = n
    BY <1>2, <2>5
  <2> QED BY <1>4, <1>5, <2>1, <2>2, <2>5, <2>6 DEF h, n, c
<1>6. CASE ~b.full
  <2>1. n = b.in_offs /\ b.in_offs < MaxEntries /\ ~(b.entry[b.in_offs] \in Entry)
    <3>1. n = b.in_offs /\ b.in_offs < MaxEntries
      <4>1. n = b.in_offs
        BY <1>6, Zenon DEF Count
      <4>2. b.in_offs < MaxEntries
        BY <1>1 DEF Slots
      <4> QED BY <4>1, <4>2
    <3>2. b.entry[b.in_offs] \in Entry <=> b.in_offs < b.in_offs
      BY <1>1, <1>6 DEF WellFormed
    <3>3. ~(b.in_offs < b.in_offs)
      BY <1>1 DEF Slots
    <3> QED BY <3>1, <3>2, <3>3
  <2>2. Contents(c) = Append(h, e)
    BY <1>2, <1>3, <2>1 DEF History!Push
  <2>3. b.entry[b.in_offs] = NoEntry
    BY <1>1, <2>1
  <2> HIDE DEF h, n, c
  <2>4. /\ Contents(c) \in [1..(n + 1) -> Entry]
        /\ \A k \in 1..(n + 1) : Contents(c)[k] = IF k = n + 1 THEN e ELSE h[k]
    BY <1>2, <2>2, AppendElements
  <2>5. Len(Contents(c)) = n + 1
    BY <1>2, <2>4
  <2> QED BY <1>4, <1>6, <2>3, <2>4, <2>5 DEF h, n, c
<1> QED BY <1>5, <1>6

(***************************************************************************)
(* The size aesd_circular_buffer_add_entry adds and the one it takes off   *)
(* keep the total equal to the bytes stored.                               *)
(***************************************************************************)
LEMMA AddEntryTotal ==
  ASSUME NEW b, WellFormed(b), b.size = PrefixSize(b, Count(b)), NEW e \in Entry
  PROVE  LET c == AddEntry(b, e) IN c.size = PrefixSize(c, Count(c))
<1> DEFINE c == AddEntry(b, e)
           n == Count(b)
           B(k) == PrefixSize(b, k)
           C(k) == PrefixSize(c, k)
           h == Contents(b)
           d == Contents(c)
<1> USE MaxEntriesAssumption
<1>1. WellFormed(c)
  BY AddEntryWellFormed
<1>2. n \in Nat /\ Count(c) \in Nat
  BY <1>1, ContentsAreEntries
<1>3. /\ B(0) = 0 /\ \A k \in 1..n : B(k) = B(k - 1) + h[k].size
      /\ \A k \in 0..n : B(k) \in Nat
  BY PrefixSizes, PrefixGrows
<1>4. /\ C(0) = 0 /\ \A k \in 1..Count(c) : C(k) = C(k - 1) + d[k].size
      /\ \A k \in 0..Count(c) : C(k) \in Nat
  BY <1>1, PrefixSizes, PrefixGrows
<1>5. c.size = B(n) + (e.size - b.entry[b.in_offs].size) /\ e.size \in Nat
  BY DEF AddEntry, Entry
<1>6. CASE b.full
  <2>1. /\ n = MaxEntries /\ Count(c) = n /\ h[1] = b.entry[b.in_offs]
        /\ \A k \in 1..n : d[k] = IF k = n THEN e ELSE h[k + 1]
    BY <1>6, ContentsAfterAdd
  <2> HIDE DEF B, C, h, d, n, c
  <2>2. B(1) = h[1].size
    <3>1. 1 \in 1..n /\ 1 - 1 = 0 /\ 1 \in 0..n
      BY <2>1
    <3>2. B(1) = B(0) + h[1].size /\ B(1) \in Nat
      BY <1>3, <3>1
    <3>3. h[1].size \in Nat
      BY <3>1, PrefixGrows DEF h, n
    <3> QED BY <1>3, <3>2, <3>3
  <2>3. B(1) \in Nat
    BY <1>3, <2>1
  <2> DEFINE P == {k \in Nat : k < n => C(k) = B(k + 1) - B(1)}
  <2>4. 0 \in P
    BY <1>4, <2>3
  <2>5. ASSUME NEW k \in Nat, k \in P PROVE k + 1 \in P
    <3> SUFFICES ASSUME k + 1 < n PROVE C(k + 1) = B((k + 1) + 1) - B(1)
      OBVIOUS
    <3>1. /\ k + 1 \in 1..n /\ k + 2 \in 1..n /\ (k + 1) - 1 = k /\ (k + 2) - 1 = k + 1
          /\ k < n /\ k + 1 # n /\ (k + 1) + 1 = k + 2 /\ k + 1 \in 0..n
      BY <1>2
    <3>2. C(k + 1) = C(k) + d[k + 1].size /\ d[k + 1] = h[k + 2]
      BY <1>4, <2>1, <3>1
    <3>3. B(k + 2) = B(k + 1) + h[k + 2].size
      BY <1>3, <3>1
    <3>4. C(k) = B(k + 1) - B(1)
      BY <2>5, <3>1
    <3>5. h[k + 2].size \in Nat
      BY <3>1, PrefixGrows DEF h, n
    <3>6. B(k + 1) \in Nat
      BY <1>3, <3>1
    <3>7. C(k + 1) = B(k + 2) - B(1)
      BY <2>3, <3>2, <3>3, <3>4, <3>5, <3>6
    <3> QED BY <3>1, <3>7
  <2> HIDE DEF P
  <2>6. n - 1 \in P
    BY <1>2, <2>1, <2>4, <2>5, InductionSet
  <2>7. C(n - 1) = B(n) - B(1)
    <3>1. n - 1 < n /\ (n - 1) + 1 = n
      BY <1>2
    <3> QED BY <2>6, <3>1 DEF P
  <2>8. C(n) = C(n - 1) + e.size
    <3>1. n \in 1..Count(c) /\ d[n] = e
      BY <2>1
    <3> QED BY <1>4, <3>1
  <2>9. B(n) \in Nat
    BY <1>2, <1>3
  <2>10. c.size = C(Count(c))
    BY <1>5, <2>1, <2>2, <2>3, <2>7, <2>8, <2>9
  <2> QED BY <2>10 DEF C, c
<1>7. CASE ~b.full
  <2>1. /\ Count(c) = n + 1 /\ b.entry[b.in_offs] = NoEntry
        /\ \A k \in 1..(n + 1) : d[k] = IF k = n + 1 THEN e ELSE h[k]
    BY <1>7, ContentsAfterAdd
  <2> HIDE DEF B, C, h, d, n, c
  <2> DEFINE P == {k \in Nat : k <= n => C(k) = B(k)}
  <2>2. 0 \in P
    BY <1>3, <1>4
  <2>3. ASSUME NEW k \in Nat, k \in P PROVE k + 1 \in P
    <3> SUFFICES ASSUME k + 1 <= n PROVE C(k + 1) = B(k + 1)
      OBVIOUS
    <3>1. /\ k + 1 \in 1..n /\ k + 1 \in 1..(n + 1) /\ (k + 1) - 1 = k
          /\ k <= n /\ k + 1 # n + 1
      BY <1>2
    <3>2. C(k + 1) = C(k) + d[k + 1].size /\ d[k + 1] = h[k + 1]
      BY <1>4, <2>1, <3>1
    <3>3. B(k + 1) = B(k) + h[k + 1].size
      BY <1>3, <3>1
    <3>4. C(k) = B(k)
      BY <2>3, <3>1
    <3> QED BY <3>2, <3>3, <3>4
  <2> HIDE DEF P
  <2>4. C(n) = B(n)
    <3>1. n \in P
      BY <1>2, <2>2, <2>3, InductionSet
    <3> QED BY <1>2, <3>1 DEF P
  <2>5. C(n + 1) = C(n) + e.size
    <3>1. n + 1 \in 1..Count(c) /\ d[n + 1] = e /\ (n + 1) - 1 = n
      BY <1>2, <2>1
    <3> QED BY <1>4, <3>1
  <2>6. B(n) \in Nat /\ NoEntry.size = 0
    BY <1>2, <1>3 DEF NoEntry
  <2>7. c.size = C(Count(c))
    BY <1>5, <2>1, <2>4, <2>5, <2>6
  <2> QED BY <2>7 DEF C, c
<1> QED BY <1>6, <1>7

LEMMA EmptyTotal == EmptyBuffer.size = PrefixSize(EmptyBuffer, Count(EmptyBuffer))
<1>1. WellFormed(EmptyBuffer)
  BY EmptyBufferWellFormed
<1>2. EmptyBuffer.size = 0 /\ Count(EmptyBuffer) = 0
  BY DEF EmptyBuffer, Count
<1> QED BY <1>1, <1>2, PrefixSizes

(***************************************************************************)
(* The running total of aesd_circular_buffer_add_entry is the number of    *)
(* bytes stored, however often the ring has wrapped.                       *)
(***************************************************************************)
THEOREM RingSizeIsTotal == CBSpec => []SizeIsTotal
<1>1. CBInit => SizeIsTotal
  BY EmptyTotal DEF CBInit, SizeIsTotal
<1>2. BufferWellFormed /\ SizeIsTotal /\ [CBNext]_buffer => SizeIsTotal'
  <2>1. ASSUME BufferWellFormed, SizeIsTotal, NEW e \in Added, Add(e)
        PROVE  SizeIsTotal'
    <3>1. e \in Entry /\ WellFormed(buffer) /\ buffer.size = PrefixSize(buffer, Count(buffer))
      BY <2>1, AddedAreEntries DEF BufferWellFormed, SizeIsTotal
    <3>2. AddEntry(buffer, e).size = PrefixSize(AddEntry(buffer, e), Count(AddEntry(buffer, e)))
      BY <3>1, AddEntryTotal
    <3>3. buffer' = AddEntry(buffer, e)
      BY <2>1 DEF Add
    <3> QED BY <3>2, <3>3 DEF SizeIsTotal
  <2>2. ASSUME SizeIsTotal, UNCHANGED buffer PROVE SizeIsTotal'
    BY <2>2 DEF SizeIsTotal
  <2> QED BY <2>1, <2>2 DEF CBNext
<1> QED BY <1>1, <1>2, RingWellFormed, PTL DEF CBSpec


-----------------------------------------------------------------------------
(* The loops over the buffer *)

\* CB_POINTER_CAST of any index is a slot, and the slot's size a natural.
BlockLen(b, i) == b.entry[PointerCast(i)].size

LEMMA BlockLens ==
  ASSUME NEW b, WellFormed(b)
  PROVE  /\ \A i \in Nat : PointerCast(i) \in Nat /\ BlockLen(b, i) \in Nat
         /\ \A k \in 1..Count(b) : BlockLen(b, b.out_offs + k - 1) = Contents(b)[k].size
<1>1. \A i \in Nat : PointerCast(i) \in Slots
  BY MaxEntriesAssumption DEF PointerCast, Slots
<1>2. b.entry \in [Slots -> Entry \cup {NoEntry}]
  BY DEF WellFormed, BufferType
<1>3. \A e \in Entry \cup {NoEntry} : e.size \in Nat
  BY DEF Entry, NoEntry
<1>4. \A i \in Nat : PointerCast(i) \in Nat
  BY <1>1 DEF Slots
<1>5. \A i \in Nat : BlockLen(b, i) \in Nat
  BY <1>1, <1>2, <1>3 DEF BlockLen
<1>6. \A k \in 1..Count(b) : BlockLen(b, b.out_offs + k - 1) = Contents(b)[k].size
  BY DEF BlockLen, Contents
<1> QED BY <1>4, <1>5, <1>6

\* The loop of aesd_circular_buffer_find_entry_offset_for_fpos.
IsWalk(b, w) ==
  w = [i \in Nat |-> [off \in Nat |->
        IF i >= UpperBoundary(b) THEN NULL
        ELSE IF off < b.entry[PointerCast(i)].size
             THEN [ind |-> PointerCast(i), offset |-> off]
             ELSE w[i + 1][off - b.entry[PointerCast(i)].size]]]

\* One round of it, given what the rest of the loop returns.
Round(b, i, rest, off) ==
  IF off < BlockLen(b, i) THEN [ind |-> PointerCast(i), offset |-> off]
  ELSE rest[off - BlockLen(b, i)]

LEMMA WalkExists ==
  ASSUME NEW b, WellFormed(b)
  PROVE  \E w : IsWalk(b, w)
<1> DEFINE W == {NULL} \cup [ind : Nat, offset : Nat]
           V == [Nat -> W]
           stop == [off \in Nat |-> NULL]
           F == [i \in Nat |-> [v \in V |-> [off \in Nat |-> Round(b, i, v, off)]]]
           m == UpperBoundary(b)
<1>1. stop \in V /\ m \in Nat
  BY BoundaryIsEnd, MaxEntriesAssumption
<1>2. ASSUME NEW i \in Nat, NEW v \in V, NEW off \in Nat PROVE Round(b, i, v, off) \in W
  <2>1. PointerCast(i) \in Nat /\ BlockLen(b, i) \in Nat
    BY BlockLens
  <2>2. CASE off < BlockLen(b, i)
    BY <2>1, <2>2 DEF Round
  <2>3. CASE ~(off < BlockLen(b, i))
    <3>1. off - BlockLen(b, i) \in Nat
      BY <2>1, <2>3
    <3> QED BY <2>3, <3>1 DEF Round
  <2> QED BY <2>2, <2>3
<1>3. F \in [Nat -> [V -> V]]
  <2> HIDE DEF W
  <2>1. \A i \in Nat, v \in V : [off \in Nat |-> Round(b, i, v, off)] \in V
    BY <1>2
  <2> HIDE DEF V
  <2> QED BY <2>1
<1>4. \A i \in Nat, v \in V : F[i][v] = [off \in Nat |-> Round(b, i, v, off)]
  OBVIOUS
<1> HIDE DEF F, W, V
<1>5. PICK w : Loop(w, m, V, stop, F)
  BY <1>1, <1>3, LoopExists
<1>6. w \in [Nat -> V] /\ \A i \in Nat : w[i] = IF i >= m THEN stop ELSE F[i][w[i + 1]]
  BY <1>5 DEF Loop
<1>7. ASSUME NEW i \in Nat
      PROVE  w[i] = [off \in Nat |->
                      IF i >= m THEN NULL
                      ELSE IF off < b.entry[PointerCast(i)].size
                           THEN [ind |-> PointerCast(i), offset |-> off]
                           ELSE w[i + 1][off - b.entry[PointerCast(i)].size]]
  <2> HIDE DEF m
  <2>1. CASE i >= m
    BY <1>6, <2>1
  <2>2. CASE ~(i >= m)
    <3>1. w[i] = F[i][w[i + 1]] /\ w[i + 1] \in V
      BY <1>6, <2>2
    <3>2. w[i] = [off \in Nat |-> Round(b, i, w[i + 1], off)]
      BY <1>4, <3>1
    <3> QED BY <2>2, <3>2 DEF Round, BlockLen
  <2> QED BY <2>1, <2>2
<1>8. w = [i \in Nat |-> w[i]]
  BY <1>6
<1>9. IsWalk(b, w)
  BY <1>7, <1>8 DEF IsWalk
<1> QED BY <1>9

(***************************************************************************)
(* What looking up position pos of the concatenated entries should return. *)
(***************************************************************************)
FoundAt(b, pos, found) ==
  IF pos >= PrefixSize(b, Count(b)) THEN found = NULL
  ELSE \E k \in 1..Count(b) :
         /\ PrefixSize(b, k - 1) <= pos
         /\ pos < PrefixSize(b, k)
         /\ found = [ind |-> PointerCast(b.out_offs + k - 1),
                     offset |-> pos - PrefixSize(b, k - 1)]

(***************************************************************************)
(* The walk returns it.  By induction from the newest entry back: from the *)
(* k-th entry on, the walk finds byte rem of what is left, which is byte   *)
(* rem + PrefixSize(b, k) of the whole.                                    *)
(***************************************************************************)
LEMMA FindEntryFinds ==
  ASSUME NEW b, WellFormed(b), NEW pos \in Nat
  PROVE  FoundAt(b, pos, FindEntry(b, pos))
<1> DEFINE w == CHOOSE f : IsWalk(b, f)
           n == Count(b)
           o == b.out_offs
           m == UpperBoundary(b)
           B(k) == PrefixSize(b, k)
           L(i) == BlockLen(b, i)
<1> USE MaxEntriesAssumption
<1>1. IsWalk(b, w)
  BY WalkExists
<1>2. FindEntry(b, pos) = w[o][pos]
  BY DEF FindEntry, IsWalk
<1> HIDE DEF w
<1>3. n \in Nat /\ o \in Nat /\ m = o + n
  BY BoundaryIsEnd DEF Slots
<1>4. ASSUME NEW i \in Nat, NEW off \in Nat
      PROVE  w[i][off] = IF i >= m THEN NULL ELSE Round(b, i, w[i + 1], off)
  <2>1. w[i] = [x \in Nat |->
                  IF i >= m THEN NULL
                  ELSE IF x < b.entry[PointerCast(i)].size
                       THEN [ind |-> PointerCast(i), offset |-> x]
                       ELSE w[i + 1][x - b.entry[PointerCast(i)].size]]
    BY <1>1, Zenon DEF IsWalk
  <2> HIDE DEF m
  <2>2. w[i][off] = IF i >= m THEN NULL
                    ELSE IF off < b.entry[PointerCast(i)].size
                         THEN [ind |-> PointerCast(i), offset |-> off]
                         ELSE w[i + 1][off - b.entry[PointerCast(i)].size]
    BY <2>1, Zenon
  <2> QED BY <2>2 DEF Round, BlockLen
<1>5. /\ B(0) = 0
      /\ \A k \in 0..(n - 1) : L(o + k) \in Nat /\ B(k + 1) = B(k) + L(o + k)
  <2>1. B(0) = 0 /\ \A k \in 1..n : B(k) = B(k - 1) + Contents(b)[k].size
    BY PrefixSizes
  <2>2. ASSUME NEW k \in 0..(n - 1) PROVE L(o + k) \in Nat /\ B(k + 1) = B(k) + L(o + k)
    <3>1. k + 1 \in 1..n /\ (k + 1) - 1 = k /\ o + (k + 1) - 1 = o + k /\ o + k \in Nat
      BY <1>3
    <3>2. L(o + (k + 1) - 1) = Contents(b)[k + 1].size /\ L(o + k) \in Nat
      BY <3>1, BlockLens
    <3> QED BY <2>1, <3>1, <3>2
  <2> QED BY <2>1, <2>2
<1>6. /\ \A k \in 0..n : B(k) \in Nat
      /\ \A k \in 0..n, l \in 0..n : k <= l => B(k) <= B(l)
  BY PrefixGrows
<1> DEFINE P == {j \in Nat : j <= n =>
                   \A rem \in Nat : FoundAt(b, rem + B(n - j), w[o + (n - j)][rem])}
<1>7. 0 \in P
  <2> SUFFICES ASSUME NEW rem \in Nat PROVE FoundAt(b, rem + B(n - 0), w[o + (n - 0)][rem])
    OBVIOUS
  <2>1. n - 0 = n /\ o + n \in Nat /\ o + n >= m
    BY <1>3
  <2>2. w[o + n][rem] = NULL
    BY <1>4, <2>1
  <2>3. rem + B(n) >= B(n)
    BY <1>3, <1>6
  <2> QED BY <2>1, <2>2, <2>3 DEF FoundAt
<1>8. ASSUME NEW j \in Nat, j \in P PROVE j + 1 \in P
  <2> SUFFICES ASSUME j + 1 <= n, NEW rem \in Nat
               PROVE  FoundAt(b, rem + B(n - (j + 1)), w[o + (n - (j + 1))][rem])
    OBVIOUS
  <2> DEFINE k == n - (j + 1)
             i == o + k
  <2>1. /\ k \in 0..(n - 1) /\ n - j = k + 1 /\ o + (n - j) = i + 1 /\ j <= n
        /\ k + 1 \in 0..n /\ k \in 0..n /\ i \in Nat /\ ~(i >= m)
    BY <1>3
  <2>2. \A r \in Nat : FoundAt(b, r + B(k + 1), w[i + 1][r])
    BY <1>8, <2>1
  <2> HIDE DEF k, P
  <2>3. w[i][rem] = Round(b, i, w[i + 1], rem)
    BY <1>4, <2>1
  <2>4. B(k + 1) = B(k) + L(i) /\ L(i) \in Nat /\ B(k) \in Nat
    BY <1>5, <1>6, <2>1
  <2>5. CASE rem < L(i)
    <3>1. w[i][rem] = [ind |-> PointerCast(i), offset |-> rem]
      BY <2>3, <2>5 DEF Round
    <3>2. /\ B(k) <= rem + B(k) /\ rem + B(k) < B(k + 1) /\ (rem + B(k)) - B(k) = rem
      BY <2>4, <2>5
    <3>3. B(k + 1) <= B(n) /\ B(n) \in Nat
      BY <1>3, <1>6, <2>1
    <3>4. ~(rem + B(k) >= B(n))
      BY <2>4, <3>2, <3>3
    <3>5. k + 1 \in 1..n /\ (k + 1) - 1 = k /\ o + (k + 1) - 1 = i
      BY <1>3, <2>1
    <3> HIDE DEF B, o, n, i
    <3>6. \E q \in 1..n : /\ B(q - 1) <= rem + B(k)
                          /\ rem + B(k) < B(q)
                          /\ w[i][rem] = [ind |-> PointerCast(o + q - 1),
                                          offset |-> (rem + B(k)) - B(q - 1)]
      BY <3>1, <3>2, <3>5
    <3>7. FoundAt(b, rem + B(k), w[i][rem])
      BY <3>4, <3>6 DEF FoundAt, B, o, n
    <3> QED BY <3>7 DEF k, i, o, n, B
  <2>6. CASE ~(rem < L(i))
    <3>1. w[i][rem] = w[i + 1][rem - L(i)]
      BY <2>3, <2>6 DEF Round
    <3>2. rem - L(i) \in Nat /\ (rem - L(i)) + B(k + 1) = rem + B(k)
      BY <2>4, <2>6
    <3>3. FoundAt(b, (rem - L(i)) + B(k + 1), w[i + 1][rem - L(i)])
      BY <2>2, <3>2
    <3>4. FoundAt(b, rem + B(k), w[i][rem])
      BY <3>1, <3>2, <3>3
    <3> QED BY <3>4 DEF k
  <2> QED BY <2>5, <2>6
<1> HIDE DEF P
<1>9. n \in P
  BY <1>3, <1>7, <1>8, InductionSet
<1>10. FoundAt(b, pos + B(n - n), w[o + (n - n)][pos])
  BY <1>3, <1>9 DEF P
<1>11. n - n = 0 /\ o + 0 = o /\ pos + 0 = pos
  BY <1>3
<1>12. FoundAt(b, pos, w[o][pos])
  BY <1>5, <1>10, <1>11
<1> QED BY <1>2, <1>12


(***************************************************************************)
(* Looking a position up is looking it up in the entries concatenated end  *)
(* to end, in every state the ring can reach.                              *)
(***************************************************************************)
THEOREM RingFindIsConcatenation == CBSpec => []FindIsConcatenation
<1>1. BufferWellFormed => FindIsConcatenation
  <2> SUFFICES ASSUME BufferWellFormed, NEW off \in 0..(MaxEntries * MaxSize)
               PROVE  FoundAt(buffer, off, FindEntry(buffer, off))
    BY DEF FindIsConcatenation, FoundAt
  <2>1. MaxEntries * MaxSize \in Nat
    BY MaxEntriesAssumption, MaxSizeAssumption
  <2>2. off \in Nat
    BY <2>1
  <2> QED BY <2>2, FindEntryFinds DEF BufferWellFormed
<1> QED BY <1>1, RingWellFormed, PTL

\* A position is inside one entry only.
LEMMA FoundInEntry ==
  ASSUME NEW b, WellFormed(b), NEW pos \in Nat, NEW k \in 1..Count(b),
         PrefixSize(b, k - 1) <= pos, pos < PrefixSize(b, k)
  PROVE  FindEntry(b, pos) = [ind |-> PointerCast(b.out_offs + k - 1),
                              offset |-> pos - PrefixSize(b, k - 1)]
<1> DEFINE n == Count(b)
           B(i) == PrefixSize(b, i)
           found == FindEntry(b, pos)
<1>1. n \in Nat
  BY ContentsAreEntries, MaxEntriesAssumption
<1>2. /\ \A i \in 0..n : B(i) \in Nat
      /\ \A i \in 0..n, l \in 0..n : i <= l => B(i) <= B(l)
  BY PrefixGrows
<1>3. k \in 0..n /\ k - 1 \in 0..n /\ n \in 0..n
  BY <1>1
<1>4. B(k) <= B(n) /\ B(k) \in Nat /\ B(n) \in Nat
  BY <1>2, <1>3
<1>5. ~(pos >= B(n))
  BY <1>4
<1>6. PICK q \in 1..n : /\ B(q - 1) <= pos /\ pos < B(q)
                        /\ found = [ind |-> PointerCast(b.out_offs + q - 1),
                                    offset |-> pos - B(q - 1)]
  BY <1>5, FindEntryFinds DEF FoundAt
<1>7. q = k
  <2>1. q \in 0..n /\ q - 1 \in 0..n
    BY <1>1
  <2>2. B(q) \in Nat /\ B(q - 1) \in Nat /\ B(k - 1) \in Nat
    BY <1>2, <1>3, <2>1
  <2>3. CASE q < k
    <3>1. q <= k - 1
      BY <2>3, <1>1
    <3>2. B(q) <= B(k - 1)
      BY <1>2, <1>3, <2>1, <3>1
    <3> HIDE DEF B
    <3> QED BY <1>6, <2>2, <3>2 DEF B
  <2>4. CASE k < q
    <3>1. k <= q - 1
      BY <2>4, <1>1
    <3>2. B(k) <= B(q - 1)
      BY <1>2, <1>3, <2>1, <3>1
    <3> QED BY <1>4, <1>6, <2>2, <3>2
  <2> QED BY <1>1, <2>3, <2>4
<1> QED BY <1>6, <1>7

\* The loop of aesd_circular_buffer_jmp_entry_offset.
IsSum(b, ind, f) ==
  f = [i \in Nat |-> IF i >= UpperBoundary(b) \/ i = ind THEN 0
                     ELSE b.entry[PointerCast(i)].size + f[i + 1]]

LEMMA SumExists ==
  ASSUME NEW b, WellFormed(b), NEW ind
  PROVE  \E f \in [Nat -> Nat] : IsSum(b, ind, f)
<1> DEFINE F == [i \in Nat |-> [v \in Nat |-> IF i = ind THEN 0 ELSE BlockLen(b, i) + v]]
           m == UpperBoundary(b)
<1>1. m \in Nat
  BY BoundaryIsEnd, MaxEntriesAssumption
<1>2. \A i \in Nat, v \in Nat : (IF i = ind THEN 0 ELSE BlockLen(b, i) + v) \in Nat
  BY BlockLens
<1>3. F \in [Nat -> [Nat -> Nat]]
  BY <1>2
<1>4. \A i \in Nat, v \in Nat : F[i][v] = IF i = ind THEN 0 ELSE BlockLen(b, i) + v
  OBVIOUS
<1> HIDE DEF F, m
<1>5. PICK f : Loop(f, m, Nat, 0, F)
  BY <1>1, <1>3, LoopExists
<1>6. f \in [Nat -> Nat] /\ \A i \in Nat : f[i] = IF i >= m THEN 0 ELSE F[i][f[i + 1]]
  BY <1>5 DEF Loop
<1>7. ASSUME NEW i \in Nat
      PROVE  f[i] = IF i >= m \/ i = ind THEN 0 ELSE BlockLen(b, i) + f[i + 1]
  <2>1. f[i + 1] \in Nat
    BY <1>6
  <2> QED BY <1>4, <1>6, <2>1
<1>8. f = [i \in Nat |-> f[i]]
  BY <1>6
<1>9. IsSum(b, ind, f)
  BY <1>7, <1>8 DEF IsSum, BlockLen, m
<1> QED BY <1>6, <1>9


\* The sum that loop ends with, started at the oldest entry.
Sum(b, ind) == (CHOOSE f : IsSum(b, ind, f))[b.out_offs]

LEMMA SumFromOldest ==
  ASSUME NEW b, WellFormed(b), NEW ind
  PROVE  /\ Sum(b, ind) \in Nat
         /\ \A n \in 0..Count(b) :
              n < Count(b) /\ ind = b.out_offs + n => Sum(b, ind) = PrefixSize(b, n)
<1> DEFINE f == CHOOSE g : IsSum(b, ind, g)
           c == Count(b)
           o == b.out_offs
           m == UpperBoundary(b)
           L(i) == BlockLen(b, i)
           B(k) == PrefixSize(b, k)
<1> USE MaxEntriesAssumption
<1>1. IsSum(b, ind, f)
  BY SumExists
<1>2. Sum(b, ind) = f[o]
  BY DEF Sum
<1> HIDE DEF f
<1>3. c \in Nat /\ o \in Nat /\ m = o + c
  BY BoundaryIsEnd DEF Slots
<1>4. \A i \in Nat : f[i] = IF i >= m \/ i = ind THEN 0 ELSE L(i) + f[i + 1]
  BY <1>1 DEF IsSum, BlockLen
<1>5. /\ B(0) = 0
      /\ \A k \in 0..(c - 1) : L(o + k) \in Nat /\ B(k + 1) = B(k) + L(o + k)
  <2>1. B(0) = 0 /\ \A k \in 1..c : B(k) = B(k - 1) + Contents(b)[k].size
    BY PrefixSizes
  <2>2. ASSUME NEW k \in 0..(c - 1) PROVE L(o + k) \in Nat /\ B(k + 1) = B(k) + L(o + k)
    <3>1. k + 1 \in 1..c /\ (k + 1) - 1 = k /\ o + (k + 1) - 1 = o + k /\ o + k \in Nat
      BY <1>3
    <3>2. L(o + (k + 1) - 1) = Contents(b)[k + 1].size /\ L(o + k) \in Nat
      BY <3>1, BlockLens
    <3> QED BY <2>1, <3>1, <3>2
  <2> QED BY <2>1, <2>2
<1>6. \A k \in 0..c : B(k) \in Nat
  BY PrefixGrows
<1>7. \A i \in Nat : L(i) \in Nat
  BY BlockLens
<1> HIDE DEF L, B, c, o, m
<1>8. f[o] \in Nat
  <2> DEFINE P == {j \in Nat : j <= m => f[m - j] \in Nat}
  <2>1. 0 \in P
    BY <1>3, <1>4
  <2>2. ASSUME NEW j \in Nat, j \in P PROVE j + 1 \in P
    <3> SUFFICES ASSUME j + 1 <= m PROVE f[m - (j + 1)] \in Nat
      OBVIOUS
    <3> DEFINE i == m - (j + 1)
    <3>1. i \in Nat /\ i + 1 = m - j /\ j <= m
      BY <1>3
    <3>2. f[i + 1] \in Nat
      BY <2>2, <3>1
    <3> HIDE DEF i
    <3>3. f[i] \in Nat
      BY <1>4, <1>7, <3>1, <3>2
    <3> QED BY <3>3 DEF i
  <2> HIDE DEF P
  <2>3. m - o \in Nat /\ m - o <= m /\ m - (m - o) = o
    BY <1>3
  <2>4. m - o \in P
    BY <2>1, <2>2, <2>3, InductionSet
  <2> QED BY <2>3, <2>4 DEF P
<1>9. ASSUME NEW n \in 0..c, n < c, ind = o + n PROVE f[o] = B(n)
  <2> DEFINE P == {j \in Nat : j <= n => f[o + (n - j)] = B(n) - B(n - j)}
  <2>1. 0 \in P
    <3>1. n - 0 = n /\ o + n \in Nat /\ B(n) \in Nat
      BY <1>3, <1>6
    <3>2. f[o + n] = 0 /\ B(n) - B(n) = 0
      BY <1>4, <1>9, <3>1
    <3> QED BY <3>1, <3>2
  <2>2. ASSUME NEW j \in Nat, j \in P PROVE j + 1 \in P
    <3> SUFFICES ASSUME j + 1 <= n PROVE f[o + (n - (j + 1))] = B(n) - B(n - (j + 1))
      OBVIOUS
    <3> DEFINE k == n - (j + 1)
               i == o + k
    <3>1. /\ k \in 0..(c - 1) /\ k \in 0..c /\ k + 1 \in 0..c /\ n \in 0..c
          /\ n - j = k + 1 /\ o + (n - j) = i + 1 /\ j <= n
          /\ i \in Nat /\ ~(i >= m) /\ i # ind
      BY <1>3, <1>9
    <3>2. f[i + 1] = B(n) - B(k + 1)
      BY <2>2, <3>1
    <3> HIDE DEF k
    <3>3. f[i] = L(i) + f[i + 1]
      BY <1>4, <3>1
    <3>4. L(i) \in Nat /\ B(k + 1) = B(k) + L(i)
      BY <1>5, <3>1
    <3>5. B(n) \in Nat /\ B(k) \in Nat
      BY <1>6, <3>1
    <3>6. f[i] = B(n) - B(k)
      BY <3>2, <3>3, <3>4, <3>5
    <3> QED BY <3>6 DEF k
  <2> HIDE DEF P
  <2>3. n \in P
    BY <1>3, <2>1, <2>2, InductionSet
  <2>4. n \in Nat /\ n - n = 0 /\ o + 0 = o /\ B(n) \in Nat
    BY <1>3, <1>6
  <2>5. f[o + (n - n)] = B(n) - B(n - n)
    BY <2>3, <2>4 DEF P
  <2>6. f[o] = B(n) - 0
    BY <1>5, <2>4, <2>5
  <2> QED BY <2>4, <2>6
<1> QED BY <1>2, <1>8, <1>9 DEF c, o, B

\* aesd_circular_buffer_jmp_entry_offset in terms of that sum.
LEMMA JumpIsSum ==
  ASSUME NEW b, NEW entrynum, NEW offset
  PROVE  LET ind == PointerCast(b.out_offs + entrynum)
         IN  JmpEntryOffset(b, entrynum, offset) =
               IF \/ entrynum >= MaxEntries
                  \/ b.entry[ind].buffptr = NULL
                  \/ b.entry[ind].size = 0
                  \/ offset >= b.entry[ind].size
               THEN EINVAL
               ELSE Sum(b, ind) + offset
BY DEF JmpEntryOffset, Sum, IsSum

\* What it returns is a position or -EINVAL.
LEMMA JumpIsPosition ==
  ASSUME NEW b, WellFormed(b), NEW entrynum, NEW offset \in Nat
  PROVE  JmpEntryOffset(b, entrynum, offset) \in Nat \cup {EINVAL}
<1> DEFINE ind == PointerCast(b.out_offs + entrynum)
<1>1. Sum(b, ind) + offset \in Nat
  <2>1. Sum(b, ind) \in Nat
    BY SumFromOldest
  <2> HIDE DEF ind
  <2> QED BY <2>1
<1>2. \/ JmpEntryOffset(b, entrynum, offset) = EINVAL
      \/ JmpEntryOffset(b, entrynum, offset) = Sum(b, ind) + offset
  BY JumpIsSum
<1> QED BY <1>1, <1>2

(***************************************************************************)
(* A seek to an entry that lies before the end of the array: the position  *)
(* is that of the byte, and what is not there is refused.                  *)
(***************************************************************************)
LEMMA JumpLands ==
  ASSUME NEW b, WellFormed(b), NEW n \in Slots, NEW off \in Nat,
         b.out_offs + n < MaxEntries
  PROVE  LET pos == JmpEntryOffset(b, n, off)
         IN  IF n < Count(b) /\ off < Contents(b)[n + 1].size
             THEN /\ pos >= 0 /\ pos = PrefixSize(b, n) + off
                  /\ FindEntry(b, pos) = [ind |-> PointerCast(b.out_offs + n), offset |-> off]
             ELSE pos = EINVAL
<1> DEFINE c == Count(b)
           o == b.out_offs
           ind == PointerCast(o + n)
           pos == JmpEntryOffset(b, n, off)
           B(k) == PrefixSize(b, k)
<1> USE MaxEntriesAssumption
<1>1. /\ b.in_offs \in Slots /\ o \in Slots /\ c \in 0..MaxEntries
      /\ b.entry \in [Slots -> Entry \cup {NoEntry}]
  BY BoundaryIsEnd DEF WellFormed, BufferType
<1>2. ind = o + n /\ ind \in Slots /\ o + n \in Nat
  <2>0. o \in Slots /\ o + n < MaxEntries
    BY <1>1
  <2> HIDE DEF o
  <2>1. o + n \in 0..(2 * MaxEntries - 1) /\ o + n < MaxEntries
    BY <2>0 DEF Slots
  <2> QED BY <2>1, PointerCastProperty
<1>3. pos = IF \/ n >= MaxEntries
               \/ b.entry[ind].buffptr = NULL
               \/ b.entry[ind].size = 0
               \/ off >= b.entry[ind].size
            THEN EINVAL ELSE Sum(b, ind) + off
  BY JumpIsSum
<1>4. CASE ~(n < c)
  <2>1. ~b.full
    BY <1>4 DEF Count, Slots
  <2>2. o = 0 /\ c = b.in_offs /\ (b.entry[n] \in Entry <=> n < b.in_offs)
    BY <2>1 DEF WellFormed, Count
  <2>3. ind = n
    BY <1>1, <1>2, <2>2 DEF Slots
  <2>4. b.entry[ind] = NoEntry
    BY <1>1, <1>4, <2>2, <2>3
  <2>5. b.entry[ind].buffptr = NULL
    BY <2>4 DEF NoEntry
  <2>6. pos = EINVAL
    BY <1>3, <2>5
  <2> QED BY <1>4, <2>6
<1>5. CASE n < c
  <2>1. n + 1 \in 1..c /\ o + (n + 1) - 1 = o + n /\ n \in 0..c /\ (n + 1) - 1 = n
    BY <1>1, <1>5 DEF Slots
  <2>2. Contents(b)[n + 1] = b.entry[ind]
    BY <2>1 DEF Contents
  <2>3. Contents(b)[n + 1] \in Entry
    BY <2>1, ContentsAreEntries, ElementOfSeq
  <2>4. b.entry[ind].size \in Nat \ {0} /\ b.entry[ind].buffptr # NULL
    BY <2>2, <2>3, NULLAssumption DEF Entry
  <2>5. CASE off >= b.entry[ind].size
    BY <1>3, <2>2, <2>4, <2>5
  <2>6. CASE ~(off >= b.entry[ind].size)
    <3>1. pos = Sum(b, ind) + off
      BY <1>3, <2>4, <2>6 DEF Slots
    <3>2. Sum(b, ind) = B(n)
      BY <1>2, <1>5, <2>1, SumFromOldest
    <3>3. B(n + 1) = B((n + 1) - 1) + Contents(b)[n + 1].size
      BY <2>1, PrefixSizes
    <3>4. B(n) \in Nat
      BY <2>1, PrefixGrows
    <3> HIDE DEF B, pos
    <3>5. /\ pos \in Nat /\ B((n + 1) - 1) <= pos /\ pos < B(n + 1)
          /\ pos - B((n + 1) - 1) = off
      BY <2>1, <2>2, <2>4, <2>6, <3>1, <3>2, <3>3, <3>4
    <3>6. FindEntry(b, pos) = [ind |-> PointerCast(o + (n + 1) - 1),
                               offset |-> pos - B((n + 1) - 1)]
      BY <2>1, <3>5, FoundInEntry DEF B
    <3>7. FindEntry(b, pos) = [ind |-> PointerCast(o + n), offset |-> off]
      BY <2>1, <3>5, <3>6
    <3>8. pos >= 0 /\ off < Contents(b)[n + 1].size
      BY <2>2, <2>4, <2>6, <3>5
    <3>9. pos = B(n) + off
      BY <3>1, <3>2
    <3> QED BY <1>5, <3>7, <3>8, <3>9 DEF pos, B
  <2> QED BY <2>5, <2>6
<1> QED BY <1>4, <1>5

(***************************************************************************)
(* Every seek that does not pass the end of the array lands in the entry   *)
(* it names.  (The others do not: run seek_wrapped.)                       *)
(***************************************************************************)
THEOREM RingSeekLands == CBSpec => []SeekLandsBeforeWrap
<1>1. BufferWellFormed => SeekLandsBeforeWrap
  <2> SUFFICES ASSUME BufferWellFormed, NEW n \in Slots, NEW off \in 0..MaxSize,
                      buffer.out_offs + n < MaxEntries
               PROVE  SeekLands(n, off)
    BY DEF SeekLandsBeforeWrap
  <2>1. off \in Nat
    BY MaxSizeAssumption
  <2> QED BY <2>1, JumpLands DEF BufferWellFormed, SeekLands
<1> QED BY <1>1, RingWellFormed, PTL


\* The entry and the byte in it that hold position pos: those of the k-th entry.
LocatedIn(b, pos, k) ==
  LET found == FindEntry(b, pos)
  IN  /\ b.entry[found.ind] = Contents(b)[k]
      /\ found.offset = pos - PrefixSize(b, k - 1)
      /\ found.offset \in Nat
      /\ Contents(b)[k].size \in Nat /\ found.offset < Contents(b)[k].size
      /\ PrefixSize(b, k - 1) \in Nat

\* What aesd_circular_buffer_find_entry_offset_for_fpos finds is such a byte.
LEMMA FoundIsLocated ==
  ASSUME NEW b, WellFormed(b), NEW pos \in Nat, FindEntry(b, pos) # NULL
  PROVE  \E k \in 1..Count(b) : LocatedIn(b, pos, k)
<1> DEFINE n == Count(b)
           B(k) == PrefixSize(b, k)
           found == FindEntry(b, pos)
<1>1. ~(pos >= B(n))
  BY FindEntryFinds DEF FoundAt
<1>2. PICK k \in 1..n : /\ B(k - 1) <= pos /\ pos < B(k)
                        /\ found = [ind |-> PointerCast(b.out_offs + k - 1),
                                    offset |-> pos - B(k - 1)]
  BY <1>1, FindEntryFinds DEF FoundAt
<1>3. n \in Nat
  BY ContentsAreEntries, MaxEntriesAssumption
<1>4. k - 1 \in 0..n
  BY <1>3
<1>5. /\ B(k) = B(k - 1) + Contents(b)[k].size
      /\ B(k - 1) \in Nat /\ Contents(b)[k].size \in Nat
  BY <1>4, PrefixSizes, PrefixGrows
<1> HIDE DEF found, B
<1>6. found.ind = PointerCast(b.out_offs + k - 1) /\ found.offset = pos - B(k - 1)
  BY <1>2
<1>7. b.entry[found.ind] = Contents(b)[k]
  BY <1>6 DEF Contents
<1>8. found.offset \in Nat /\ found.offset < Contents(b)[k].size
  BY <1>2, <1>5, <1>6
<1>9. LocatedIn(b, pos, k)
  BY <1>5, <1>6, <1>7, <1>8 DEF LocatedIn, found, B
<1> QED BY <1>9
=============================================================================
