--------------------------- MODULE CircularBuffer ---------------------------
(***************************************************************************)
(* aesd-char-driver/aesd-circular-buffer.[ch]: a ring of MaxEntries        *)
(* {buffptr, size} entries.  The functions take the structure as a         *)
(* parameter, as in C; the variable buffer is the one structure the driver *)
(* owns.  Locking is the caller's (module CharDriver).                     *)
(***************************************************************************)
EXTENDS Integers, Sequences

CONSTANTS MaxEntries, \* AESDCHAR_MAX_WRITE_OPERATIONS_SUPPORTED (10 in the code)
          Addrs,      \* the addresses an entry's buffptr can point to
          NULL,       \* the null pointer, and "no entry" / "no thread"
          MaxSize     \* bound: the longest entry added when the buffer runs alone

(***************************************************************************)
(* Indices and loop bounds are uint8_t.  in_offs + MaxEntries, the upper   *)
(* bound of the loops of a full buffer, must fit: 2 * MaxEntries - 1 <=    *)
(* 255.                                                                    *)
(***************************************************************************)
ASSUME MaxEntriesAssumption == MaxEntries \in 1..128
ASSUME NULLAssumption == NULL \notin Addrs /\ NULL \notin [ind : Nat, offset : Nat]
ASSUME MaxSizeAssumption == MaxSize \in Nat \ {0}

VARIABLE buffer

Slots == 0..(MaxEntries - 1)
Entry == [buffptr : Addrs, size : Nat \ {0}]
NoEntry == [buffptr |-> NULL, size |-> 0]   \* an entry after memset 0
EINVAL == -22

-----------------------------------------------------------------------------
(* The functions of aesd-circular-buffer.c *)

\* aesd_circular_buffer_init
EmptyBuffer ==
  [entry |-> [i \in Slots |-> NoEntry], in_offs |-> 0, out_offs |-> 0,
   full |-> FALSE, size |-> 0]

\* CB_POINTER_INC and CB_POINTER_CAST
PointerInc(p) == (p + 1) % MaxEntries
PointerCast(p) == p % MaxEntries

\* CB_LOOP_UPPER_BOUNDARY, assigned to a uint8_t
UpperBoundary(b) == (b.in_offs + (IF b.full THEN MaxEntries ELSE 0)) % 256

\* Mutant: the walk also steps over an entry that ends exactly at the offset.
FindEntryOffByOne(b, char_offset) ==
  LET walk[i \in Nat] == [off \in Nat |->
        IF i >= UpperBoundary(b) THEN NULL
        ELSE LET ind == PointerCast(i)
                 block_len == b.entry[ind].size
             IN  IF off <= block_len THEN [ind |-> ind, offset |-> off]
                 ELSE walk[i + 1][off - block_len]]
  IN  walk[b.out_offs][char_offset]

(***************************************************************************)
(* aesd_circular_buffer_find_entry_offset_for_fpos: the loop walks the     *)
(* entries from the oldest, subtracting each length it passes.             *)
(***************************************************************************)
FindEntry(b, char_offset) ==
  LET walk[i \in Nat] == [off \in Nat |->
        IF i >= UpperBoundary(b) THEN NULL
        ELSE LET ind == PointerCast(i)
                 block_len == b.entry[ind].size
             IN  IF off < block_len THEN [ind |-> ind, offset |-> off]
                 ELSE walk[i + 1][off - block_len]]
  IN  walk[b.out_offs][char_offset]

\* Mutant: the offset inside the entry is not bounded by the entry's size.
JmpEntryOffsetUnbounded(b, entrynum, offset) ==
  LET ind == PointerCast(b.out_offs + entrynum)
      pos[i \in Nat] == IF i >= UpperBoundary(b) \/ i = ind THEN 0
                        ELSE b.entry[PointerCast(i)].size + pos[i + 1]
  IN  IF \/ entrynum >= MaxEntries
         \/ b.entry[ind].buffptr = NULL
         \/ b.entry[ind].size = 0
      THEN EINVAL
      ELSE pos[b.out_offs] + offset

(***************************************************************************)
(* aesd_circular_buffer_jmp_entry_offset: pos[i] is what the loop adds up  *)
(* from i on.  The loop variable is not reduced modulo the length, while   *)
(* the index it is compared with is: an entry stored before out_offs is    *)
(* never met, and the loop runs to the boundary.                           *)
(***************************************************************************)
JmpEntryOffset(b, entrynum, offset) ==
  LET ind == PointerCast(b.out_offs + entrynum)
      pos[i \in Nat] == IF i >= UpperBoundary(b) \/ i = ind THEN 0
                        ELSE b.entry[PointerCast(i)].size + pos[i + 1]
  IN  IF \/ entrynum >= MaxEntries
         \/ b.entry[ind].buffptr = NULL
         \/ b.entry[ind].size = 0
         \/ offset >= b.entry[ind].size
      THEN EINVAL
      ELSE pos[b.out_offs] + offset

\* aesd_circular_buffer_add_entry: the pointer it returns for the caller to free
AddEntryOldBuf(b) == IF b.full THEN b.entry[b.in_offs].buffptr ELSE NULL

\* Mutant: overwriting the oldest entry does not advance out_offs.
AddEntryKeepsOut(b, add_entry) ==
  LET in_offs == PointerInc(b.in_offs)
  IN  [entry |-> [b.entry EXCEPT ![b.in_offs] = add_entry],
       in_offs |-> in_offs,
       out_offs |-> b.out_offs,
       full |-> in_offs = b.out_offs,
       size |-> b.size + (add_entry.size - b.entry[b.in_offs].size)]

\* Mutant: the overwritten entry still counts in the total size.
AddEntryKeepsSize(b, add_entry) ==
  LET in_offs == PointerInc(b.in_offs)
      out_offs == IF b.full THEN PointerInc(b.out_offs) ELSE b.out_offs
  IN  [entry |-> [b.entry EXCEPT ![b.in_offs] = add_entry],
       in_offs |-> in_offs,
       out_offs |-> out_offs,
       full |-> in_offs = out_offs,
       size |-> b.size + add_entry.size]

\* aesd_circular_buffer_add_entry: the structure it leaves behind
AddEntry(b, add_entry) ==
  LET in_offs == PointerInc(b.in_offs)
      out_offs == IF b.full THEN PointerInc(b.out_offs) ELSE b.out_offs
  IN  [entry |-> [b.entry EXCEPT ![b.in_offs] = add_entry],
       in_offs |-> in_offs,
       out_offs |-> out_offs,
       full |-> in_offs = out_offs,
       size |-> b.size + (add_entry.size - b.entry[b.in_offs].size)]

-----------------------------------------------------------------------------
(* The buffer on its own: a caller adds one entry after another. *)

CBInit == buffer = EmptyBuffer

Add(e) == buffer' = AddEntry(buffer, e)

Added == [buffptr : Addrs, size : 1..MaxSize]

CBNext == \E e \in Added : Add(e)

CBSpec == CBInit /\ [][CBNext]_buffer

-----------------------------------------------------------------------------
(* Properties *)

BufferType ==
  [entry : [Slots -> Entry \cup {NoEntry}], in_offs : Slots,
   out_offs : Slots, full : BOOLEAN, size : Int]

\* The entries in use, and the buffer read as a sequence, oldest entry first.
Count(b) == IF b.full THEN MaxEntries ELSE b.in_offs
Contents(b) == [k \in 1..Count(b) |-> b.entry[PointerCast(b.out_offs + k - 1)]]

\* The bytes in the k oldest entries.
PrefixSize(b, k) ==
  LET size[n \in 0..Count(b)] ==
        IF n = 0 THEN 0 ELSE size[n - 1] + Contents(b)[n].size
  IN  size[k]

(***************************************************************************)
(* Every state of the structure is well formed: until it is full the       *)
(* entries fill the slots from 0 and the rest is still zero; once it is    *)
(* full the two indices coincide and every slot is used.  The comments of  *)
(* struct aesd_circular_buffer state the roles of the three fields; the    *)
(* other functions rely on their agreement.                                *)
(***************************************************************************)
WellFormed(b) ==
  /\ b \in BufferType
  /\ IF b.full
     THEN /\ b.in_offs = b.out_offs
          /\ \A i \in Slots : b.entry[i] \in Entry
     ELSE /\ b.out_offs = 0
          /\ \A i \in Slots : b.entry[i] \in Entry <=> i < b.in_offs

BufferWellFormed == WellFormed(buffer)

(***************************************************************************)
(* The running total kept by aesd_circular_buffer_add_entry, which         *)
(* aesd_llseek takes for the size of the device, is the number of bytes    *)
(* really stored.                                                          *)
(***************************************************************************)
SizeIsTotal == buffer.size = PrefixSize(buffer, Count(buffer))

(***************************************************************************)
(* aesd_circular_buffer_find_entry_offset_for_fpos returns the entry and   *)
(* the byte in it at position char_offset "if all buffer strings were      *)
(* concatenated end to end", and NULL exactly when not enough was written. *)
(***************************************************************************)
FindIsConcatenation ==
  \A off \in 0..(MaxEntries * MaxSize) :
    LET found == FindEntry(buffer, off)
    IN  IF off >= PrefixSize(buffer, Count(buffer)) THEN found = NULL
        ELSE \E k \in 1..Count(buffer) :
               /\ PrefixSize(buffer, k - 1) <= off
               /\ off < PrefixSize(buffer, k)
               /\ found = [ind |-> PointerCast(buffer.out_offs + k - 1),
                           offset |-> off - PrefixSize(buffer, k - 1)]

\* Seeking to byte off of the n-th oldest entry and looking the position up
\* again gives that byte; a seek to a byte that is not there is refused.
SeekLands(n, off) ==
  LET pos == JmpEntryOffset(buffer, n, off)
  IN  IF n < Count(buffer) /\ off < Contents(buffer)[n + 1].size
      THEN /\ pos >= 0
           /\ FindEntry(buffer, pos) =
                [ind |-> PointerCast(buffer.out_offs + n), offset |-> off]
      ELSE pos = EINVAL

(***************************************************************************)
(* The entries aesd_circular_buffer_jmp_entry_offset reaches without       *)
(* passing the end of the array are found again at the position it         *)
(* computes, and offsets outside an entry are refused.                     *)
(***************************************************************************)
SeekLandsBeforeWrap ==
  \A n \in Slots, off \in 0..MaxSize :
    buffer.out_offs + n < MaxEntries => SeekLands(n, off)

(***************************************************************************)
(* The same of every entry: what aesd_ioctl.h says of AESDCHAR_IOCSEEKTO   *)
(* ("the zero referenced write command to seek into").  The code does not  *)
(* satisfy it once the buffer has wrapped.                                 *)
(***************************************************************************)
SeekLandsInCommand ==
  \A n \in 0..MaxEntries, off \in 0..MaxSize : SeekLands(n, off)

(***************************************************************************)
(* The ring implements a history of the MaxEntries most recent entries:    *)
(* "if the buffer was already full, overwrites the oldest entry".          *)
(***************************************************************************)
History == INSTANCE CommandHistory
             WITH Capacity <- MaxEntries, Items <- Added,
                  history <- Contents(buffer)
RingKeepsLatest == History!HSpec
=============================================================================
