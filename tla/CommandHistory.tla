--------------------------- MODULE CommandHistory ---------------------------
(***************************************************************************)
(* What the circular buffer of the char driver promises: it holds the      *)
(* Capacity most recent items it was given, oldest first.  The index       *)
(* arithmetic, the full flag and the slots are implementation.             *)
(***************************************************************************)
EXTENDS Naturals, Sequences

CONSTANTS Capacity, \* how many items are remembered
          Items     \* what may be remembered

VARIABLE history

\* h with item e added: the oldest item makes room when h is full.
Push(h, e) == IF Len(h) < Capacity THEN Append(h, e) ELSE Append(Tail(h), e)

HInit == history = << >>

HNext == \E e \in Items : history' = Push(history, e)

HSpec == HInit /\ [][HNext]_history
=============================================================================
