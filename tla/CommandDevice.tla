---------------------------- MODULE CommandDevice ----------------------------
(***************************************************************************)
(* What /dev/aesdchar promises its users about writes.  Bytes are accepted *)
(* into an unfinished command; an accepted newline finishes the command,   *)
(* and finished commands form a history of bounded length.  No byte that   *)
(* was accepted is lost, changed or reordered until its command is the     *)
(* oldest of a full history, or the module is removed.  Who wrote a byte   *)
(* plays no part.                                                          *)
(***************************************************************************)
EXTENDS CommandHistory

CONSTANTS NL,     \* the newline character
          Chunks  \* what one write can add: newline at most at the end

VARIABLES partial,  \* the unfinished command
          loaded    \* whether there is a device

Finished(c) == c # << >> /\ c[Len(c)] = NL

Accept(c) ==
  /\ loaded /\ ~Finished(partial)
  /\ partial' = partial \o c
  /\ UNCHANGED <<history, loaded>>

Commit ==
  /\ loaded /\ Finished(partial)
  /\ history' = Push(history, partial)
  /\ partial' = << >>
  /\ UNCHANGED loaded

\* Only loading and unloading the module forget commands.
LoadOrUnload ==
  /\ loaded' = ~loaded
  /\ history' = << >> /\ partial' = << >>

DInit == ~loaded /\ history = << >> /\ partial = << >>

DNext == (\E c \in Chunks : Accept(c)) \/ Commit \/ LoadOrUnload

DSpec == DInit /\ [][DNext]_<<history, partial, loaded>>
=============================================================================
