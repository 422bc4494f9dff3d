---------------------------- MODULE MCCharDriver ----------------------------
(* The driver with two threads that share an open file, for TLC. *)
EXTENDS CharDriver, TLC

CONSTANTS a, nl

MCByte == {a, nl}

\* An unfinished command, and the end of one with a byte after it.
MCPayloads == {<<a>>, <<nl, a>>}

\* One byte back, which may be before the start.
MCLseeks == {[whence |-> "CUR", offset |-> -1]}

MCSeekTos == {[write_cmd |-> 0, write_cmd_offset |-> 1]}
=============================================================================
