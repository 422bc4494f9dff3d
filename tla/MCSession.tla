----------------------------- MODULE MCSession ------------------------------
(* A connection with a block of four bytes and a ring of two slots, for TLC. *)
EXTENDS Session

CONSTANTS a, nl, nul, seek, sep

MCByte == {a, nl, nul, seek, sep} \cup 0..9
MCAddrs == Seq(MCByte)

\* Every string of one to three letters, ends of line and zeros, and seek
\* commands in the pieces a recv() may bring.
MCChunks ==
  UNION {[1..n -> {a, nl, nul}] : n \in 1..3} \cup
  {<<seek, 0>>, <<seek, 1, sep>>, <<seek, 2, 5, 6>>, <<seek, 6, 0, 1>>, <<a, seek, 1>>,
   <<seek, 0, sep, 5>>, <<1, 2, nl>>, <<1, 3, nl>>, <<5, sep, 0, nl>>,
   <<sep, 0, nl>>, <<sep, 1, nl>>, <<sep, nul, nl>>, <<1, nl>>, <<1, 0, nl, seek>>}

MCOtherLines == {<<a, a, nl>>}
=============================================================================
