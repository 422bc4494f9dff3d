------------------------------ MODULE MCServer ------------------------------
(* The server with two connections, for TLC. *)
EXTENDS Server, TLC

NoLeftover == {<< >>}
AnyLeftover == {<< >>, <<<<NULL, 0>>>>}

Symmetry == Permutations(Conns) \cup Permutations(Expiries)
=============================================================================
