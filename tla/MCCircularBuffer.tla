-------------------------- MODULE MCCircularBuffer --------------------------
(* The circular buffer on its own, for TLC. *)
EXTENDS CircularBuffer
=============================================================================
