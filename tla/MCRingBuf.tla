------------------------------ MODULE MCRingBuf ------------------------------
(* RingBuf with three places, so that it holds two bytes of two values. *)
EXTENDS RingBuf

CONSTANTS a, b      \* byte values

MCBytes == {a, b}
=============================================================================
