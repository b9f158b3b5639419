------------------------------ MODULE MCLinks -------------------------------
(* Links with the program's sync bytes and checksum, and short frames.     *)
EXTENDS Links, Crc8

(* BRAKE, and LQR with a payload that looks like a first sync byte. *)
MCFrames == {[type |-> 17, pay |-> <<>>], [type |-> 32, pay |-> <<170>>]}

ASSUME StartAssumption == NoStartInTail
=============================================================================
