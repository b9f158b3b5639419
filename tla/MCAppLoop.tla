----------------------------- MODULE MCAppLoop ------------------------------
(* AppLoop with one velocity, one fault bit and one or two direct commands. *)
EXTENDS AppLoop

CONSTANT drive      \* a velocity other than zero

MCRefs == {Zero, drive}

MCDirect == {
  [act |-> "mode", side |-> "L", mode |-> "SPEED", nonzero |-> FALSE],
  [act |-> "speed", side |-> "BOTH", mode |-> "DISABLED", nonzero |-> TRUE]}

MCSpeed == {[act |-> "speed", side |-> "BOTH", mode |-> "DISABLED", nonzero |-> TRUE]}
=============================================================================
