---------------------------- MODULE MCCmdTimeout ----------------------------
(* CmdTimeout on a clock of a few ticks, small enough to wrap many times. *)
EXTENDS CmdTimeout

CONSTANT drive      \* a velocity other than zero

MCRefs == {Zero, drive}
=============================================================================
