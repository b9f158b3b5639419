----------------------------- MODULE DirectSlot -----------------------------
(***************************************************************************)
(* The one-place slot for direct wheel commands in cmd_arbiter.c: a        *)
(* console interrupt fills it, the balance loop empties it.                *)
(***************************************************************************)

CONSTANT DirectCmds     \* direct commands, [act, side, mode, nonzero]

VARIABLE s_direct       \* [active |-> ..., cmd |-> ...]

(* What an empty slot holds after memset. *)
NoDirect == [act |-> "none", side |-> "L", mode |-> "DISABLED", nonzero |-> FALSE]

DirectTypeOK == s_direct \in [active : BOOLEAN, cmd : DirectCmds \cup {NoDirect}]

DirectInit == s_direct = [active |-> FALSE, cmd |-> NoDirect]

(* cmd_arbiter_inject_direct: a command that is still waiting is lost. *)
cmd_arbiter_inject_direct(cmd) == s_direct' = [active |-> TRUE, cmd |-> cmd]

(* A slip: the command stays in the slot and is taken in every period. *)
KeepDirect == UNCHANGED s_direct

(* cmd_arbiter_get_direct, its last store; the caller has its copy by then. *)
(* What an inactive slot still holds is never used, and forgotten here.     *)
ReleaseDirect == s_direct' = [active |-> FALSE, cmd |-> NoDirect]
=============================================================================
