----------------------------- MODULE CmdSources -----------------------------
(***************************************************************************)
(* The commands that reach the arbiter, one constructor per place in the   *)
(* code that fills in a motion_cmd_t: the console's lines (console.c), the *)
(* AI box's frames (ai_link.c) and the boot command of app_main.  The RC   *)
(* receiver is a placeholder in rc_link.c; its command is the one that     *)
(* file's comment announces and the arbiter is written for.                *)
(*                                                                         *)
(* The argument t is the value of time_ms_get() when the line or the frame *)
(* is handled.                                                             *)
(***************************************************************************)
EXTENDS CmdArbiter

(* memset(&m, 0), then the source and the time. *)
Blank(src, t) ==
  [ref |-> Zero, brake |-> FALSE, lqr_enable |-> FALSE, estop |-> FALSE,
   clear_fault |-> FALSE, source |-> src, lqr_valid |-> FALSE, stamp |-> t]

-----------------------------------------------------------------------------
(* console.c: inject_motion(vx, wz, brake, -1), which keeps lqr_enable. *)
ConsoleMotion(ref, brake, t) ==
  [Blank("CONSOLE", t) EXCEPT !.ref = ref, !.brake = brake]

(* console.c: inject_motion(0, 0, true, on), which sets lqr_enable. *)
ConsoleLqr(on, t) ==
  [Blank("CONSOLE", t) EXCEPT !.brake = TRUE, !.lqr_valid = TRUE, !.lqr_enable = on]

ConsoleEstop(t) == [Blank("CONSOLE", t) EXCEPT !.estop = TRUE]

ConsoleClear(t) == [Blank("CONSOLE", t) EXCEPT !.clear_fault = TRUE]

(* fwd, back, left, right and turn, with any argument. *)
ConsoleDrives(t) == {ConsoleMotion(ref, FALSE, t) : ref \in Refs}

-----------------------------------------------------------------------------
(* ai_link.c, handle_frame: one constructor per frame type. *)
AiMotion(ref, t) == [Blank("AI", t) EXCEPT !.ref = ref]

AiBrake(t) == [Blank("AI", t) EXCEPT !.brake = TRUE]

AiLqr(on, t) ==
  [Blank("AI", t) EXCEPT !.brake = TRUE, !.lqr_valid = TRUE, !.lqr_enable = on]

AiEstop(t) == [Blank("AI", t) EXCEPT !.estop = TRUE]

(* A heartbeat re-injects the motion in force as the AI box's own. *)
AiHeartbeat(m, t) ==
  [ref |-> m.ref, brake |-> m.brake, lqr_enable |-> m.lqr_enable,
   estop |-> m.estop, clear_fault |-> m.clear_fault,
   source |-> "AI", lqr_valid |-> FALSE, stamp |-> t]

(* Every command a frame can make; the frames without one have no effect. *)
AiCommands(m, t) ==
  {AiMotion(ref, t) : ref \in Refs}
    \cup {AiLqr(on, t) : on \in BOOLEAN}
    \cup {AiBrake(t), AiEstop(t), AiHeartbeat(m, t)}

-----------------------------------------------------------------------------
(* The RC receiver, reserved: a velocity, stamped when it is parsed. *)
RcMotion(ref, t) == [Blank("RC", t) EXCEPT !.ref = ref]

(* app_main injects this command as the Console before the loop starts. *)
BootCommand(t) ==
  [Blank("CONSOLE", t) EXCEPT !.lqr_valid = TRUE, !.lqr_enable = BalanceOnBoot]
=============================================================================
