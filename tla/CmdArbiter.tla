----------------------------- MODULE CmdArbiter -----------------------------
(***************************************************************************)
(* The command arbiter, firmware/src/cmd/cmd_arbiter.c: the one motion     *)
(* command the robot follows, and the priority rule by which the Console,  *)
(* the AI box and the RC receiver take it from each other.                 *)
(*                                                                         *)
(* A velocity pair (vx_mps, wz_radps) is abstracted to a member of Refs,   *)
(* with Zero for (0, 0): the arbiter copies and clears it, and never looks *)
(* at its value.  The fields lqr_valid and stamp_ms of the stored command  *)
(* are written and never read, so s_motion does not carry them; those of   *)
(* an incoming command are read, so a Command does.                        *)
(*                                                                         *)
(* This module has the state and the operations only.  The modules that    *)
(* extend it say who calls them, and when.                                 *)
(***************************************************************************)
EXTENDS Integers

CONSTANTS
  Refs,             \* velocity references a command can carry
  Zero,             \* the reference vx = wz = 0
  ClockMod,         \* the millisecond clock is an unsigned integer below ClockMod
  AiTimeout,        \* APP_CFG_AI_TIMEOUT_MS, in clock ticks
  RcTimeout,        \* APP_CFG_RC_TIMEOUT_MS, in clock ticks
  BalanceOnBoot     \* APP_CFG_BALANCE_ON_BOOT

ASSUME ZeroAssumption == Zero \in Refs
ASSUME BootAssumption == BalanceOnBoot \in BOOLEAN
ASSUME ClockAssumption ==
  /\ ClockMod \in Nat \ {0}
  /\ AiTimeout \in 0 .. ClockMod - 1
  /\ RcTimeout \in 0 .. ClockMod - 1

VARIABLES
  s_motion,         \* the command the balance loop reads
  s_ai_en,          \* are AI frames admitted?
  s_rc_en,          \* are RC commands admitted?
  s_ai_stamp,       \* when the last AI command was merged
  s_rc_stamp        \* when the last RC command was merged

enables == <<s_ai_en, s_rc_en>>
stamps == <<s_ai_stamp, s_rc_stamp>>
arbiter == <<s_motion, s_ai_en, s_rc_en, s_ai_stamp, s_rc_stamp>>

Sources == {"NONE", "CONSOLE", "AI", "RC"}
Remote == {"AI", "RC"}
Ticks == 0 .. ClockMod - 1

Motion == [ref : Refs, brake : BOOLEAN, lqr_enable : BOOLEAN,
           estop : BOOLEAN, clear_fault : BOOLEAN, source : Sources]

Command == [ref : Refs, brake : BOOLEAN, lqr_enable : BOOLEAN,
            estop : BOOLEAN, clear_fault : BOOLEAN, source : Sources,
            lqr_valid : BOOLEAN, stamp : Ticks]

ArbiterTypeOK ==
  /\ s_motion \in Motion
  /\ s_ai_en \in BOOLEAN
  /\ s_rc_en \in BOOLEAN
  /\ s_ai_stamp \in Ticks
  /\ s_rc_stamp \in Ticks

-----------------------------------------------------------------------------
(* The file-scope initialisers, then cmd_arbiter_init. *)
cmd_arbiter_init ==
  /\ s_motion = [ref |-> Zero, brake |-> FALSE, lqr_enable |-> BalanceOnBoot,
                 estop |-> FALSE, clear_fault |-> FALSE, source |-> "NONE"]
  /\ s_ai_en = TRUE
  /\ s_rc_en = FALSE
  /\ s_ai_stamp = 0
  /\ s_rc_stamp = 0

(* A slip: the AI box above the console. *)
PrioSwapped == [CONSOLE |-> 2, AI |-> 3, RC |-> 1, NONE |-> 0]

prio == [CONSOLE |-> 3, AI |-> 2, RC |-> 1, NONE |-> 0]

(* The command passes the enable switch of its source. *)
Enabled(cmd) ==
  /\ cmd.source = "AI" => s_ai_en
  /\ cmd.source = "RC" => s_rc_en

(* The command's source may replace the source that owns motion m. *)
Outranks(cmd, m) ==
  \/ prio[cmd.source] >= prio[m.source]
  \/ cmd.source = "CONSOLE"

Admitted(cmd) == ~cmd.estop /\ Enabled(cmd) /\ Outranks(cmd, s_motion)

(* A slip: the command's own brake flag, which no estop sets. *)
StoppedUnbraked(cmd) ==
  [ref |-> Zero, brake |-> cmd.brake, lqr_enable |-> cmd.lqr_enable, estop |-> TRUE,
   clear_fault |-> cmd.clear_fault, source |-> cmd.source]

(* What an emergency stop stores: the whole command, braked and at zero. *)
Stopped(cmd) ==
  [ref |-> Zero, brake |-> TRUE, lqr_enable |-> cmd.lqr_enable, estop |-> TRUE,
   clear_fault |-> cmd.clear_fault, source |-> cmd.source]

(* What an admitted command stores, when lqr_enable was prev_lqr before. *)
Merged(cmd, prev_lqr) ==
  [ref |-> cmd.ref, brake |-> cmd.brake,
   lqr_enable |-> IF cmd.lqr_valid THEN cmd.lqr_enable ELSE prev_lqr,
   estop |-> cmd.estop, clear_fault |-> cmd.clear_fault, source |-> cmd.source]

(* A slip: the deadline is stored, and not reduced to the clock's width. *)
StampDeadlines(cmd) ==
  /\ s_ai_stamp' = IF cmd.source = "AI" THEN cmd.stamp + AiTimeout ELSE s_ai_stamp
  /\ s_rc_stamp' = IF cmd.source = "RC" THEN cmd.stamp + RcTimeout ELSE s_rc_stamp

StampSources(cmd) ==
  /\ s_ai_stamp' = IF cmd.source = "AI" THEN cmd.stamp ELSE s_ai_stamp
  /\ s_rc_stamp' = IF cmd.source = "RC" THEN cmd.stamp ELSE s_rc_stamp

cmd_arbiter_inject_motion(cmd) ==
  /\ UNCHANGED enables
  /\ \/ /\ cmd.estop
        /\ s_motion' = Stopped(cmd)
        /\ UNCHANGED stamps
     \/ /\ Admitted(cmd)
        /\ s_motion' = Merged(cmd, s_motion.lqr_enable)
        /\ StampSources(cmd)
     \/ /\ ~cmd.estop
        /\ ~Admitted(cmd)
        /\ UNCHANGED <<s_motion, stamps>>

cmd_arbiter_set_ai_enabled(en) ==
  /\ s_ai_en' = en
  /\ UNCHANGED <<s_motion, s_rc_en, stamps>>

cmd_arbiter_set_rc_enabled(en) ==
  /\ s_rc_en' = en
  /\ UNCHANGED <<s_motion, s_ai_en, stamps>>

-----------------------------------------------------------------------------
(* A slip: a signed difference, negative once the clock has wrapped. *)
AgeSigned(t, stamp) == t - stamp

(* now - stamp in unsigned arithmetic. *)
Age(t, stamp) == (t - stamp) % ClockMod

(* Slips: one tick early; without looking at the owner; only while enabled. *)
ExpiredEarly(t) ==
  \/ s_motion.source = "AI" /\ Age(t, s_ai_stamp) >= AiTimeout
  \/ s_motion.source = "RC" /\ Age(t, s_rc_stamp) >= RcTimeout

ExpiredAnyOwner(t) ==
  Age(t, s_ai_stamp) > AiTimeout \/ Age(t, s_rc_stamp) > RcTimeout

ExpiredWhileEnabled(t) ==
  \/ s_motion.source = "AI" /\ s_ai_en /\ Age(t, s_ai_stamp) > AiTimeout
  \/ s_motion.source = "RC" /\ s_rc_en /\ Age(t, s_rc_stamp) > RcTimeout

(* The test of cmd_arbiter_tick: a remote owner has been silent too long. *)
Expired(t) ==
  \/ s_motion.source = "AI" /\ Age(t, s_ai_stamp) > AiTimeout
  \/ s_motion.source = "RC" /\ Age(t, s_rc_stamp) > RcTimeout

(***************************************************************************)
(* What cmd_arbiter_tick then writes, store by store in program order: it  *)
(* runs in the main loop with interrupts enabled, so a command injected by *)
(* a receive interrupt can land between any two of them.                   *)
(***************************************************************************)
ZeroMotion == s_motion' = [s_motion EXCEPT !.ref = Zero]

(* A slip: the brake is forgotten. *)
NoBrake == UNCHANGED s_motion

BrakeMotion == s_motion' = [s_motion EXCEPT !.brake = TRUE]

(* A slip: an owner that prio does not know. *)
ReleaseToHold == s_motion' = [s_motion EXCEPT !.source = "HOLD"]

ReleaseMotion == s_motion' = [s_motion EXCEPT !.source = "NONE"]

(* The control points before each of the three. *)
Expiring == {"zero", "brake", "release"}

-----------------------------------------------------------------------------
(* Motion m, as the robot feels it: nothing moves and the brake is set. *)
Held(m) == m.ref = Zero /\ m.brake

Robot(m) == IF ~Held(m) THEN "free" ELSE IF m.estop THEN "stopped" ELSE "held"

(* cmd_arbiter_tick, now before step, and whether a command was stored since *)
(* it began to expire the motion.                                            *)
Expiry(step, interrupted) ==
  IF step \notin Expiring THEN "none" ELSE IF interrupted THEN "torn" ELSE "due"
=============================================================================
