----------------------------- MODULE CmdTimeout -----------------------------
(***************************************************************************)
(* Command ownership and its expiry in time.  The main loop of app_main    *)
(* samples the millisecond clock once per iteration into "now", polls the  *)
(* RC receiver, and runs cmd_arbiter_tick(now).  Meanwhile the clock goes  *)
(* on, and the receive interrupts of the console and of the AI link inject *)
(* commands between any two steps of the loop, stamped with the clock and  *)
(* not with now.                                                           *)
(*                                                                         *)
(* A handler that runs in an interrupt is one step.  cmd_arbiter_tick runs *)
(* in the loop: its test is one step and each of its stores another.  The  *)
(* balance period, which only reads the motion, is left out here and       *)
(* modelled in AppLoop.                                                    *)
(***************************************************************************)
EXTENDS CmdSources

CONSTANT MaxLag     \* the clock advances at most MaxLag between two samples

ASSUME LagAssumption ==
  /\ MaxLag \in Nat \ {0}
  /\ ClockMod > AiTimeout + 2 * MaxLag + 1
  /\ ClockMod > RcTimeout + 2 * MaxLag + 1

VARIABLES
  clock,            \* time_ms_get()
  now,              \* app_main's local copy of it
  pc,               \* where the main loop is
  quiet,            \* ghost: ticks since a source's last admitted motion command
  torn              \* ghost: a command was stored during the last expiry

loop == <<clock, now, pc>>
vars == <<arbiter, loop, quiet, torn>>

Timeout == [AI |-> AiTimeout, RC |-> RcTimeout]

(* The longest a remote source can be silent and still own the motion. *)
Lease(src) == Timeout[src] + 2 * MaxLag

(* The ghost clock of silence stops just past the lease. *)
QuietCap(src) == Lease(src) + 1

TypeOK ==
  /\ ArbiterTypeOK
  /\ clock \in Ticks
  /\ now \in Ticks
  /\ pc \in {"top", "poll", "tick"} \cup Expiring
  /\ quiet \in [Remote -> Nat]
  /\ \A src \in Remote : quiet[src] <= QuietCap(src)
  /\ torn \in BOOLEAN

(* The state in which app_main enters its loop: the boot command has been  *)
(* injected as the Console, and no frame has been seen.                    *)
Init ==
  /\ s_motion = [ref |-> Zero, brake |-> FALSE, lqr_enable |-> BalanceOnBoot,
                 estop |-> FALSE, clear_fault |-> FALSE, source |-> "CONSOLE"]
  /\ s_ai_en = TRUE
  /\ s_rc_en = FALSE
  /\ s_ai_stamp = 0
  /\ s_rc_stamp = 0
  /\ clock = 0
  /\ now = 0
  /\ pc = "top"
  /\ quiet = [src \in Remote |-> QuietCap(src)]
  /\ torn = FALSE

-----------------------------------------------------------------------------
(* The clock interrupt.  The loop keeps up with it to within MaxLag. *)
ClockTick ==
  /\ Age(clock, now) < MaxLag
  /\ clock' = (clock + 1) % ClockMod
  /\ quiet' = [src \in Remote |->
                IF quiet[src] < QuietCap(src) THEN quiet[src] + 1 ELSE quiet[src]]
  /\ UNCHANGED <<arbiter, now, pc, torn>>

(* Inject cmd, and note it in the ghosts. *)
Inject(cmd) ==
  /\ cmd_arbiter_inject_motion(cmd)
  /\ quiet' = [src \in Remote |->
                IF src = cmd.source /\ Admitted(cmd) THEN 0 ELSE quiet[src]]
  /\ torn' = IF cmd.estop \/ Admitted(cmd) THEN pc \in Expiring ELSE torn

(* A console line that moves, brakes, stops or clears. *)
ConsoleLine ==
  /\ \E cmd \in ConsoleDrives(clock)
                  \cup {ConsoleLqr(on, clock) : on \in BOOLEAN}
                  \cup {ConsoleMotion(Zero, TRUE, clock),
                        ConsoleEstop(clock), ConsoleClear(clock)} : Inject(cmd)
  /\ UNCHANGED loop

(* The console lines "ai on|off" and "rc on|off". *)
ConsoleEnable ==
  /\ \E en \in BOOLEAN : \/ cmd_arbiter_set_ai_enabled(en)
                         \/ cmd_arbiter_set_rc_enabled(en)
  /\ UNCHANGED <<loop, quiet, torn>>

(* A frame with a valid checksum has come in: handle_frame. *)
AiFrame ==
  /\ \E cmd \in AiCommands(s_motion, clock) : Inject(cmd)
  /\ UNCHANGED loop

-----------------------------------------------------------------------------
(* const uint32_t now = time_ms_get(); *)
LoopTop ==
  /\ pc = "top"
  /\ pc' = "poll"
  /\ now' = clock
  /\ UNCHANGED <<arbiter, clock, quiet, torn>>

(* rc_link_poll, with a command parsed or without. *)
RcPoll ==
  /\ pc = "poll"
  /\ pc' = "tick"
  /\ \/ \E ref \in Refs : Inject(RcMotion(ref, clock))
     \/ UNCHANGED <<arbiter, quiet, torn>>
  /\ UNCHANGED <<clock, now>>

(* cmd_arbiter_tick: the tests. *)
TickKeep ==
  /\ pc = "tick"
  /\ ~Expired(now)
  /\ pc' = "top"
  /\ UNCHANGED <<arbiter, clock, now, quiet, torn>>

TickExpire ==
  /\ pc = "tick"
  /\ Expired(now)
  /\ pc' = "zero"
  /\ torn' = FALSE
  /\ UNCHANGED <<arbiter, clock, now, quiet>>

(* cmd_arbiter_tick: the stores, in program order. *)
TickZero ==
  /\ pc = "zero"
  /\ pc' = "brake"
  /\ ZeroMotion
  /\ UNCHANGED <<enables, stamps, clock, now, quiet, torn>>

TickBrake ==
  /\ pc = "brake"
  /\ pc' = "release"
  /\ BrakeMotion
  /\ UNCHANGED <<enables, stamps, clock, now, quiet, torn>>

TickRelease ==
  /\ pc = "release"
  /\ pc' = "top"
  /\ ReleaseMotion
  /\ UNCHANGED <<enables, stamps, clock, now, quiet, torn>>

-----------------------------------------------------------------------------
Loop == LoopTop \/ RcPoll \/ TickKeep \/ TickExpire \/ TickZero \/ TickBrake \/ TickRelease

Interrupt == ClockTick \/ ConsoleLine \/ ConsoleEnable \/ AiFrame

Next == Loop \/ Interrupt

(* The main loop never blocks and the timer never stops. *)
Spec == Init /\ [][Next]_vars /\ WF_vars(Loop) /\ WF_vars(ClockTick)

-----------------------------------------------------------------------------
(***************************************************************************)
(* A motion that moves the robot on behalf of a remote source is backed by *)
(* a command of that source not older than its lease: the timeout, one     *)
(* loop iteration until it is noticed, and the age of "now" by then        *)
(* (cmd_arbiter_tick, docs/PROTOCOL.md "timeouts").                        *)
(***************************************************************************)
RemoteIsFresh ==
  \A src \in Remote :
    s_motion.source = src /\ s_motion.ref # Zero => quiet[src] <= Lease(src)

(***************************************************************************)
(* A motion nobody owns, which nothing will ever expire, holds the robot   *)
(* still, unless a command was stored while cmd_arbiter_tick was in the    *)
(* middle of taking the motion away.                                       *)
(***************************************************************************)
OwnerlessIsHeld == s_motion.source = "NONE" /\ ~torn => Held(s_motion)

(***************************************************************************)
(* An emergency stop in force commands no motion, keeps balancing off and  *)
(* never asks at the same time for the fault to be cleared, whatever is    *)
(* merged, re-injected by a heartbeat or expired around it.                *)
(***************************************************************************)
EstopIsStill ==
  s_motion.estop => /\ Held(s_motion)
                    /\ ~s_motion.lqr_enable
                    /\ ~s_motion.clear_fault

(***************************************************************************)
(* cmd_arbiter_tick takes a motion from the AI box only when the box has   *)
(* been silent for longer than the timeout, or when a command of the box   *)
(* came in after the loop had sampled the clock.  (An AI emergency stop is *)
(* stored without a stamp, and may lose its owner at any tick.)            *)
(***************************************************************************)
TimeoutOnlyLateOrRaced ==
  [][TickExpire /\ s_motion.source = "AI" /\ ~s_motion.estop
       => quiet["AI"] > AiTimeout \/ quiet["AI"] < Age(clock, now)]_vars

(***************************************************************************)
(* Motion commanded at the console never times out: the loop changes it    *)
(* only when the console spoke after the expiry of another source's motion *)
(* had begun.                                                              *)
(***************************************************************************)
ConsoleNeverExpires ==
  [][s_motion.source = "CONSOLE" /\ s_motion' # s_motion /\ Loop => torn]_vars

(***************************************************************************)
(* Once the AI box falls silent it loses the motion: either another        *)
(* command of its own is admitted, or it stops being the owner.            *)
(***************************************************************************)
SilenceIsNoticed ==
  s_motion.source = "AI" ~> (s_motion.source # "AI" \/ quiet["AI"] = 0)

(***************************************************************************)
(* The arbiter implements the ownership of the motion that docs/PROTOCOL.md *)
(* describes: the console, then the AI box, then the RC receiver; a silent *)
(* remote owner loses the motion to nobody, and leaves the robot held if   *)
(* no command came between the stores of cmd_arbiter_tick.                 *)
(***************************************************************************)
Owner ==
  INSTANCE MotionOwner
    WITH owner <- s_motion.source, robot <- Robot(s_motion), expiry <- Expiry(pc, torn)

IsMotionOwner == Owner!Spec

-----------------------------------------------------------------------------
(* What the documents say and the code does not do. *)

(***************************************************************************)
(* docs/PROTOCOL.md: AI motion is held after 300 ms without a frame, so it *)
(* is not held before.  The loop compares a stamp taken by an interrupt    *)
(* with an older sample of the clock, and the unsigned difference wraps.   *)
(***************************************************************************)
NoEarlyTimeout ==
  [][TickExpire /\ s_motion.source = "AI" /\ ~s_motion.estop
       => quiet["AI"] > AiTimeout]_vars

(***************************************************************************)
(* docs/PROTOCOL.md: when a remote source is timed out the robot is held.  *)
(* A frame between two stores of cmd_arbiter_tick leaves a motion that     *)
(* moves the robot and belongs to nobody.                                  *)
(***************************************************************************)
NoOrphanMotion == s_motion.source = "NONE" => s_motion.ref = Zero \/ s_motion.brake

(***************************************************************************)
(* docs/PROTOCOL.md: console motion lasts until the console brakes, and    *)
(* the AI box comes next in priority.  So after a console brake the AI box *)
(* may drive.  The arbiter never gives the console's ownership up; nor the *)
(* boot command's, which is injected as the console's.                     *)
(***************************************************************************)
AiMayDriveWhenConsoleBrakes ==
  s_ai_en /\ s_motion.source = "CONSOLE" /\ Held(s_motion) /\ ~s_motion.estop
    => \A ref \in Refs : Admitted(AiMotion(ref, clock))
=============================================================================
