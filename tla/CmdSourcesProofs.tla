-------------------------- MODULE CmdSourcesProofs --------------------------
(***************************************************************************)
(* Lemmas about the commands and their injection that the theorems about   *)
(* CmdTimeout and about AppLoop both rest on.                              *)
(***************************************************************************)
EXTENDS CmdSources, TLAPS

(* Every constructor of console.c, ai_link.c and app_main fills in a command. *)
LEMMA CommandTypes ==
  ASSUME NEW t \in Ticks, NEW m \in Motion, NEW ref \in Refs, NEW b \in BOOLEAN
  PROVE  /\ ConsoleMotion(ref, b, t) \in Command
         /\ ConsoleLqr(b, t) \in Command
         /\ ConsoleEstop(t) \in Command
         /\ ConsoleClear(t) \in Command
         /\ AiMotion(ref, t) \in Command
         /\ AiBrake(t) \in Command
         /\ AiLqr(b, t) \in Command
         /\ AiEstop(t) \in Command
         /\ AiHeartbeat(m, t) \in Command
         /\ RcMotion(ref, t) \in Command
BY ZeroAssumption
DEF ConsoleMotion, ConsoleLqr, ConsoleEstop, ConsoleClear, AiMotion, AiBrake, AiLqr,
    AiEstop, AiHeartbeat, RcMotion, Blank, Command, Motion, Sources

(* Injecting a command, with any outcome, keeps the arbiter's types. *)
LEMMA InjectTypes ==
  ASSUME ArbiterTypeOK, NEW cmd \in Command, cmd_arbiter_inject_motion(cmd)
  PROVE  ArbiterTypeOK'
<1>1. CASE cmd.estop
  <2>1. s_motion' = Stopped(cmd) /\ UNCHANGED <<enables, stamps>>
    BY <1>1 DEF cmd_arbiter_inject_motion, Admitted
  <2>2. Stopped(cmd) \in Motion
    BY ZeroAssumption DEF Stopped, Command, Motion
  <2> QED
    BY <2>1, <2>2 DEF ArbiterTypeOK, enables, stamps
<1>2. CASE Admitted(cmd)
  BY <1>2
  DEF cmd_arbiter_inject_motion, Admitted, Merged, StampSources,
      ArbiterTypeOK, Command, Motion, enables, stamps
<1>3. CASE ~cmd.estop /\ ~Admitted(cmd)
  BY <1>3 DEF cmd_arbiter_inject_motion, ArbiterTypeOK, enables, stamps
<1> QED
  BY <1>1, <1>2, <1>3

-----------------------------------------------------------------------------
(* Whose the commands are. *)
LEMMA CommandSources ==
  ASSUME NEW t, NEW m
  PROVE  /\ \A cmd \in ConsoleDrives(t) \cup {ConsoleLqr(on, t) : on \in BOOLEAN}
                           \cup {ConsoleMotion(Zero, TRUE, t),
                                 ConsoleEstop(t), ConsoleClear(t), BootCommand(t)} :
              cmd.source = "CONSOLE"
         /\ \A cmd \in AiCommands(m, t) : cmd.source = "AI"
<1>1. \A ref, b : ConsoleMotion(ref, b, t).source = "CONSOLE"
                  /\ ConsoleLqr(b, t).source = "CONSOLE"
  BY DEF ConsoleMotion, ConsoleLqr, Blank
<1>2. /\ ConsoleEstop(t).source = "CONSOLE" /\ ConsoleClear(t).source = "CONSOLE"
      /\ BootCommand(t).source = "CONSOLE"
  BY DEF ConsoleEstop, ConsoleClear, BootCommand, Blank
<1>3. \A ref, b : AiMotion(ref, t).source = "AI" /\ AiLqr(b, t).source = "AI"
  BY DEF AiMotion, AiLqr, Blank
<1>4. /\ AiBrake(t).source = "AI" /\ AiEstop(t).source = "AI"
      /\ AiHeartbeat(m, t).source = "AI"
  BY DEF AiBrake, AiEstop, AiHeartbeat, Blank
<1>5. \A cmd \in AiCommands(m, t) : cmd.source = "AI"
  BY <1>3, <1>4 DEF AiCommands
<1> QED
  BY <1>1, <1>2, <1>5 DEF ConsoleDrives

(* What an injection means to the owner of the motion: nothing, an          *)
(* emergency stop, or a command of an equal or a superior.                  *)
LEMMA InjectOwner ==
  ASSUME s_motion \in Motion, NEW cmd \in Command, cmd.source # "NONE",
         cmd_arbiter_inject_motion(cmd)
  PROVE  \/ ~cmd.estop /\ ~Admitted(cmd) /\ s_motion' = s_motion
         \/ /\ cmd.estop /\ s_motion'.estop
            /\ s_motion'.source = cmd.source
            /\ Robot(s_motion') = "stopped"
         \/ /\ Admitted(cmd) /\ ~s_motion'.estop
            /\ s_motion'.source = cmd.source
            /\ Robot(s_motion') \in {"free", "held"}
            /\ s_motion.source = "CONSOLE" => cmd.source = "CONSOLE"
            /\ s_motion.source = "AI" => cmd.source # "RC"
<1>1. CASE cmd.estop
  <2>1. s_motion' = Stopped(cmd)
    BY <1>1 DEF cmd_arbiter_inject_motion, Admitted
  <2> QED
    BY <1>1, <2>1 DEF Stopped, Robot, Held
<1>2. CASE Admitted(cmd)
  <2>1. s_motion' = Merged(cmd, s_motion.lqr_enable) /\ ~cmd.estop
    BY <1>2 DEF cmd_arbiter_inject_motion, Admitted
  <2>2. /\ s_motion.source = "CONSOLE" => cmd.source = "CONSOLE"
        /\ s_motion.source = "AI" => cmd.source # "RC"
    BY <1>2 DEF Admitted, Outranks, prio, Motion, Command, Sources
  <2>3. Robot(s_motion') \in {"free", "held"} /\ ~s_motion'.estop
    BY <2>1 DEF Merged, Robot
  <2> QED
    BY <1>2, <2>1, <2>2, <2>3 DEF Merged
<1>3. CASE ~cmd.estop /\ ~Admitted(cmd)
  BY <1>3 DEF cmd_arbiter_inject_motion
<1> QED
  BY <1>1, <1>2, <1>3

(* The stores of cmd_arbiter_tick only bring the robot to rest; the last     *)
(* gives the motion to nobody as it is.                                      *)
LEMMA StoreOwner ==
  ASSUME s_motion \in Motion, s_motion.estop => Held(s_motion)
  PROVE  /\ ZeroMotion \/ BrakeMotion =>
              /\ s_motion'.source = s_motion.source
              /\ s_motion'.estop => Held(s_motion')
              /\ \/ Robot(s_motion') = Robot(s_motion)
                 \/ Robot(s_motion) = "free" /\ Robot(s_motion') = "held"
         /\ ZeroMotion => s_motion'.ref = Zero
         /\ BrakeMotion => s_motion'.ref = s_motion.ref /\ s_motion'.brake
         /\ ReleaseMotion =>
              /\ s_motion'.source = "NONE"
              /\ s_motion'.estop => Held(s_motion')
              /\ Robot(s_motion') = Robot(s_motion)
<1> USE DEF Motion, Held, Robot
<1>1. ASSUME ZeroMotion
      PROVE  /\ s_motion'.source = s_motion.source
             /\ s_motion'.estop => Held(s_motion')
             /\ \/ Robot(s_motion') = Robot(s_motion)
                \/ Robot(s_motion) = "free" /\ Robot(s_motion') = "held"
             /\ s_motion'.ref = Zero
  BY <1>1 DEF ZeroMotion
<1>2. ASSUME BrakeMotion
      PROVE  /\ s_motion'.source = s_motion.source
             /\ s_motion'.estop => Held(s_motion')
             /\ \/ Robot(s_motion') = Robot(s_motion)
                \/ Robot(s_motion) = "free" /\ Robot(s_motion') = "held"
             /\ s_motion'.ref = s_motion.ref /\ s_motion'.brake
  BY <1>2 DEF BrakeMotion
<1>3. ASSUME ReleaseMotion
      PROVE  /\ s_motion'.source = "NONE"
             /\ s_motion'.estop => Held(s_motion')
             /\ Robot(s_motion') = Robot(s_motion)
  BY <1>3 DEF ReleaseMotion
<1> QED
  BY <1>1, <1>2, <1>3
=============================================================================
