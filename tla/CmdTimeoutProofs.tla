-------------------------- MODULE CmdTimeoutProofs --------------------------
(***************************************************************************)
(* Theorems about CmdTimeout, for every clock width, timeout, lag and set  *)
(* of references: type correctness, the two invariants that say what the   *)
(* arbiter holds still, that the console's motion never expires, and the   *)
(* bound on how long a silent remote source can go on driving.             *)
(***************************************************************************)
EXTENDS CmdTimeout, CmdSourcesProofs

(***************************************************************************)
(* While the stores of an expiry are under way and no command has been     *)
(* stored in between, the owner is still the one that expired, and the     *)
(* stores already done are still in force.                                 *)
(***************************************************************************)
ExpiryProgress ==
  /\ pc \in Expiring /\ ~torn => s_motion.source \in Remote
  /\ pc = "brake" /\ ~torn => s_motion.ref = Zero
  /\ pc = "release" /\ ~torn => Held(s_motion)

(* The inductive invariant. *)
IInv == TypeOK /\ EstopIsStill /\ OwnerlessIsHeld /\ ExpiryProgress

(***************************************************************************)
(* How old a remote owner's command can be.  The loop lags behind the      *)
(* clock by at most MaxLag.  Right after a tick that kept the owner its    *)
(* command was at most its timeout older than now; one iteration later     *)
(* that is MaxLag more.  An emergency stop carries no stamp.               *)
(***************************************************************************)
StampOf == [AI |-> s_ai_stamp, RC |-> s_rc_stamp]

Fresh(src) ==
  s_motion.source = src /\ ~s_motion.estop =>
    /\ quiet[src] = Age(clock, StampOf[src])
    /\ quiet[src] <= Timeout[src] + Age(clock, now) + (IF pc = "top" THEN 0 ELSE MaxLag)

FreshInv == Age(clock, now) <= MaxLag /\ \A src \in Remote : Fresh(src)

-----------------------------------------------------------------------------
(* A clock value is never negative and never reaches ClockMod. *)
LEMMA AgeInTicks ==
  ASSUME NEW t \in Int, NEW u \in Int
  PROVE  (t - u) % ClockMod \in Ticks /\ (t + u) % ClockMod \in Ticks
BY ClockAssumption DEF Ticks

(* The lengths the ghost clock is compared with are natural numbers. *)
LEMMA LeaseTypes ==
  \A src \in Remote : Timeout[src] \in Nat /\ Lease(src) \in Nat /\ QuietCap(src) \in Nat
BY ClockAssumption, LagAssumption DEF Remote, Timeout, Lease, QuietCap

(* What every sender sees to: a source of its own, the time of sending, and *)
(* an estop with no wishes.                                                 *)
Proper(cmd, t) ==
  /\ cmd.source # "NONE"
  /\ cmd.stamp = t
  /\ cmd.estop => ~cmd.lqr_enable /\ ~cmd.clear_fault

(* The commands of all three senders are proper; a heartbeat that re-sends *)
(* an emergency stop is because the stop in force is.                      *)
LEMMA CommandsProper ==
  ASSUME ArbiterTypeOK, EstopIsStill, NEW t \in Ticks
  PROVE  /\ \A cmd \in ConsoleDrives(t) \cup {ConsoleLqr(on, t) : on \in BOOLEAN}
                           \cup {ConsoleMotion(Zero, TRUE, t),
                                 ConsoleEstop(t), ConsoleClear(t)} :
              cmd \in Command /\ Proper(cmd, t)
         /\ \A cmd \in AiCommands(s_motion, t) : cmd \in Command /\ Proper(cmd, t)
         /\ \A ref \in Refs : RcMotion(ref, t) \in Command /\ Proper(RcMotion(ref, t), t)
<1>1. \A ref \in Refs, b \in BOOLEAN : Proper(ConsoleMotion(ref, b, t), t)
  BY DEF Proper, ConsoleMotion, Blank
<1>2. \A b \in BOOLEAN : Proper(ConsoleLqr(b, t), t) /\ Proper(AiLqr(b, t), t)
  BY DEF Proper, ConsoleLqr, AiLqr, Blank
<1>3. Proper(ConsoleEstop(t), t) /\ Proper(ConsoleClear(t), t)
  BY DEF Proper, ConsoleEstop, ConsoleClear, Blank
<1>4. Proper(AiBrake(t), t) /\ Proper(AiEstop(t), t)
  BY DEF Proper, AiBrake, AiEstop, Blank
<1>5. \A ref \in Refs : Proper(AiMotion(ref, t), t) /\ Proper(RcMotion(ref, t), t)
  BY DEF Proper, AiMotion, RcMotion, Blank
<1>6. Proper(AiHeartbeat(s_motion, t), t)
  BY DEF Proper, AiHeartbeat, EstopIsStill
<1>7. s_motion \in Motion
  BY DEF ArbiterTypeOK
<1>8. TRUE \in BOOLEAN /\ Zero \in Refs
  BY ZeroAssumption
<1>9. \A cmd \in ConsoleDrives(t) \cup {ConsoleLqr(on, t) : on \in BOOLEAN}
                  \cup {ConsoleMotion(Zero, TRUE, t), ConsoleEstop(t), ConsoleClear(t)} :
        cmd \in Command /\ Proper(cmd, t)
  BY <1>1, <1>2, <1>3, <1>7, <1>8, CommandTypes DEF ConsoleDrives
<1>10. \A cmd \in AiCommands(s_motion, t) : cmd \in Command /\ Proper(cmd, t)
  BY <1>2, <1>4, <1>5, <1>6, <1>7, <1>8, CommandTypes DEF AiCommands
<1>11. \A ref \in Refs : RcMotion(ref, t) \in Command /\ Proper(RcMotion(ref, t), t)
  BY <1>5, <1>7, <1>8, CommandTypes
<1> QED
  BY <1>9, <1>10, <1>11

(***************************************************************************)
(* Injecting a proper command keeps the arbiter's types and leaves an      *)
(* emergency stop still; it changes the motion only if it also takes it.   *)
(***************************************************************************)
LEMMA InjectMotion ==
  ASSUME ArbiterTypeOK, EstopIsStill, NEW cmd \in Command, Proper(cmd, clock),
         cmd_arbiter_inject_motion(cmd)
  PROVE  /\ ArbiterTypeOK'
         /\ EstopIsStill'
         /\ IF cmd.estop \/ Admitted(cmd) THEN s_motion'.source # "NONE"
                                          ELSE s_motion' = s_motion
<1>1. ArbiterTypeOK'
  BY InjectTypes
<1>2. CASE cmd.estop
  <2>1. s_motion' = Stopped(cmd)
    BY <1>2 DEF cmd_arbiter_inject_motion, Admitted
  <2>2. EstopIsStill'
    BY <1>2, <2>1 DEF Stopped, Proper, Held, EstopIsStill
  <2>3. s_motion'.source # "NONE"
    BY <2>1 DEF Stopped, Proper
  <2> QED
    BY <1>1, <1>2, <2>2, <2>3
<1>3. CASE Admitted(cmd)
  BY <1>1, <1>3
  DEF cmd_arbiter_inject_motion, Admitted, Merged, Proper, EstopIsStill
<1>4. CASE ~cmd.estop /\ ~Admitted(cmd)
  BY <1>1, <1>4 DEF cmd_arbiter_inject_motion, Held, EstopIsStill
<1> QED
  BY <1>2, <1>3, <1>4

(* Injection, with its ghosts, preserves the invariant at every control point. *)
LEMMA InjectStep ==
  ASSUME IInv, NEW cmd \in Command, Proper(cmd, clock), Inject(cmd),
         clock' = clock, now' = now,
         pc' = pc \/ (pc = "poll" /\ pc' = "tick")
  PROVE  IInv'
<1>1. /\ ArbiterTypeOK'
      /\ EstopIsStill'
      /\ IF cmd.estop \/ Admitted(cmd) THEN s_motion'.source # "NONE"
                                       ELSE s_motion' = s_motion
  BY InjectMotion DEF IInv, TypeOK, Inject
<1>2. quiet' \in [Remote -> Nat] /\ \A src \in Remote : quiet'[src] <= QuietCap(src)
  BY LeaseTypes DEF IInv, TypeOK, Inject
<1>3. torn' \in BOOLEAN
  <2>1. torn' = torn \/ torn' = (pc \in Expiring)
    BY DEF Inject
  <2>2. torn \in BOOLEAN /\ (pc \in Expiring) \in BOOLEAN
    BY DEF IInv, TypeOK
  <2> QED
    BY <2>1, <2>2, Zenon
<1>4. pc' \in {"top", "poll", "tick"} \cup Expiring
  BY DEF IInv, TypeOK
<1>5. TypeOK'
  BY <1>1, <1>2, <1>3, <1>4 DEF IInv, TypeOK
<1>6. OwnerlessIsHeld'
  BY <1>1 DEF IInv, OwnerlessIsHeld, Inject, Held
<1>7. ExpiryProgress'
  BY <1>1 DEF IInv, ExpiryProgress, Inject, Expiring, Held
<1> QED
  BY <1>1, <1>5, <1>6, <1>7 DEF IInv

-----------------------------------------------------------------------------
(* The invariant holds when app_main enters its loop. *)
LEMMA InitIInv == Init => IInv
<1> SUFFICES ASSUME Init PROVE IInv
  OBVIOUS
<1>0. 0 \in Ticks
  BY ClockAssumption DEF Ticks
<1>1. ArbiterTypeOK
  <2>1. s_motion \in Motion
    BY ZeroAssumption, BootAssumption DEF Init, Motion, Sources
  <2> QED
    BY <1>0, <2>1 DEF Init, ArbiterTypeOK
<1>2. TypeOK
  <2>1. quiet \in [Remote -> Nat] /\ \A src \in Remote : quiet[src] <= QuietCap(src)
    BY LeaseTypes DEF Init
  <2> QED
    BY <1>0, <1>1, <2>1 DEF Init, TypeOK
<1>3. EstopIsStill /\ OwnerlessIsHeld /\ ExpiryProgress
  BY DEF Init, EstopIsStill, OwnerlessIsHeld, ExpiryProgress, Expiring
<1> QED
  BY <1>2, <1>3 DEF IInv

(* Every step preserves it. *)
LEMMA NextIInv == IInv /\ [Next]_vars => IInv'
<1> SUFFICES ASSUME IInv, [Next]_vars PROVE IInv'
  OBVIOUS
<1>0. ArbiterTypeOK /\ EstopIsStill /\ clock \in Ticks /\ now \in Ticks
  BY DEF IInv, TypeOK
<1>1. CASE ClockTick
  <2>1. clock' \in Ticks
    BY <1>0, <1>1, AgeInTicks DEF ClockTick, Ticks
  <2>2. quiet' \in [Remote -> Nat] /\ \A src \in Remote : quiet'[src] <= QuietCap(src)
    BY <1>1, LeaseTypes DEF ClockTick, IInv, TypeOK
  <2>3. UNCHANGED <<s_motion, s_ai_en, s_rc_en, s_ai_stamp, s_rc_stamp, now, pc, torn>>
    BY <1>1 DEF ClockTick, arbiter
  <2>4. TypeOK'
    BY <2>1, <2>2, <2>3 DEF IInv, TypeOK, ArbiterTypeOK
  <2> QED
    BY <2>3, <2>4 DEF IInv, EstopIsStill, OwnerlessIsHeld, ExpiryProgress, Held
<1>2. CASE ConsoleLine
  BY <1>0, <1>2, CommandsProper, InjectStep DEF ConsoleLine, loop
<1>3. CASE AiFrame
  BY <1>0, <1>3, CommandsProper, InjectStep DEF AiFrame, loop
<1>4. CASE ConsoleEnable
  <2>1. UNCHANGED <<s_motion, s_ai_stamp, s_rc_stamp, clock, now, pc, quiet, torn>>
    BY <1>4 DEF ConsoleEnable, cmd_arbiter_set_ai_enabled, cmd_arbiter_set_rc_enabled,
                stamps, loop
  <2>2. s_ai_en' \in BOOLEAN /\ s_rc_en' \in BOOLEAN
    BY <1>0, <1>4 DEF ConsoleEnable, cmd_arbiter_set_ai_enabled,
                      cmd_arbiter_set_rc_enabled, ArbiterTypeOK
  <2> QED
    BY <2>1, <2>2 DEF IInv, TypeOK, ArbiterTypeOK, EstopIsStill, OwnerlessIsHeld,
                      ExpiryProgress, Held
<1>5. CASE LoopTop
  BY <1>5 DEF LoopTop, arbiter, IInv, TypeOK, ArbiterTypeOK, EstopIsStill,
              OwnerlessIsHeld, ExpiryProgress, Expiring, Held
<1>6. CASE RcPoll
  <2>1. CASE UNCHANGED <<arbiter, quiet, torn>>
    BY <1>6, <2>1 DEF RcPoll, arbiter, IInv, TypeOK, ArbiterTypeOK, EstopIsStill,
                      OwnerlessIsHeld, ExpiryProgress, Held, Expiring
  <2>2. CASE \E ref \in Refs : Inject(RcMotion(ref, clock))
    BY <1>0, <1>6, <2>2, CommandsProper, InjectStep DEF RcPoll
  <2> QED
    BY <1>6, <2>1, <2>2 DEF RcPoll
<1>7. CASE TickKeep
  BY <1>7 DEF TickKeep, arbiter, IInv, TypeOK, ArbiterTypeOK, EstopIsStill,
              OwnerlessIsHeld, ExpiryProgress, Expiring, Held
<1>8. CASE TickExpire
  <2>1. s_motion.source \in Remote
    BY <1>8 DEF TickExpire, Expired, Remote
  <2> QED
    BY <1>8, <2>1 DEF TickExpire, arbiter, IInv, TypeOK, ArbiterTypeOK, Expiring, Remote,
                      EstopIsStill, OwnerlessIsHeld, ExpiryProgress, Held
<1>9. CASE TickZero \/ TickBrake \/ TickRelease
  <2>1. s_motion' \in Motion
    BY <1>0, <1>9, ZeroAssumption
    DEF TickZero, TickBrake, TickRelease, ZeroMotion, BrakeMotion, ReleaseMotion,
        ArbiterTypeOK, Motion, Sources
  <2>2. TypeOK'
    BY <1>9, <2>1
    DEF TickZero, TickBrake, TickRelease, IInv, TypeOK, ArbiterTypeOK, Expiring,
        enables, stamps
  <2>3. EstopIsStill'
    BY <1>0, <1>9
    DEF TickZero, TickBrake, TickRelease, ZeroMotion, BrakeMotion, ReleaseMotion,
        ArbiterTypeOK, Motion, EstopIsStill, Held
  <2>4. OwnerlessIsHeld' /\ ExpiryProgress'
    BY <1>0, <1>9
    DEF TickZero, TickBrake, TickRelease, ZeroMotion, BrakeMotion, ReleaseMotion,
        ArbiterTypeOK, Motion, IInv, OwnerlessIsHeld, ExpiryProgress, Expiring, Held
  <2> QED
    BY <2>2, <2>3, <2>4 DEF IInv
<1>10. CASE UNCHANGED vars
  BY <1>10 DEF vars, arbiter, loop, IInv, TypeOK, ArbiterTypeOK, EstopIsStill,
               OwnerlessIsHeld, ExpiryProgress, Held
<1> QED
  BY <1>1, <1>2, <1>3, <1>4, <1>5, <1>6, <1>7, <1>8, <1>9, <1>10
  DEF Next, Loop, Interrupt

THEOREM Invariance == Spec => []IInv
BY InitIInv, NextIInv, PTL DEF Spec

-----------------------------------------------------------------------------
(* Differences of clock values, and the clock's successor, without "%". *)
LEMMA AgeCases ==
  ASSUME NEW t \in Ticks, NEW u \in Ticks
  PROVE  Age(t, u) = IF t >= u THEN t - u ELSE t - u + ClockMod
BY ClockAssumption DEF Ticks, Age

LEMMA AgeInt ==
  ASSUME NEW t \in Ticks, NEW u \in Ticks
  PROVE  Age(t, u) \in Int
BY AgeCases, ClockAssumption DEF Ticks

LEMMA TickCases ==
  ASSUME NEW t \in Ticks
  PROVE  (t + 1) % ClockMod = IF t + 1 = ClockMod THEN 0 ELSE t + 1
BY ClockAssumption DEF Ticks

(* The clock's next value is one tick older, until the age itself wraps. *)
LEMMA AgeNext ==
  ASSUME NEW t \in Ticks, NEW u \in Ticks, Age(t, u) + 1 < ClockMod
  PROVE  Age((t + 1) % ClockMod, u) = Age(t, u) + 1
<1> DEFINE n == (t + 1) % ClockMod
<1>1. n \in Ticks
  BY AgeInTicks DEF Ticks
<1>2. n = IF t + 1 = ClockMod THEN 0 ELSE t + 1
  BY TickCases
<1>3. Age(n, u) = IF n >= u THEN n - u ELSE n - u + ClockMod
  BY <1>1, AgeCases
<1>4. Age(t, u) = IF t >= u THEN t - u ELSE t - u + ClockMod
  BY AgeCases
<1> HIDE DEF n
<1> QED
  BY <1>1, <1>2, <1>3, <1>4, ClockAssumption DEF Ticks, n

(* Ages add up, or wrap to less. *)
LEMMA AgeTriangle ==
  ASSUME NEW t \in Ticks, NEW v \in Ticks, NEW u \in Ticks
  PROVE  Age(t, u) <= Age(v, u) + Age(t, v)
<1>1. Age(t, u) = IF t >= u THEN t - u ELSE t - u + ClockMod
  BY AgeCases
<1>2. Age(v, u) = IF v >= u THEN v - u ELSE v - u + ClockMod
  BY AgeCases
<1>3. Age(t, v) = IF t >= v THEN t - v ELSE t - v + ClockMod
  BY AgeCases
<1> QED
  BY <1>1, <1>2, <1>3, ClockAssumption DEF Ticks

LEMMA InitFresh == Init => FreshInv
<1> SUFFICES ASSUME Init PROVE FreshInv
  OBVIOUS
<1>1. Age(clock, now) = 0
  BY ClockAssumption, AgeCases DEF Init, Ticks
<1> QED
  BY <1>1, LagAssumption DEF Init, FreshInv, Fresh, Remote

(* A command that is merged is the freshest there is; any other leaves the *)
(* age of the owner's command alone, or takes the motion from it.          *)
LEMMA InjectFresh ==
  ASSUME IInv, FreshInv, NEW cmd \in Command, Proper(cmd, clock), Inject(cmd),
         clock' = clock, now' = now,
         pc' = pc \/ (pc = "poll" /\ pc' = "tick")
  PROVE  FreshInv'
<1>1. Age(clock, now)' <= MaxLag
  BY DEF FreshInv, Age
<1>2. ASSUME NEW src \in Remote PROVE Fresh(src)'
  <2>1. CASE cmd.estop
    <3>1. s_motion'.estop
      BY <2>1 DEF Inject, cmd_arbiter_inject_motion, Admitted, Stopped
    <3> QED
      BY <3>1 DEF Fresh
  <2>2. CASE Admitted(cmd)
    <3>1. s_motion'.source = cmd.source
      BY <2>2 DEF Inject, cmd_arbiter_inject_motion, Admitted, Merged
    <3>2. cmd.source = src => quiet'[src] = 0 /\ StampOf'[src] = clock
      BY <1>2, <2>2 DEF Inject, cmd_arbiter_inject_motion, Admitted, StampSources,
                        Proper, StampOf, Remote
    <3>3. clock \in Ticks /\ now \in Ticks
      BY DEF IInv, TypeOK
    <3>4. Age(clock, clock) = 0 /\ Age(clock, now) \in Nat
      BY <3>3, AgeCases, ClockAssumption DEF Ticks
    <3>5. Age(clock', StampOf'[src]) = Age(clock, StampOf'[src])
             /\ Age(clock', now') = Age(clock, now)
      OBVIOUS
    <3> QED
      BY <3>1, <3>2, <3>4, <3>5, <1>2, LeaseTypes, LagAssumption DEF Fresh
  <2>3. CASE ~cmd.estop /\ ~Admitted(cmd)
    <3>1. s_motion' = s_motion /\ StampOf' = StampOf /\ quiet'[src] = quiet[src]
      BY <1>2, <2>3 DEF Inject, cmd_arbiter_inject_motion, stamps, StampOf
    <3>2. Age(clock', StampOf'[src]) = Age(clock, StampOf[src])
             /\ Age(clock', now') = Age(clock, now)
      BY <3>1
    <3> QED
      BY <1>2, <3>1, <3>2 DEF FreshInv, Fresh
  <2> QED
    BY <2>1, <2>2, <2>3
<1> QED
  BY <1>1, <1>2 DEF FreshInv

(* The steps that touch neither the clock, nor the command, nor its age. *)
LEMMA FreshFrame ==
  ASSUME FreshInv, UNCHANGED <<s_ai_stamp, s_rc_stamp, clock, now, quiet>>,
         s_motion'.estop = s_motion.estop,
         s_motion'.source = s_motion.source \/ s_motion'.source = "NONE",
         pc = "top" => pc' = "top",
         pc' = "top" => pc = "top" \/ s_motion'.source = "NONE"
  PROVE  FreshInv'
<1>1. Age(clock, now)' = Age(clock, now) /\ StampOf' = StampOf
  BY DEF StampOf
<1>2. \A src \in Remote : Age(clock', StampOf'[src]) = Age(clock, StampOf[src])
  BY <1>1
<1>3. ASSUME NEW src \in Remote PROVE Fresh(src)'
  BY <1>1, <1>2, <1>3 DEF FreshInv, Fresh, Remote
<1> QED
  BY <1>1, <1>3 DEF FreshInv

LEMMA NextFresh == IInv /\ FreshInv /\ [Next]_vars => FreshInv'
<1> SUFFICES ASSUME IInv, FreshInv, [Next]_vars PROVE FreshInv'
  OBVIOUS
<1>0. /\ ArbiterTypeOK /\ EstopIsStill /\ clock \in Ticks /\ now \in Ticks
      /\ Age(clock, now) \in Nat /\ Age(clock, now) <= MaxLag
      /\ quiet \in [Remote -> Nat]
      /\ \A src \in Remote : StampOf[src] \in Ticks
  BY AgeCases, ClockAssumption
  DEF IInv, TypeOK, FreshInv, Ticks, Remote, StampOf, ArbiterTypeOK
<1>1. CASE ClockTick
  <2>1. Age(clock, now) < MaxLag /\ now' = now /\ clock' = (clock + 1) % ClockMod
           /\ UNCHANGED <<arbiter, pc>>
    BY <1>1 DEF ClockTick
  <2>2. clock' \in Ticks
    BY <1>0, <2>1, AgeInTicks DEF Ticks
  <2>3. Age(clock', now') = Age(clock, now) + 1
    <3>1. Age(clock, now) + 1 < ClockMod
      BY <1>0, <2>1, LagAssumption, ClockAssumption
    <3> QED
      BY <1>0, <2>1, <3>1, AgeNext
  <2>4. ASSUME NEW src \in Remote PROVE Fresh(src)'
    <3> SUFFICES ASSUME s_motion.source = src, ~s_motion.estop
                 PROVE  /\ quiet'[src] = Age(clock', StampOf'[src])
                        /\ quiet'[src] <= Timeout[src] + Age(clock', now')
                                            + (IF pc' = "top" THEN 0 ELSE MaxLag)
      BY <2>1 DEF Fresh, arbiter
    <3>1. /\ quiet[src] = Age(clock, StampOf[src])
          /\ quiet[src] <= Timeout[src] + Age(clock, now)
                              + (IF pc = "top" THEN 0 ELSE MaxLag)
      BY <2>4 DEF FreshInv, Fresh
    <3>2. quiet[src] \in Nat /\ quiet[src] < QuietCap(src)
      BY <1>0, <2>1, <2>4, <3>1, LeaseTypes, LagAssumption DEF QuietCap, Lease
    <3>3. quiet'[src] = quiet[src] + 1
      BY <1>1, <2>4, <3>2 DEF ClockTick
    <3>4. StampOf'[src] = StampOf[src]
      BY <2>1 DEF StampOf, arbiter
    <3>5. quiet[src] + 1 < ClockMod
      BY <3>2, <2>4, LagAssumption, ClockAssumption DEF QuietCap, Lease, Timeout, Remote
    <3>6. Age(clock', StampOf'[src]) = Age(clock, StampOf[src]) + 1
      BY <1>0, <2>1, <2>4, <3>1, <3>4, <3>5, AgeNext
    <3>7. pc' = pc /\ Timeout[src] \in Nat /\ MaxLag \in Nat
      BY <2>1, <2>4, LeaseTypes, LagAssumption
    <3> QED
      BY <1>0, <2>3, <3>1, <3>2, <3>3, <3>6, <3>7
  <2>5. Age(clock, now)' <= MaxLag
    BY <1>0, <2>1, <2>3, LagAssumption
  <2> QED
    BY <2>4, <2>5 DEF FreshInv
<1>2. CASE ConsoleLine
  BY <1>0, <1>2, CommandsProper, InjectFresh DEF ConsoleLine, loop
<1>3. CASE AiFrame
  BY <1>0, <1>3, CommandsProper, InjectFresh DEF AiFrame, loop
<1>4. CASE ConsoleEnable
  BY <1>4, FreshFrame DEF ConsoleEnable, cmd_arbiter_set_ai_enabled,
                          cmd_arbiter_set_rc_enabled, stamps, loop
<1>5. CASE LoopTop
  <2>1. pc = "top" /\ pc' = "poll" /\ now' = clock /\ clock' = clock
           /\ UNCHANGED <<arbiter, quiet>>
    BY <1>5 DEF LoopTop
  <2>2. Age(clock', now') = 0
    BY <1>0, <2>1, AgeCases DEF Ticks
  <2>3. ASSUME NEW src \in Remote PROVE Fresh(src)'
    <3>1. StampOf' = StampOf
      BY <2>1 DEF StampOf, arbiter
    <3>2. Age(clock', StampOf'[src]) = Age(clock, StampOf[src])
      BY <2>1, <3>1
    <3>3. quiet[src] \in Nat /\ Timeout[src] \in Nat /\ MaxLag \in Nat
      BY <1>0, <2>3, LeaseTypes, LagAssumption
    <3> QED
      BY <1>0, <2>1, <2>2, <2>3, <3>2, <3>3 DEF FreshInv, Fresh, arbiter
  <2> QED
    BY <2>2, <2>3, LagAssumption DEF FreshInv
<1>6. CASE RcPoll
  <2>1. CASE UNCHANGED <<arbiter, quiet, torn>>
    BY <1>6, <2>1, FreshFrame DEF RcPoll, arbiter
  <2>2. CASE \E ref \in Refs : Inject(RcMotion(ref, clock))
    BY <1>0, <1>6, <2>2, CommandsProper, InjectFresh DEF RcPoll
  <2> QED
    BY <1>6, <2>1, <2>2 DEF RcPoll
<1>7. CASE TickKeep
  <2>1. pc = "tick" /\ pc' = "top" /\ ~Expired(now)
           /\ UNCHANGED <<arbiter, clock, now, quiet>>
    BY <1>7 DEF TickKeep
  <2>2. ASSUME NEW src \in Remote, s_motion.source = src
        PROVE  Age(now, StampOf[src]) <= Timeout[src]
    <3>1. Age(now, StampOf[src]) \in Int /\ Timeout[src] \in Int
      BY <1>0, <2>2, AgeCases, LeaseTypes, ClockAssumption DEF Ticks
    <3>2. ~(Age(now, StampOf[src]) > Timeout[src])
      BY <2>1, <2>2 DEF Expired, Remote, StampOf, Timeout
    <3> QED
      BY <3>1, <3>2
  <2>3. ASSUME NEW src \in Remote PROVE Fresh(src)'
    <3>1. StampOf' = StampOf
      BY <2>1 DEF StampOf, arbiter
    <3>2. Age(clock', StampOf'[src]) = Age(clock, StampOf[src])
             /\ Age(clock', now') = Age(clock, now)
      BY <2>1, <3>1
    <3>3. Timeout[src] \in Nat
      BY <2>3, LeaseTypes
    <3>4. s_motion.source = src =>
             Age(clock, StampOf[src]) <= Timeout[src] + Age(clock, now)
      <4> SUFFICES ASSUME s_motion.source = src
                   PROVE  Age(clock, StampOf[src]) <= Timeout[src] + Age(clock, now)
        OBVIOUS
      <4>1. Age(now, StampOf[src]) <= Timeout[src]
        BY <2>2, <2>3
      <4>2. Age(clock, StampOf[src]) <= Age(now, StampOf[src]) + Age(clock, now)
        BY <1>0, <2>3, AgeTriangle
      <4>3. Age(clock, StampOf[src]) \in Int /\ Age(now, StampOf[src]) \in Int
        BY <1>0, <2>3, AgeInt
      <4> QED
        BY <1>0, <3>3, <4>1, <4>2, <4>3
    <3> QED
      BY <1>0, <2>1, <2>3, <3>2, <3>4, <3>3 DEF FreshInv, Fresh, arbiter
  <2>4. Age(clock, now)' = Age(clock, now)
    BY <2>1
  <2> QED
    BY <1>0, <2>3, <2>4 DEF FreshInv
<1>8. CASE TickExpire
  BY <1>8, FreshFrame DEF TickExpire, arbiter
<1>9. CASE TickZero \/ TickBrake \/ TickRelease
  BY <1>0, <1>9, FreshFrame
  DEF TickZero, TickBrake, TickRelease, ZeroMotion, BrakeMotion, ReleaseMotion,
      ArbiterTypeOK, Motion, stamps
<1>10. CASE UNCHANGED vars
  BY <1>10, FreshFrame DEF vars, arbiter, loop
<1> QED
  BY <1>1, <1>2, <1>3, <1>4, <1>5, <1>6, <1>7, <1>8, <1>9, <1>10
  DEF Next, Loop, Interrupt

-----------------------------------------------------------------------------
(***************************************************************************)
(* Every variable keeps its type: in particular clock, now and the stamps  *)
(* stay within the width of the clock, and no motion has an unknown owner. *)
(***************************************************************************)
THEOREM TypeCorrect == Spec => []TypeOK
BY Invariance, PTL DEF IInv

(***************************************************************************)
(* No interleaving of console lines, AI frames, heartbeats, RC commands    *)
(* and expiries gives an emergency stop in force a motion, a running       *)
(* balance controller or a wish to clear the fault.                        *)
(***************************************************************************)
THEOREM EstopStaysStill == Spec => []EstopIsStill
BY Invariance, PTL DEF IInv

(***************************************************************************)
(* What nobody owns, and so nothing will expire, holds the robot still, if *)
(* no command was stored between the stores of its expiry.                 *)
(***************************************************************************)
THEOREM OwnerlessStaysHeld == Spec => []OwnerlessIsHeld
BY Invariance, PTL DEF IInv

(***************************************************************************)
(* For every clock width, timeout and loop lag that satisfy the            *)
(* assumptions, a remote source that moves the robot sent its command at   *)
(* most its lease ago, however the clock wraps.                            *)
(***************************************************************************)
THEOREM RemoteStaysFresh == Spec => []RemoteIsFresh
<1>1. IInv /\ FreshInv => RemoteIsFresh
  <2> SUFFICES ASSUME IInv, FreshInv, NEW src \in Remote,
                      s_motion.source = src, s_motion.ref # Zero
               PROVE  quiet[src] <= Lease(src)
    BY DEF RemoteIsFresh
  <2>1. ~s_motion.estop
    BY DEF IInv, EstopIsStill, Held
  <2>2. quiet[src] <= Timeout[src] + Age(clock, now) + (IF pc = "top" THEN 0 ELSE MaxLag)
    BY <2>1 DEF FreshInv, Fresh
  <2>3. Age(clock, now) \in Int /\ Age(clock, now) <= MaxLag
    BY AgeCases, ClockAssumption DEF IInv, TypeOK, FreshInv, Ticks
  <2>4. quiet[src] \in Nat /\ Timeout[src] \in Nat
    BY LeaseTypes DEF IInv, TypeOK
  <2> QED
    BY <2>2, <2>3, <2>4, LagAssumption DEF Lease
<1> QED
  BY <1>1, InitIInv, NextIInv, InitFresh, NextFresh, PTL DEF Spec

(***************************************************************************)
(* The loop takes no motion from the console, unless a command was stored  *)
(* during the expiry of another source's motion.                           *)
(***************************************************************************)
THEOREM ConsoleStays == Spec => ConsoleNeverExpires
<1>1. IInv /\ [Next]_vars =>
        [s_motion.source = "CONSOLE" /\ s_motion' # s_motion /\ Loop => torn]_vars
  <2> SUFFICES ASSUME IInv, s_motion.source = "CONSOLE", s_motion' # s_motion, Loop
               PROVE  torn
    OBVIOUS
  <2>1. CASE LoopTop \/ TickKeep \/ TickExpire
    BY <2>1 DEF LoopTop, TickKeep, TickExpire, arbiter
  <2>2. CASE RcPoll
    <3>1. ASSUME NEW ref \in Refs, Inject(RcMotion(ref, clock)) PROVE FALSE
      <4>1. ~RcMotion(ref, clock).estop /\ RcMotion(ref, clock).source = "RC"
        BY DEF RcMotion, Blank
      <4>2. ~Admitted(RcMotion(ref, clock))
        BY <4>1 DEF Admitted, Outranks, prio
      <4> QED
        BY <3>1, <4>1, <4>2 DEF Inject, cmd_arbiter_inject_motion
    <3> QED
      BY <2>2, <3>1 DEF RcPoll, arbiter
  <2>3. CASE TickZero \/ TickBrake \/ TickRelease
    BY <2>3 DEF TickZero, TickBrake, TickRelease, IInv, ExpiryProgress, Expiring, Remote
  <2> QED
    BY <2>1, <2>2, <2>3 DEF Loop
<1> QED
  BY <1>1, Invariance, PTL DEF Spec, ConsoleNeverExpires

(* An age that is at least the sample's own is the sample's age and the rest. *)
LEMMA AgeSplits ==
  ASSUME NEW t \in Ticks, NEW v \in Ticks, NEW u \in Ticks, Age(t, u) >= Age(t, v)
  PROVE  Age(t, u) = Age(v, u) + Age(t, v)
<1>1. Age(t, u) = IF t >= u THEN t - u ELSE t - u + ClockMod
  BY AgeCases
<1>2. Age(v, u) = IF v >= u THEN v - u ELSE v - u + ClockMod
  BY AgeCases
<1>3. Age(t, v) = IF t >= v THEN t - v ELSE t - v + ClockMod
  BY AgeCases
<1> QED
  BY <1>1, <1>2, <1>3, ClockAssumption DEF Ticks

(***************************************************************************)
(* An expiry of the AI box is either due, or the result of a stamp newer   *)
(* than the loop's sample of the clock: there is no third way to lose the  *)
(* motion early (cmd_arbiter_tick).                                        *)
(***************************************************************************)
THEOREM EarlyOnlyIfRaced == Spec => TimeoutOnlyLateOrRaced
<1> DEFINE Due == TickExpire /\ s_motion.source = "AI" /\ ~s_motion.estop
                    => quiet["AI"] > AiTimeout \/ quiet["AI"] < Age(clock, now)
<1>1. IInv /\ FreshInv => Due
  <2> SUFFICES ASSUME IInv, FreshInv, TickExpire, s_motion.source = "AI", ~s_motion.estop,
                      ~(quiet["AI"] < Age(clock, now))
               PROVE  quiet["AI"] > AiTimeout
    OBVIOUS
  <2>1. clock \in Ticks /\ now \in Ticks /\ s_ai_stamp \in Ticks
    BY DEF IInv, TypeOK, ArbiterTypeOK
  <2>2. quiet["AI"] = Age(clock, s_ai_stamp)
    BY DEF FreshInv, Fresh, StampOf, Remote
  <2>3. Age(now, s_ai_stamp) > AiTimeout
    BY DEF TickExpire, Expired
  <2>4. /\ Age(clock, s_ai_stamp) \in Int /\ Age(clock, now) \in Ticks
        /\ Age(now, s_ai_stamp) \in Int
    BY <2>1, AgeInt, AgeInTicks DEF Age, Ticks
  <2>5. Age(clock, s_ai_stamp) = Age(now, s_ai_stamp) + Age(clock, now)
    BY <2>1, <2>2, <2>4, AgeSplits DEF Ticks
  <2> QED
    BY <2>2, <2>3, <2>4, <2>5, ClockAssumption DEF Ticks
<1> QED
  BY <1>1, InitIInv, NextIInv, InitFresh, NextFresh, PTL DEF Spec, TimeoutOnlyLateOrRaced

-----------------------------------------------------------------------------
(* A step of the loop that stays out of an expiry, or no step of the loop. *)
Aside == pc' = pc \/ (pc \notin Expiring /\ pc' \notin Expiring)

LEMMA AsideStutters ==
  ASSUME Aside, s_motion' = s_motion, torn' = torn
  PROVE  UNCHANGED Owner!vars
BY DEF Aside, Owner!vars, Expiry

(* An injection is a Take, a Stop, or nothing. *)
LEMMA InjectOwns ==
  ASSUME ArbiterTypeOK, NEW cmd \in Command, cmd.source # "NONE",
         cmd.estop => cmd.source # "RC", Inject(cmd), Aside
  PROVE  [Owner!Next]_Owner!vars
<1>0. s_motion \in Motion /\ cmd.source \in {"CONSOLE", "AI", "RC"}
  BY DEF ArbiterTypeOK, Command, Sources
<1>1. CASE ~cmd.estop /\ ~Admitted(cmd) /\ s_motion' = s_motion
  BY <1>1, AsideStutters DEF Inject
<1>2. ASSUME cmd.estop \/ Admitted(cmd), s_motion'.source = cmd.source
      PROVE  Owner!Store(cmd.source)
  <2>1. Expiry(pc, torn)' = IF pc \in Expiring THEN "torn" ELSE "none"
    BY <1>2 DEF Inject, Expiry, Aside
  <2> QED
    BY <1>2, <2>1 DEF Owner!Store, Expiry
<1>3. CASE /\ cmd.estop /\ s_motion'.source = cmd.source
           /\ Robot(s_motion') = "stopped"
  BY <1>0, <1>2, <1>3 DEF Owner!Stop, Owner!Next
<1>4. CASE /\ Admitted(cmd) /\ s_motion'.source = cmd.source
           /\ Robot(s_motion') \in {"free", "held"}
           /\ s_motion.source = "CONSOLE" => cmd.source = "CONSOLE"
           /\ s_motion.source = "AI" => cmd.source # "RC"
  <2>1. s_motion.source \in Owner!Yields[cmd.source]
    BY <1>0, <1>4 DEF Owner!Yields, Motion, Sources
  <2> QED
    BY <1>0, <1>2, <1>4, <2>1 DEF Owner!Take, Owner!Next
<1> QED
  BY <1>0, <1>1, <1>3, <1>4, InjectOwner DEF Inject

(* Every step of the arbiter is one of the owner's, or none. *)
LEMMA OwnerStep == IInv /\ [Next]_vars => [Owner!Next]_Owner!vars
<1> SUFFICES ASSUME IInv, [Next]_vars PROVE [Owner!Next]_Owner!vars
  OBVIOUS
<1>0. /\ ArbiterTypeOK /\ EstopIsStill /\ s_motion \in Motion /\ clock \in Ticks
      /\ s_motion.estop => Held(s_motion)
  BY DEF IInv, TypeOK, ArbiterTypeOK, EstopIsStill
<1>1. CASE ConsoleLine
  <2>1. PICK cmd \in ConsoleDrives(clock) \cup {ConsoleLqr(on, clock) : on \in BOOLEAN}
                       \cup {ConsoleMotion(Zero, TRUE, clock),
                             ConsoleEstop(clock), ConsoleClear(clock)} : Inject(cmd)
    BY <1>1 DEF ConsoleLine
  <2>2. cmd \in Command
    BY <1>0, CommandsProper
  <2>3. cmd.source = "CONSOLE"
    BY CommandSources
  <2>4. Aside
    BY <1>1 DEF ConsoleLine, loop, Aside
  <2> QED
    BY <1>0, <2>1, <2>2, <2>3, <2>4, InjectOwns
<1>2. CASE AiFrame
  <2>1. PICK cmd \in AiCommands(s_motion, clock) : Inject(cmd)
    BY <1>2 DEF AiFrame
  <2>2. cmd \in Command
    BY <1>0, CommandsProper
  <2>3. cmd.source = "AI"
    BY CommandSources
  <2>4. Aside
    BY <1>2 DEF AiFrame, loop, Aside
  <2> QED
    BY <1>0, <2>1, <2>2, <2>3, <2>4, InjectOwns
<1>3. CASE RcPoll
  <2>1. Aside
    BY <1>3 DEF RcPoll, Aside, Expiring
  <2>2. CASE \E ref \in Refs : Inject(RcMotion(ref, clock))
    <3>1. PICK ref \in Refs : Inject(RcMotion(ref, clock))
      BY <2>2
    <3>2. RcMotion(ref, clock) \in Command
      BY <1>0, CommandsProper
    <3>3. RcMotion(ref, clock).source = "RC" /\ ~RcMotion(ref, clock).estop
      BY DEF RcMotion, Blank
    <3> QED
      BY <1>0, <2>1, <3>1, <3>2, <3>3, InjectOwns
  <2>3. CASE UNCHANGED <<arbiter, torn>>
    BY <2>1, <2>3, AsideStutters DEF arbiter
  <2> QED
    BY <1>3, <2>2, <2>3 DEF RcPoll
<1>4. CASE TickExpire
  <2>1. s_motion.source \in Remote
    BY <1>4 DEF TickExpire, Expired, Remote
  <2>2. Expiry(pc, torn) = "none" /\ Expiry(pc, torn)' = "due"
    BY <1>4 DEF TickExpire, Expiry, Expiring
  <2>3. Owner!Notice
    BY <1>4, <2>1, <2>2 DEF TickExpire, arbiter, Owner!Notice, Owner!Remote, Remote, Robot, Held
  <2> QED
    BY <2>3 DEF Owner!Next
<1>5. CASE TickZero \/ TickBrake
  <2>1. Expiry(pc, torn)' = Expiry(pc, torn) /\ Expiry(pc, torn) # "none"
    BY <1>5 DEF TickZero, TickBrake, Expiry, Expiring
  <2>2. /\ s_motion'.source = s_motion.source
        /\ \/ Robot(s_motion') = Robot(s_motion)
           \/ Robot(s_motion) = "free" /\ Robot(s_motion') = "held"
    BY <1>0, <1>5, StoreOwner DEF TickZero, TickBrake
  <2>3. Owner!Settle \/ UNCHANGED Owner!vars
    BY <2>1, <2>2 DEF Owner!Settle, Owner!vars, Robot
  <2> QED
    BY <2>3 DEF Owner!Next
<1>6. CASE TickRelease
  <2>1. /\ Expiry(pc, torn) # "none" /\ Expiry(pc, torn)' = "none"
        /\ Expiry(pc, torn) = "due" => Robot(s_motion) # "free"
    BY <1>6 DEF TickRelease, Expiry, Expiring, IInv, ExpiryProgress, Robot
  <2>2. s_motion'.source = "NONE" /\ Robot(s_motion') = Robot(s_motion)
    BY <1>0, <1>6, StoreOwner DEF TickRelease
  <2>3. Owner!Release
    BY <2>1, <2>2 DEF Owner!Release, Robot
  <2> QED
    BY <2>3 DEF Owner!Next
<1>7. CASE ClockTick \/ ConsoleEnable \/ LoopTop \/ TickKeep \/ UNCHANGED vars
  BY <1>7, AsideStutters
  DEF ClockTick, ConsoleEnable, cmd_arbiter_set_ai_enabled, cmd_arbiter_set_rc_enabled,
      LoopTop, TickKeep, vars, arbiter, loop, Aside, Expiring
<1> QED
  BY <1>1, <1>2, <1>3, <1>4, <1>5, <1>6, <1>7 DEF Next, Loop, Interrupt

LEMMA OwnerInit == Init => Owner!Init
BY DEF Init, Owner!Init, Robot, Held, Expiry, Expiring

(***************************************************************************)
(* The arbiter, with its interrupts, its clock and its expiry store by     *)
(* store, implements the ownership that docs/PROTOCOL.md describes.        *)
(***************************************************************************)
THEOREM ImplementsMotionOwner == Spec => IsMotionOwner
BY Invariance, OwnerInit, OwnerStep, PTL DEF Spec, IsMotionOwner, Owner!Spec
=============================================================================
