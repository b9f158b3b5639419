--------------------------- MODULE AppLoopProofs ----------------------------
(***************************************************************************)
(* Theorems about AppLoop, for every set of velocities, direct commands,   *)
(* balance modes and fault bits, and for both links of the AI box.         *)
(***************************************************************************)
EXTENDS AppLoop, CmdSourcesProofs

-----------------------------------------------------------------------------
(* Types. *)

LEMMA ZeroTick == 0 \in Ticks
BY ClockAssumption DEF Ticks

(* The commands a receive interrupt, the loop and boot inject. *)
LEMMA InjectedCommands ==
  /\ \A cmd \in ConsoleDrives(0) \cup {ConsoleMotion(Zero, TRUE, 0)} : cmd \in Command
  /\ \A on \in BOOLEAN : ConsoleLqr(on, 0) \in Command
  /\ ConsoleEstop(0) \in Command /\ ConsoleClear(0) \in Command
  /\ BootCommand(0) \in Command
  /\ Blank("AI", 0) \in Command
  /\ s_motion \in Motion => \A cmd \in AiCommands(s_motion, 0) : cmd \in Command
<1>1. Zero \in Refs /\ TRUE \in BOOLEAN /\ 0 \in Ticks
  BY ZeroAssumption, ZeroTick
<1>2. NoMotion \in Motion
  BY <1>1 DEF NoMotion, Motion, Sources
<1>3. \A ref \in Refs, b \in BOOLEAN :
        ConsoleMotion(ref, b, 0) \in Command /\ ConsoleLqr(b, 0) \in Command
  BY <1>1, <1>2, CommandTypes
<1>4. ConsoleEstop(0) \in Command /\ ConsoleClear(0) \in Command
  BY <1>1, <1>2, CommandTypes
<1>5. \A cmd \in ConsoleDrives(0) \cup {ConsoleMotion(Zero, TRUE, 0)} : cmd \in Command
  BY <1>1, <1>3 DEF ConsoleDrives
<1>6. BootCommand(0) \in Command /\ Blank("AI", 0) \in Command
  BY <1>1, BootAssumption DEF BootCommand, Blank, Command, Sources
<1>7. s_motion \in Motion => \A cmd \in AiCommands(s_motion, 0) : cmd \in Command
  BY <1>1, CommandTypes DEF AiCommands
<1> QED
  BY <1>1, <1>3, <1>4, <1>5, <1>6, <1>7

(* Injection with its ghost. *)
LEMMA InjectAll ==
  ASSUME TypeOK, NEW cmd \in Command, Inject(cmd)
  PROVE  ArbiterTypeOK' /\ estop_req' \in {"none", "asked", "due"} /\ torn' \in BOOLEAN
<1>1. ArbiterTypeOK' /\ estop_req' \in {"none", "asked", "due"}
  BY InjectTypes DEF TypeOK, Inject
<1>2. torn' = torn \/ torn' = (pc \in Expiring)
  BY DEF Inject
<1>3. torn' \in BOOLEAN
  <2>1. torn \in BOOLEAN /\ (pc \in Expiring) \in BOOLEAN
    BY DEF TypeOK
  <2> QED
    BY <1>2, <2>1, Zenon
<1> QED
  BY <1>1, <1>3

(* Every operation on the motors keeps their types. *)
LEMMA MotorSteps ==
  ASSUME MotorTypeOK,
         \/ motor_init
         \/ motor_estop
         \/ \E id \in Wheels \cup {"BOTH"}, mode \in MotorModes :
              SetMode(id, mode) \/ Enable(id, mode)
         \/ \E id \in Wheels \cup {"BOTH"}, b \in BOOLEAN :
              motor_set_speed_rpm(id, b) \/ motor_set_torque_nm(id, b)
  PROVE  MotorTypeOK'
BY DEF MotorTypeOK, motor_init, motor_estop, SetMode, Enable, motor_set_speed_rpm,
       motor_set_torque_nm, Set, MotorModes

(* The slot's contents are arguments the motors accept. *)
LEMMA SlotArguments ==
  \A cmd \in DirectCmds \cup {NoDirect} :
    /\ cmd.side \in Wheels \cup {"BOTH"}
    /\ cmd.mode \in MotorModes
    /\ cmd.nonzero \in BOOLEAN
<1> SUFFICES ASSUME NEW cmd \in DirectCmds \cup {NoDirect}
             PROVE  /\ cmd.side \in Wheels \cup {"BOTH"}
                    /\ cmd.mode \in MotorModes
                    /\ cmd.nonzero \in BOOLEAN
  OBVIOUS
<1>1. CASE cmd \in DirectCmds
  <2>1. cmd \in [act : {"mode", "speed", "pos"}, side : Wheels \cup {"BOTH"},
                mode : MotorModes, nonzero : BOOLEAN]
    BY <1>1, DirectAssumption
  <2> QED
    BY <2>1
<1>2. CASE cmd = NoDirect
  BY <1>2 DEF NoDirect, Wheels, MotorModes
<1> QED
  BY <1>1, <1>2

LEMMA LocalTypes ==
  /\ NoMotion \in Motion
  /\ NoSlot \in [active : BOOLEAN, cmd : DirectCmds \cup {NoDirect}]
  /\ NoFrame \in [cmd : Command, prev_lqr : BOOLEAN]
BY ZeroAssumption, InjectedCommands DEF NoMotion, NoSlot, NoFrame, Motion, Sources

LEMMA InitTypes == Init => TypeOK
<1> SUFFICES ASSUME Init PROVE TypeOK
  OBVIOUS
<1>1. ArbiterTypeOK
  BY ZeroAssumption, BootAssumption, ZeroTick
  DEF Init, cmd_arbiter_init, ArbiterTypeOK, Motion, Sources
<1>2. MotorTypeOK /\ DirectTypeOK
  BY DEF Init, MotorInit, DirectInit, MotorTypeOK, MotorModes, DirectTypeOK
<1> QED
  BY <1>1, <1>2, LocalTypes, ModesAssumption DEF Init, TypeOK, AppStates, BootSteps

LEMMA InterruptTypes == TypeOK /\ Interrupt => TypeOK'
<1> SUFFICES ASSUME TypeOK, Interrupt PROVE TypeOK'
  OBVIOUS
<1> USE DEF InInterrupt, app, locals, ghosts, motors
<1>1. CASE ConsoleDrive
  <2>1. ArbiterTypeOK' /\ estop_req' \in {"none", "asked", "due"} /\ torn' \in BOOLEAN
    BY <1>1, InjectedCommands, InjectAll DEF ConsoleDrive
  <2> QED
    BY <1>1, <2>1 DEF ConsoleDrive, TypeOK, MotorTypeOK, DirectTypeOK
<1>2. CASE ConsoleDirect
  <2>1. ArbiterTypeOK' /\ estop_req' \in {"none", "asked", "due"} /\ torn' \in BOOLEAN
    BY <1>2, InjectedCommands, InjectAll DEF ConsoleDirect
  <2>2. DirectTypeOK'
    BY <1>2 DEF ConsoleDirect, cmd_arbiter_inject_direct, DirectTypeOK
  <2> QED
    BY <1>2, <2>1, <2>2 DEF ConsoleDirect, TypeOK, MotorTypeOK
<1>3. CASE ConsoleLqrLine
  <2>1. ArbiterTypeOK' /\ estop_req' \in {"none", "asked", "due"} /\ torn' \in BOOLEAN
    BY <1>3, InjectedCommands, InjectAll DEF ConsoleLqrLine
  <2>2. b_mode' \in ActiveModes \cup {"OFF"}
    BY <1>3, ModesAssumption DEF ConsoleLqrLine, TypeOK
  <2> QED
    BY <1>3, <2>1, <2>2 DEF ConsoleLqrLine, TypeOK, MotorTypeOK, DirectTypeOK
<1>4. CASE ConsoleBalmode
  <2>1. ArbiterTypeOK' /\ estop_req' \in {"none", "asked", "due"} /\ torn' \in BOOLEAN
    <3>1. PICK mode \in ActiveModes \cup {"OFF"} : Inject(ConsoleLqr(mode # "OFF", 0))
      BY <1>4 DEF ConsoleBalmode
    <3>2. (mode # "OFF") \in BOOLEAN
      OBVIOUS
    <3> QED
      BY <3>1, <3>2, InjectedCommands, InjectAll
  <2> QED
    BY <1>4, <2>1 DEF ConsoleBalmode, TypeOK, MotorTypeOK, DirectTypeOK
<1>5. CASE ConsoleEstopLine
  <2>1. ArbiterTypeOK' /\ estop_req' \in {"none", "asked", "due"} /\ torn' \in BOOLEAN
    BY <1>5, InjectedCommands, InjectAll DEF ConsoleEstopLine
  <2>2. MotorTypeOK'
    BY <1>5, MotorSteps DEF ConsoleEstopLine, app_request_estop, TypeOK
  <2>3. raced' \in BOOLEAN
    <3>1. raced' = (raced \/ pc \in Actuation \cup {"clear"})
      BY <1>5 DEF ConsoleEstopLine
    <3> QED
      BY <3>1, Zenon
  <2> QED
    BY <1>5, <2>1, <2>2, <2>3
    DEF ConsoleEstopLine, app_request_estop, TypeOK, DirectTypeOK, AppStates
<1>6. CASE ConsoleClearLine
  <2>1. ArbiterTypeOK' /\ estop_req' \in {"none", "asked", "due"} /\ torn' \in BOOLEAN
    BY <1>6, InjectedCommands, InjectAll DEF ConsoleClearLine
  <2> QED
    BY <1>6, <2>1
    DEF ConsoleClearLine, app_clear_fault, TypeOK, MotorTypeOK, DirectTypeOK, AppStates
<1>7. CASE UartFrame
  <2>1. ArbiterTypeOK' /\ estop_req' \in {"none", "asked", "due"} /\ torn' \in BOOLEAN
    BY <1>7, InjectedCommands, InjectAll DEF UartFrame, TypeOK, ArbiterTypeOK
  <2> QED
    BY <1>7, <2>1 DEF UartFrame, TypeOK, MotorTypeOK, DirectTypeOK
<1> QED
  BY <1>1, <1>2, <1>3, <1>4, <1>5, <1>6, <1>7 DEF Interrupt

LEMMA BootTypes == TypeOK /\ Boot => TypeOK'
<1> SUFFICES ASSUME TypeOK, Boot PROVE TypeOK'
  OBVIOUS
<1> USE DEF Goto, Booting, arbiter, app, locals, ghosts, motors, TypeOK, BootSteps, AppStates
<1>1. CASE ImuInit
  BY <1>1 DEF ImuInit, ArbiterTypeOK, MotorTypeOK, DirectTypeOK
<1>2. CASE EnterMotorInit
  BY <1>2 DEF EnterMotorInit, ArbiterTypeOK, MotorTypeOK, DirectTypeOK
<1>3. CASE MotorStart
  <2>1. MotorTypeOK'
    BY <1>3, MotorSteps DEF MotorStart
  <2> QED
    BY <1>3, <2>1 DEF MotorStart, ArbiterTypeOK, DirectTypeOK
<1>4. CASE BootInject
  <2>1. ArbiterTypeOK' /\ estop_req' \in {"none", "asked", "due"} /\ torn' \in BOOLEAN
    BY <1>4, InjectedCommands, InjectAll DEF BootInject
  <2> QED
    BY <1>4, <2>1 DEF BootInject, MotorTypeOK, DirectTypeOK
<1>5. CASE BootCheck
  BY <1>5 DEF BootCheck, ArbiterTypeOK, MotorTypeOK, DirectTypeOK
<1>6. CASE BootEnter
  BY <1>6 DEF BootEnter, ArbiterTypeOK, MotorTypeOK, DirectTypeOK
<1> QED
  BY <1>1, <1>2, <1>3, <1>4, <1>5, <1>6 DEF Boot

LEMMA LinkTypes == TypeOK /\ Links => TypeOK'
<1> SUFFICES ASSUME TypeOK, Links PROVE TypeOK'
  OBVIOUS
<1>0. s_motion \in Motion /\ frame.cmd \in Command /\ frame.prev_lqr \in BOOLEAN
  BY DEF TypeOK, ArbiterTypeOK
<1> USE DEF Goto, SameInputs, SameApp, arbiter, enables, stamps, app, locals, ghosts,
            motors, TypeOK, LinkSteps
<1>1. CASE LoopTop \/ NetIdle \/ TickKeep \/ TickExpire
  BY <1>1
  DEF LoopTop, NetIdle, TickKeep, TickExpire, ArbiterTypeOK, MotorTypeOK, DirectTypeOK
<1>2. CASE NetFrame
  <2>1. frame' \in [cmd : Command, prev_lqr : BOOLEAN]
    BY <1>0, <1>2, InjectedCommands, LocalTypes DEF NetFrame
  <2> QED
    BY <1>2, <2>1 DEF NetFrame, ArbiterTypeOK, MotorTypeOK, DirectTypeOK
<1>3. CASE NetStop
  <2>1. ArbiterTypeOK' /\ estop_req' \in {"none", "asked", "due"} /\ torn' \in BOOLEAN
    BY <1>0, <1>3, InjectAll DEF NetStop
  <2> QED
    BY <1>3, <2>1, LocalTypes DEF NetStop, MotorTypeOK, DirectTypeOK
<1>4. CASE NetAdmit
  <2>1. s_motion.lqr_enable \in BOOLEAN
    BY <1>0 DEF Motion
  <2>2. frame' \in [cmd : Command, prev_lqr : BOOLEAN]
    BY <1>4, <2>1 DEF NetAdmit
  <2> QED
    BY <1>4, <2>2 DEF NetAdmit, ArbiterTypeOK, MotorTypeOK, DirectTypeOK
<1>5. CASE NetMerge
  <2>1. s_motion' \in Motion
    BY <1>0, <1>5 DEF NetMerge, Merged, Command, Motion
  <2>2. s_ai_stamp' \in Ticks /\ s_rc_stamp' \in Ticks
    BY <1>0, <1>5 DEF NetMerge, StampSources, Command, ArbiterTypeOK
  <2> QED
    BY <1>5, <2>1, <2>2, LocalTypes DEF NetMerge, ArbiterTypeOK, MotorTypeOK, DirectTypeOK
<1>6. CASE TickStore
  <2>1. s_motion' \in Motion
    BY <1>0, <1>6, ZeroAssumption
    DEF TickStore, ZeroMotion, BrakeMotion, ReleaseMotion, Motion, Sources
  <2> QED
    BY <1>6, <2>1 DEF TickStore, ArbiterTypeOK, MotorTypeOK, DirectTypeOK
<1> QED
  BY <1>1, <1>2, <1>3, <1>4, <1>5, <1>6 DEF Links

(* A period that ends early stops the motors and forgets its locals. *)
LEMMA AbortTypes == TypeOK /\ Abort => TypeOK'
<1> SUFFICES ASSUME TypeOK, Abort PROVE TypeOK'
  OBVIOUS
<1>1. MotorTypeOK'
  BY MotorSteps DEF Abort, app_request_estop, TypeOK
<1> QED
  BY <1>1, LocalTypes
  DEF Abort, app_request_estop, EndPeriod, Goto, SameInputs, arbiter, ghosts, TypeOK,
      AppStates, ArbiterTypeOK, DirectTypeOK

LEMMA PeriodTypes == TypeOK /\ Period => TypeOK'
<1> SUFFICES ASSUME TypeOK, Period PROVE TypeOK'
  OBVIOUS
<1> USE DEF Goto, SameInputs, SameApp, arbiter, app, locals, ghosts, motors, TypeOK,
            InPeriod, PeriodSteps
<1>1. CASE PeriodNotDue \/ PeriodDue
  BY <1>1 DEF PeriodNotDue, PeriodDue, ArbiterTypeOK, MotorTypeOK, DirectTypeOK
<1>2. CASE ImuFault \/ SafetyFault \/ EstopCommanded
  BY <1>2, AbortTypes DEF ImuFault, SafetyFault, EstopCommanded
<1>3. CASE ImuGood \/ SafetyGood
  BY <1>3 DEF ImuGood, SafetyGood, ArbiterTypeOK, MotorTypeOK, DirectTypeOK
<1>4. CASE GetRef \/ GetFlags
  <2>1. mc' \in Motion
    BY <1>4 DEF GetRef, GetFlags, Motion, Sources, ArbiterTypeOK
  <2> QED
    BY <1>4, <2>1 DEF GetRef, GetFlags, ArbiterTypeOK, MotorTypeOK, DirectTypeOK
<1>5. CASE SafetyLatch
  BY <1>5 DEF SafetyLatch, ArbiterTypeOK, MotorTypeOK, DirectTypeOK
<1>6. CASE NoEstop
  BY <1>6 DEF NoEstop, ArbiterTypeOK, MotorTypeOK, DirectTypeOK
<1>7. CASE ClearStore
  BY <1>7 DEF ClearStore, AppStates, ArbiterTypeOK, MotorTypeOK, DirectTypeOK
<1>8. CASE StaySafe
  <2>1. /\ mc' \in Motion
        /\ dc' \in [active : BOOLEAN, cmd : DirectCmds \cup {NoDirect}]
        /\ tau' \in BOOLEAN /\ frame' = frame
    BY <1>8, LocalTypes DEF StaySafe, EndPeriod
  <2>2. ArbiterTypeOK' /\ MotorTypeOK' /\ DirectTypeOK'
    BY <1>8 DEF StaySafe, ArbiterTypeOK, MotorTypeOK, DirectTypeOK
  <2> QED
    BY <1>8, <2>1, <2>2 DEF StaySafe, EndPeriod
<1>9. CASE NotSafe
  BY <1>9
  DEF NotSafe, Actuation, DirectSteps, BalanceSteps, ArbiterTypeOK, MotorTypeOK, DirectTypeOK
<1> QED
  BY <1>1, <1>2, <1>3, <1>4, <1>5, <1>6, <1>7, <1>8, <1>9 DEF Period

LEMMA ActuationTypes == TypeOK /\ (Direct \/ Balance) => TypeOK'
<1> SUFFICES ASSUME TypeOK, Direct \/ Balance PROVE TypeOK'
  OBVIOUS
<1>0. /\ dc.cmd.side \in Wheels \cup {"BOTH"}
      /\ dc.cmd.mode \in MotorModes
      /\ dc.cmd.nonzero \in BOOLEAN
  BY SlotArguments DEF TypeOK
<1> USE DEF Goto, SameInputs, SameApp, DirectStep, arbiter, app, locals, ghosts, motors,
            TypeOK, InPeriod, Actuation, DirectSteps, BalanceSteps, StateSteps
<1>1. CASE CopyDirect
  BY <1>1 DEF CopyDirect, ArbiterTypeOK, MotorTypeOK, DirectTypeOK
<1>2. CASE TakeDirect
  <2>1. DirectTypeOK'
    BY <1>2 DEF TakeDirect, ReleaseDirect, DirectTypeOK
  <2>2. dc' \in [active : BOOLEAN, cmd : DirectCmds \cup {NoDirect}]
    BY <1>2, LocalTypes DEF TakeDirect
  <2>3. pc' \in {"gate", "d_mode", "d_speed", "idle"}
    BY <1>2 DEF TakeDirect
  <2> QED
    BY <1>2, <2>1, <2>2, <2>3 DEF TakeDirect, ArbiterTypeOK, MotorTypeOK
<1>3. CASE DirectMode \/ DirectEnable \/ DirectSpeed
  <2>1. MotorTypeOK'
    BY <1>0, <1>3, MotorSteps DEF DirectMode, DirectEnable, DirectSpeed
  <2> QED
    BY <1>3, <2>1 DEF DirectMode, DirectEnable, DirectSpeed, ArbiterTypeOK, DirectTypeOK
<1>4. CASE StoreIdle \/ StoreState
  BY <1>4, LocalTypes
  DEF StoreIdle, StoreState, EndPeriod, AppStates, ArbiterTypeOK, MotorTypeOK, DirectTypeOK
<1>5. CASE BalanceGate
  BY <1>5 DEF BalanceGate, ArbiterTypeOK, MotorTypeOK, DirectTypeOK
<1>6. CASE BalanceStep
  <2>1. tau' \in BOOLEAN
    BY <1>6, Zenon DEF BalanceStep
  <2> QED
    BY <1>6, <2>1 DEF BalanceStep, ArbiterTypeOK, MotorTypeOK, DirectTypeOK
<1>7. CASE \/ ApplyMode \/ ApplyEnable
           \/ ApplyTorque("L", "tau_l", "tau_r") \/ ApplyTorque("R", "tau_r", "state")
  <2>1. /\ "BOTH" \in Wheels \cup {"BOTH"} /\ "L" \in Wheels /\ "R" \in Wheels
        /\ "TORQUE" \in MotorModes
    BY DEF Wheels, MotorModes
  <2>2. MotorTypeOK'
    BY <1>7, <2>1, MotorSteps DEF ApplyMode, ApplyEnable, ApplyTorque
  <2> QED
    BY <1>7, <2>2 DEF ApplyMode, ApplyEnable, ApplyTorque, ArbiterTypeOK, DirectTypeOK
<1> QED
  BY <1>1, <1>2, <1>3, <1>4, <1>5, <1>6, <1>7 DEF Direct, Balance

LEMMA NextTypes == TypeOK /\ [Next]_vars => TypeOK'
<1> SUFFICES ASSUME TypeOK, [Next]_vars PROVE TypeOK'
  OBVIOUS
<1>1. CASE UNCHANGED vars
  BY <1>1
  DEF vars, arbiter, motors, app, locals, ghosts, TypeOK, ArbiterTypeOK, MotorTypeOK, DirectTypeOK
<1> QED
  BY <1>1, InterruptTypes, BootTypes, LinkTypes, PeriodTypes, ActuationTypes DEF Next, Loop

(***************************************************************************)
(* Every variable of the application keeps its type, whatever interrupts   *)
(* what (app_main.c with its callees).                                     *)
(***************************************************************************)
THEOREM TypeCorrect == Spec => []TypeOK
BY InitTypes, NextTypes, PTL DEF Spec

-----------------------------------------------------------------------------
(***************************************************************************)
(* Latched faults.  Past the test of safety_update nothing is latched, and *)
(* before the first period nothing can be.                                 *)
(***************************************************************************)
Tested == BootSteps \cup {"decide", "clear", "check"} \cup Actuation

FaultInv == LatchedFaultIsSafe /\ (pc \in Tested => s_fault = {})

(* Clearing, at any moment, agrees with the invariant. *)
LEMMA FaultInterrupt == FaultInv /\ Interrupt => FaultInv'
<1> SUFFICES ASSUME FaultInv, Interrupt PROVE FaultInv'
  OBVIOUS
<1>1. pc' = pc
  BY DEF Interrupt, ConsoleDrive, ConsoleDirect, ConsoleLqrLine, ConsoleBalmode,
         ConsoleEstopLine, ConsoleClearLine, UartFrame, InInterrupt
<1>2. \/ UNCHANGED <<s_fault, s_state>>
      \/ s_state' = "FAULT_SAFE" /\ s_fault' = s_fault
      \/ s_fault' = {}
  BY DEF Interrupt, ConsoleDrive, ConsoleDirect, ConsoleLqrLine, ConsoleBalmode,
         ConsoleEstopLine, ConsoleClearLine, UartFrame, app, app_request_estop,
         app_clear_fault
<1> QED
  BY <1>1, <1>2 DEF FaultInv, LatchedFaultIsSafe

LEMMA FaultNext == FaultInv /\ [Next]_vars => FaultInv'
<1> SUFFICES ASSUME FaultInv, [Next]_vars PROVE FaultInv'
  OBVIOUS
<1> USE DEF FaultInv, LatchedFaultIsSafe, Tested, Goto, SameApp, app, Actuation,
            BootSteps, DirectSteps, BalanceSteps, StateSteps
<1>1. CASE Interrupt
  BY <1>1, FaultInterrupt
<1>2. CASE Boot
  BY <1>2
  DEF Boot, ImuInit, EnterMotorInit, MotorStart, BootInject, BootCheck, BootEnter, Booting
<1>3. CASE Links
  BY <1>3
  DEF Links, LoopTop, NetIdle, NetFrame, NetStop, NetAdmit, NetMerge, TickKeep,
      TickExpire, TickStore
<1>4. CASE Period
  BY <1>4
  DEF Period, PeriodNotDue, PeriodDue, ImuFault, ImuGood, GetRef, GetFlags, SafetyLatch,
      SafetyFault, SafetyGood, EstopCommanded, NoEstop, ClearStore, StaySafe, NotSafe,
      Abort, app_request_estop, EndPeriod
<1>5. CASE Direct
  BY <1>5
  DEF Direct, CopyDirect, TakeDirect, DirectMode, DirectEnable, DirectSpeed, StoreIdle,
      DirectStep, EndPeriod
<1>6. CASE Balance
  BY <1>6
  DEF Balance, BalanceGate, BalanceStep, ApplyMode, ApplyEnable, ApplyTorque, StoreState,
      DirectStep, EndPeriod
<1>7. CASE UNCHANGED vars
  BY <1>7 DEF vars
<1> QED
  BY <1>1, <1>2, <1>3, <1>4, <1>5, <1>6, <1>7 DEF Next, Loop

(***************************************************************************)
(* A latched fault keeps the app in FAULT_SAFE (safety_monitor.c,          *)
(* balance_period), for every set of fault bits.                           *)
(***************************************************************************)
THEOREM LatchedStaysSafe == Spec => []LatchedFaultIsSafe
<1>1. Init => FaultInv
  BY DEF Init, FaultInv, LatchedFaultIsSafe
<1>2. FaultInv => LatchedFaultIsSafe
  BY DEF FaultInv
<1> QED
  BY <1>1, <1>2, FaultNext, PTL DEF Spec

-----------------------------------------------------------------------------
(***************************************************************************)
(* Motors off.  Boot leaves them off; only an actuation turns them on, and *)
(* it is reached past a good sample of the IMU.                            *)
(***************************************************************************)
Sensed == (PeriodSteps \ {"imu"}) \cup Actuation

OffInv ==
  /\ pc \in BootSteps => MotorsOff
  /\ pc \in Sensed => imu_ok
  /\ FaultSafeMotorsOff
  /\ DeadImuNeverDrives

LEMMA EstopTurnsOff == motor_estop => MotorsOff'
BY DEF motor_estop, MotorsOff

LEMMA MotorInitStaysOff == MotorsOff /\ motor_init => MotorsOff'
BY DEF motor_init, MotorsOff

LEMMA MotorsFrame == UNCHANGED motors => MotorsOff' = MotorsOff
BY DEF motors, MotorsOff

LEMMA OffInterrupt == OffInv /\ Interrupt => OffInv'
<1> SUFFICES ASSUME OffInv, Interrupt PROVE OffInv'
  OBVIOUS
<1>1. pc' = pc /\ imu_ok' = imu_ok
  BY DEF Interrupt, ConsoleDrive, ConsoleDirect, ConsoleLqrLine, ConsoleBalmode,
         ConsoleEstopLine, ConsoleClearLine, UartFrame, InInterrupt, app, app_request_estop
<1>2. \/ UNCHANGED motors /\ (s_state' = s_state \/ s_state' = "IDLE")
      \/ motor_estop
  BY DEF Interrupt, ConsoleDrive, ConsoleDirect, ConsoleLqrLine, ConsoleBalmode,
         ConsoleEstopLine, ConsoleClearLine, UartFrame, app, app_request_estop,
         app_clear_fault
<1> QED
  BY <1>1, <1>2, EstopTurnsOff, MotorsFrame DEF OffInv, FaultSafeMotorsOff, DeadImuNeverDrives

LEMMA OffNext == OffInv /\ [Next]_vars => OffInv'
<1> SUFFICES ASSUME OffInv, [Next]_vars PROVE OffInv'
  OBVIOUS
<1> USE DEF OffInv, FaultSafeMotorsOff, DeadImuNeverDrives, Sensed, Goto, SameApp, app,
            Actuation, BootSteps, PeriodSteps, DirectSteps, BalanceSteps, StateSteps
<1>1. CASE Interrupt
  BY <1>1, OffInterrupt
<1>2. CASE Boot
  BY <1>2, MotorsFrame, MotorInitStaysOff
  DEF Boot, ImuInit, EnterMotorInit, MotorStart, BootInject, BootCheck, BootEnter, Booting
<1>3. CASE Links
  BY <1>3, MotorsFrame
  DEF Links, LoopTop, NetIdle, NetFrame, NetStop, NetAdmit, NetMerge, TickKeep,
      TickExpire, TickStore
<1>4. CASE Period
  <2>1. CASE ImuFault \/ SafetyFault \/ EstopCommanded
    BY <2>1, EstopTurnsOff
    DEF ImuFault, SafetyFault, EstopCommanded, Abort, app_request_estop, EndPeriod
  <2>2. CASE ~(ImuFault \/ SafetyFault \/ EstopCommanded)
    BY <1>4, <2>2, MotorsFrame
    DEF Period, PeriodNotDue, PeriodDue, ImuGood, GetRef, GetFlags, SafetyLatch,
        SafetyGood, NoEstop, ClearStore, StaySafe, NotSafe, EndPeriod
  <2> QED
    BY <2>1, <2>2
<1>5. CASE Direct
  BY <1>5
  DEF Direct, CopyDirect, TakeDirect, DirectMode, DirectEnable, DirectSpeed, StoreIdle,
      DirectStep, EndPeriod
<1>6. CASE Balance
  BY <1>6
  DEF Balance, BalanceGate, BalanceStep, ApplyMode, ApplyEnable, ApplyTorque, StoreState,
      DirectStep, EndPeriod
<1>7. CASE UNCHANGED vars
  BY <1>7, MotorsFrame DEF vars
<1> QED
  BY <1>1, <1>2, <1>3, <1>4, <1>5, <1>6, <1>7 DEF Next, Loop

LEMMA OffInvariant == Spec => []OffInv
<1>1. Init => OffInv
  BY DEF Init, MotorInit, MotorsOff, OffInv, Sensed, PeriodSteps, Actuation, DirectSteps,
         BalanceSteps, StateSteps, FaultSafeMotorsOff, DeadImuNeverDrives
<1> QED
  BY <1>1, OffNext, PTL DEF Spec

(***************************************************************************)
(* FAULT_SAFE means motors off, except while an actuation that a stop cut  *)
(* into runs out (app_request_estop, balance_period).                      *)
(***************************************************************************)
THEOREM FaultSafeIsOff == Spec => []FaultSafeMotorsOff
<1>1. OffInv => FaultSafeMotorsOff
  BY DEF OffInv
<1> QED
  BY <1>1, OffInvariant, PTL

(***************************************************************************)
(* With a dead IMU the motors never turn on, although boot overwrites the  *)
(* FAULT_SAFE that its failure stored (app_main).                          *)
(***************************************************************************)
THEOREM DeadImuStaysOff == Spec => []DeadImuNeverDrives
<1>1. OffInv => DeadImuNeverDrives
  BY DEF OffInv
<1> QED
  BY <1>1, OffInvariant, PTL

-----------------------------------------------------------------------------
(***************************************************************************)
(* Emergency stops.  Until a command replaces it, a stop is in the stored  *)
(* motion; from there the period that it is due in copies it, and does not *)
(* get past the test of the copy.                                          *)
(***************************************************************************)
StopInv ==
  /\ estop_req # "none" => s_motion.estop
  /\ estop_req = "due" => pc \notin BootSteps \cup {"clear", "check"} \cup Actuation
  /\ estop_req = "due" /\ pc \in {"safety", "safety_ret", "decide"} => mc.estop
  /\ EstopTakesEffect

(* Injection keeps what is asked for in the motion, and makes nothing due. *)
LEMMA StopInject ==
  ASSUME NEW cmd, Inject(cmd), estop_req # "none" => s_motion.estop
  PROVE  /\ estop_req' # "none" => s_motion'.estop
         /\ estop_req' = "due" => estop_req = "due"
<1>1. CASE cmd.estop
  BY <1>1 DEF Inject, cmd_arbiter_inject_motion, Admitted, Stopped
<1>2. CASE ~cmd.estop /\ Admitted(cmd)
  BY <1>2 DEF Inject
<1>3. CASE ~cmd.estop /\ ~Admitted(cmd)
  BY <1>3 DEF Inject, cmd_arbiter_inject_motion
<1> QED
  BY <1>1, <1>2, <1>3

(* A console's clear is always admitted: it replaces a stop. *)
LEMMA ClearInject ==
  ASSUME Inject(ConsoleClear(0))
  PROVE  estop_req' = "none" /\ s_motion'.clear_fault
<1>1. Admitted(ConsoleClear(0)) /\ ~ConsoleClear(0).estop /\ ConsoleClear(0).clear_fault
  BY DEF Admitted, Enabled, Outranks, ConsoleClear, Blank
<1> QED
  BY <1>1 DEF Inject, cmd_arbiter_inject_motion, Merged

LEMMA StopInterrupt == StopInv /\ Interrupt => StopInv'
<1> SUFFICES ASSUME StopInv, Interrupt PROVE StopInv'
  OBVIOUS
<1>1. pc' = pc /\ mc' = mc
  BY DEF Interrupt, ConsoleDrive, ConsoleDirect, ConsoleLqrLine, ConsoleBalmode,
         ConsoleEstopLine, ConsoleClearLine, UartFrame, InInterrupt, locals
<1>2. /\ estop_req' # "none" => s_motion'.estop
      /\ estop_req' = "due" => estop_req = "due"
  BY StopInject DEF StopInv, Interrupt, ConsoleDrive, ConsoleDirect, ConsoleLqrLine,
         ConsoleBalmode, ConsoleEstopLine, ConsoleClearLine, UartFrame
<1>3. \/ UNCHANGED motors /\ s_state' = s_state
      \/ motor_estop /\ s_state' = "FAULT_SAFE"
      \/ estop_req' = "none"
  BY ClearInject
  DEF Interrupt, ConsoleDrive, ConsoleDirect, ConsoleLqrLine, ConsoleBalmode,
         ConsoleEstopLine, ConsoleClearLine, UartFrame, app, app_request_estop
<1> QED
  BY <1>1, <1>2, <1>3, EstopTurnsOff, MotorsFrame DEF StopInv, EstopTakesEffect

LEMMA StopNext == TypeOK /\ StopInv /\ [Next]_vars => StopInv'
<1> SUFFICES ASSUME TypeOK, StopInv, [Next]_vars PROVE StopInv'
  OBVIOUS
<1>0. s_motion \in Motion /\ mc \in Motion
  BY DEF TypeOK, ArbiterTypeOK
<1> USE DEF StopInv, EstopTakesEffect, Goto, SameApp, SameInputs, app, arbiter, ghosts,
            locals, InPeriod, Actuation, BootSteps, PeriodSteps, DirectSteps, BalanceSteps,
            StateSteps
<1>1. CASE Interrupt
  BY <1>1, StopInterrupt
<1>2. CASE Boot
  BY <1>2, StopInject
  DEF Boot, ImuInit, EnterMotorInit, MotorStart, BootInject, BootCheck, BootEnter, Booting
<1>3. CASE Links
  <2>1. CASE LoopTop \/ NetIdle \/ NetFrame \/ NetAdmit \/ TickKeep \/ TickExpire
    BY <2>1, MotorsFrame DEF LoopTop, NetIdle, NetFrame, NetAdmit, TickKeep, TickExpire
  <2>2. CASE NetStop
    BY <2>2, StopInject, MotorsFrame DEF NetStop
  <2>3. CASE NetMerge
    BY <2>3, MotorsFrame DEF NetMerge
  <2>4. CASE TickStore
    <3>1. s_motion'.estop = s_motion.estop
      BY <1>0, <2>4 DEF TickStore, ZeroMotion, BrakeMotion, ReleaseMotion, Motion
    <3> QED
      BY <2>4, <3>1, MotorsFrame DEF TickStore
  <2> QED
    BY <1>3, <2>1, <2>2, <2>3, <2>4 DEF Links
<1>4. CASE Period
  <2>1. CASE ImuFault \/ SafetyFault \/ EstopCommanded
    BY <2>1, EstopTurnsOff
    DEF ImuFault, SafetyFault, EstopCommanded, Abort, app_request_estop, EndPeriod
  <2>2. CASE GetFlags
    <3>1. mc'.estop = s_motion.estop
      BY <1>0, <2>2 DEF GetFlags, Motion
    <3> QED
      BY <2>2, <3>1 DEF GetFlags
  <2>3. CASE PeriodNotDue \/ PeriodDue
    BY <2>3, MotorsFrame DEF PeriodNotDue, PeriodDue
  <2>4. CASE \/ ImuGood \/ GetRef \/ SafetyLatch \/ SafetyGood \/ NoEstop
             \/ ClearStore \/ StaySafe \/ NotSafe
    BY <2>4
    DEF ImuGood, GetRef, SafetyLatch, SafetyGood, NoEstop, ClearStore, StaySafe, NotSafe,
        EndPeriod
  <2> QED
    BY <1>4, <2>1, <2>2, <2>3, <2>4 DEF Period
<1>5. CASE Direct
  BY <1>5
  DEF Direct, CopyDirect, TakeDirect, DirectMode, DirectEnable, DirectSpeed, StoreIdle,
      DirectStep, EndPeriod
<1>6. CASE Balance
  BY <1>6
  DEF Balance, BalanceGate, BalanceStep, ApplyMode, ApplyEnable, ApplyTorque, StoreState,
      DirectStep, EndPeriod
<1>7. CASE UNCHANGED vars
  BY <1>7, MotorsFrame DEF vars
<1> QED
  BY <1>1, <1>2, <1>3, <1>4, <1>5, <1>6, <1>7 DEF Next, Loop

(***************************************************************************)
(* A stop in force when a period begins, and not replaced, has the robot   *)
(* in FAULT_SAFE with its motors off when the period ends, whatever was    *)
(* interrupted by what (balance_period, console.c "estop", ai_link.c).     *)
(***************************************************************************)
THEOREM EstopEndsSafe == Spec => []EstopTakesEffect
<1>1. Init => StopInv
  BY DEF Init, StopInv, EstopTakesEffect
<1>2. StopInv => EstopTakesEffect
  BY DEF StopInv
<1> QED
  BY <1>1, <1>2, StopNext, TypeCorrect, PTL DEF Spec

-----------------------------------------------------------------------------
(***************************************************************************)
(* Stops that cut into an actuation.  Such a stop is the only way for an   *)
(* actuation to find itself in FAULT_SAFE, and the only way for it not to  *)
(* complete what it claims.                                                *)
(***************************************************************************)
TorqueModes == \A w \in Wheels : m_mode[w] = "TORQUE"
Driven == \A w \in Wheels : m_mode[w] = "TORQUE" /\ m_en[w]

RaceInv ==
  /\ pc \in BootSteps => s_state \notin {"HOLD", "TRACKING"}
  /\ pc = "clear" => mc.clear_fault
  /\ pc \in Actuation /\ s_state = "FAULT_SAFE" => raced
  /\ pc = "enable" /\ ~raced => TorqueModes
  /\ pc \in {"tau_l", "tau_r", "state"} /\ ~raced => Driven
  /\ BalancingDrivesBothWheels

LEMMA RaceInterrupt == RaceInv /\ Interrupt => RaceInv'
<1> SUFFICES ASSUME RaceInv, Interrupt PROVE RaceInv'
  OBVIOUS
<1>1. pc' = pc /\ mc' = mc
  BY DEF Interrupt, ConsoleDrive, ConsoleDirect, ConsoleLqrLine, ConsoleBalmode,
         ConsoleEstopLine, ConsoleClearLine, UartFrame, InInterrupt, locals
<1>2. \/ UNCHANGED <<motors, s_state, raced>>
      \/ UNCHANGED <<motors, raced>> /\ s_state' = "IDLE"
      \/ s_state' = "FAULT_SAFE" /\ raced' = (raced \/ pc \in Actuation \cup {"clear"})
  BY DEF Interrupt, ConsoleDrive, ConsoleDirect, ConsoleLqrLine, ConsoleBalmode,
         ConsoleEstopLine, ConsoleClearLine, UartFrame, app, app_request_estop,
         app_clear_fault
<1> QED
  BY <1>1, <1>2
  DEF RaceInv, BalancingDrivesBothWheels, TorqueModes, Driven, motors, Actuation,
      DirectSteps, BalanceSteps, StateSteps

LEMMA RaceNext == RaceInv /\ [Next]_vars => RaceInv'
<1> SUFFICES ASSUME RaceInv, [Next]_vars PROVE RaceInv'
  OBVIOUS
<1> USE DEF RaceInv, BalancingDrivesBothWheels, TorqueModes, Driven, Goto, SameApp, app,
            ghosts, locals, motors, InPeriod, Actuation, BootSteps, PeriodSteps,
            DirectSteps, BalanceSteps, StateSteps
<1>1. CASE Interrupt
  BY <1>1, RaceInterrupt
<1>2. CASE Boot
  BY <1>2
  DEF Boot, ImuInit, EnterMotorInit, MotorStart, BootInject, BootCheck, BootEnter, Booting
<1>3. CASE Links
  BY <1>3
  DEF Links, LoopTop, NetIdle, NetFrame, NetStop, NetAdmit, NetMerge, TickKeep,
      TickExpire, TickStore
<1>4. CASE Period
  BY <1>4
  DEF Period, PeriodNotDue, PeriodDue, ImuFault, ImuGood, GetRef, GetFlags, SafetyLatch,
      SafetyFault, SafetyGood, EstopCommanded, NoEstop, ClearStore, StaySafe, NotSafe,
      Abort, app_request_estop, EndPeriod
<1>5. CASE Direct
  BY <1>5
  DEF Direct, CopyDirect, TakeDirect, DirectMode, DirectEnable, DirectSpeed, StoreIdle,
      DirectStep, EndPeriod
<1>6. CASE Balance
  <2>1. CASE BalanceGate \/ BalanceStep \/ StoreState
    BY <2>1 DEF BalanceGate, BalanceStep, StoreState, EndPeriod
  <2>2. CASE ApplyMode
    <3>1. TorqueModes'
      BY <2>2 DEF ApplyMode, SetMode, Set, Of
    <3> QED
      BY <2>2, <3>1 DEF ApplyMode, DirectStep
  <2>3. CASE ApplyEnable
    <3>1. m_mode' = m_mode /\ \A w \in Wheels : m_en'[w]
      BY <2>3 DEF ApplyEnable, Enable, Set, Of
    <3> QED
      BY <2>3, <3>1 DEF ApplyEnable, DirectStep
  <2>4. CASE ApplyTorque("L", "tau_l", "tau_r") \/ ApplyTorque("R", "tau_r", "state")
    BY <2>4 DEF ApplyTorque, DirectStep, motor_set_torque_nm
  <2> QED
    BY <1>6, <2>1, <2>2, <2>3, <2>4 DEF Balance
<1>7. CASE UNCHANGED vars
  BY <1>7 DEF vars
<1> QED
  BY <1>1, <1>2, <1>3, <1>4, <1>5, <1>6, <1>7 DEF Next, Loop

LEMMA RaceInvariant == Spec => []RaceInv
<1>1. Init => RaceInv
  BY DEF Init, RaceInv, BalancingDrivesBothWheels, Actuation, DirectSteps, BalanceSteps,
         StateSteps
<1> QED
  BY <1>1, RaceNext, PTL DEF Spec

(***************************************************************************)
(* A state that claims to balance has both wheels enabled in torque mode,  *)
(* whatever direct commands did to one of them before.                     *)
(***************************************************************************)
THEOREM BalancingDrives == Spec => []BalancingDrivesBothWheels
<1>1. RaceInv => BalancingDrivesBothWheels
  BY DEF RaceInv
<1> QED
  BY <1>1, RaceInvariant, PTL

(***************************************************************************)
(* Outside two stores of boot, FAULT_SAFE is left only for a clear command *)
(* or because a stop came between the period's test for it and its last    *)
(* store.                                                                  *)
(***************************************************************************)
THEOREM FaultIsLeftByClear == Spec => FaultLeftByClearOrRace
<1> DEFINE Left == s_state = "FAULT_SAFE" /\ s_state' # "FAULT_SAFE"
                     /\ pc \notin {"motor_state", "boot_enter"}
                     => mc.clear_fault \/ s_motion'.clear_fault \/ raced
<1>1. RaceInv /\ [Next]_vars => [Left]_vars
  <2> SUFFICES ASSUME RaceInv, Next,
                      s_state = "FAULT_SAFE", s_state' # "FAULT_SAFE",
                      pc \notin {"motor_state", "boot_enter"}
               PROVE  mc.clear_fault \/ s_motion'.clear_fault \/ raced
    OBVIOUS
  <2>1. CASE ConsoleClearLine
    BY <2>1, ClearInject DEF ConsoleClearLine
  <2>2. CASE ClearStore
    BY <2>2 DEF ClearStore, RaceInv
  <2>3. CASE StoreIdle \/ StoreState
    BY <2>3 DEF StoreIdle, StoreState, RaceInv, Actuation, StateSteps
  <2>4. CASE Boot
    BY <2>4 DEF Boot, ImuInit, EnterMotorInit, MotorStart, BootInject, BootCheck, BootEnter
  <2>5. CASE Interrupt /\ ~ConsoleClearLine
    BY <2>5 DEF Interrupt, ConsoleDrive, ConsoleDirect, ConsoleLqrLine, ConsoleBalmode,
                ConsoleEstopLine, UartFrame, app, app_request_estop
  <2>6. CASE Links
    BY <2>6 DEF Links, LoopTop, NetIdle, NetFrame, NetStop, NetAdmit, NetMerge, TickKeep,
                TickExpire, TickStore, SameApp, app
  <2>7. CASE Period /\ ~ClearStore
    BY <2>7 DEF Period, PeriodNotDue, PeriodDue, ImuFault, ImuGood, GetRef, GetFlags,
                SafetyLatch, SafetyFault, SafetyGood, EstopCommanded, NoEstop, StaySafe,
                NotSafe, Abort, app_request_estop, SameApp, app
  <2>8. CASE (Direct \/ Balance) /\ ~(StoreIdle \/ StoreState)
    BY <2>8 DEF Direct, CopyDirect, TakeDirect, DirectMode, DirectEnable, DirectSpeed,
                Balance, BalanceGate, BalanceStep, ApplyMode, ApplyEnable, ApplyTorque,
                DirectStep, SameApp, app
  <2> QED
    BY <2>1, <2>2, <2>3, <2>4, <2>5, <2>6, <2>7, <2>8 DEF Next, Loop
<1> QED
  BY <1>1, RaceInvariant, PTL DEF Spec, FaultLeftByClearOrRace

-----------------------------------------------------------------------------
(***************************************************************************)
(* The console's priority, when the AI box is on the UART: the loop then   *)
(* injects nothing after boot, and an interrupt injects in one step.       *)
(***************************************************************************)
NoNetSteps == pc \notin {"poll", "inject", "merge"}

LEMMA NoNetNext ==
  ASSUME AiPort = "uart"
  PROVE  NoNetSteps /\ [Next]_vars => NoNetSteps'
<1> SUFFICES ASSUME NoNetSteps, [Next]_vars PROVE NoNetSteps'
  OBVIOUS
<1> USE DEF NoNetSteps, Goto
<1>1. CASE Interrupt
  BY <1>1 DEF Interrupt, ConsoleDrive, ConsoleDirect, ConsoleLqrLine, ConsoleBalmode,
              ConsoleEstopLine, ConsoleClearLine, UartFrame, InInterrupt
<1>2. CASE Boot
  BY <1>2 DEF Boot, ImuInit, EnterMotorInit, MotorStart, BootInject, BootCheck, BootEnter
<1>3. CASE Links
  BY <1>3 DEF Links, LoopTop, NetIdle, NetFrame, NetStop, NetAdmit, NetMerge, TickKeep,
              TickExpire, TickStore
<1>4. CASE Period
  BY <1>4
  DEF Period, PeriodNotDue, PeriodDue, ImuFault, ImuGood, GetRef, GetFlags, SafetyLatch,
      SafetyFault, SafetyGood, EstopCommanded, NoEstop, ClearStore, StaySafe, NotSafe,
      Abort, EndPeriod
<1>5. CASE Direct \/ Balance
  BY <1>5
  DEF Direct, CopyDirect, TakeDirect, DirectMode, DirectEnable, DirectSpeed, StoreIdle,
      Balance, BalanceGate, BalanceStep, ApplyMode, ApplyEnable, ApplyTorque, StoreState,
      EndPeriod
<1>6. CASE UNCHANGED vars
  BY <1>6 DEF vars
<1> QED
  BY <1>1, <1>2, <1>3, <1>4, <1>5, <1>6 DEF Next, Loop

(* Only an emergency stop of the AI box takes over the console's motion. *)
LEMMA InjectKeepsConsole ==
  ASSUME s_motion.source = "CONSOLE", NEW cmd, Inject(cmd)
  PROVE  s_motion'.source = "AI" => s_motion'.estop
<1>1. CASE cmd.estop
  BY <1>1 DEF Inject, cmd_arbiter_inject_motion, Admitted, Stopped
<1>2. CASE Admitted(cmd)
  BY <1>2 DEF Inject, cmd_arbiter_inject_motion, Admitted, Outranks, prio, Merged
<1>3. CASE ~cmd.estop /\ ~Admitted(cmd)
  BY <1>3 DEF Inject, cmd_arbiter_inject_motion
<1> QED
  BY <1>1, <1>2, <1>3

(***************************************************************************)
(* With its frames handled in an interrupt the AI box never takes a motion *)
(* from the console, except by an emergency stop (prio, docs/PROTOCOL.md). *)
(***************************************************************************)
THEOREM ConsoleOutranksUart ==
  ASSUME AiPort = "uart"
  PROVE  Spec => ConsoleKeepsMotion
<1> DEFINE Kept == s_motion.source = "CONSOLE" /\ s_motion'.source = "AI"
                     => s_motion.estop \/ s_motion'.estop
<1>1. TypeOK /\ NoNetSteps /\ [Next]_vars => [Kept]_vars
  <2> SUFFICES ASSUME TypeOK, NoNetSteps, Next,
                      s_motion.source = "CONSOLE", s_motion'.source = "AI"
               PROVE  s_motion'.estop
    OBVIOUS
  <2>1. s_motion \in Motion
    BY DEF TypeOK, ArbiterTypeOK
  <2>2. CASE Interrupt \/ Boot
    BY <2>2, InjectKeepsConsole
    DEF Interrupt, ConsoleDrive, ConsoleDirect, ConsoleLqrLine, ConsoleBalmode,
        ConsoleEstopLine, ConsoleClearLine, UartFrame,
        Boot, ImuInit, EnterMotorInit, MotorStart, BootInject, BootCheck, BootEnter, arbiter
  <2>3. CASE TickStore
    BY <2>1, <2>3 DEF TickStore, ZeroMotion, BrakeMotion, ReleaseMotion, Motion
  <2>4. CASE Links /\ ~TickStore
    BY <2>4 DEF Links, LoopTop, NetIdle, NetFrame, NetStop, NetAdmit, NetMerge, TickKeep,
                TickExpire, SameInputs, arbiter, NoNetSteps
  <2>5. CASE Period
    BY <2>5
    DEF Period, PeriodNotDue, PeriodDue, ImuFault, ImuGood, GetRef, GetFlags, SafetyLatch,
        SafetyFault, SafetyGood, EstopCommanded, NoEstop, ClearStore, StaySafe, NotSafe,
        Abort, SameInputs, arbiter
  <2>6. CASE Direct \/ Balance
    BY <2>6
    DEF Direct, CopyDirect, TakeDirect, DirectMode, DirectEnable, DirectSpeed, StoreIdle,
        Balance, BalanceGate, BalanceStep, ApplyMode, ApplyEnable, ApplyTorque, StoreState,
        DirectStep, SameInputs, arbiter
  <2> QED
    BY <2>2, <2>3, <2>4, <2>5, <2>6 DEF Next, Loop
<1>2. Spec => []NoNetSteps
  <2>1. Init => NoNetSteps
    BY DEF Init, NoNetSteps
  <2> QED
    BY <2>1, NoNetNext, PTL DEF Spec
<1> QED
  BY <1>1, <1>2, TypeCorrect, PTL DEF Spec, ConsoleKeepsMotion

-----------------------------------------------------------------------------
(***************************************************************************)
(* Who owns the motion, when the AI box is on the UART.                    *)
(***************************************************************************)
(* A step of the loop that stays out of an expiry, or no step of the loop. *)
Aside == pc' = pc \/ (pc \notin Expiring /\ pc' \notin Expiring)

LEMMA AsideStutters ==
  ASSUME Aside, s_motion' = s_motion, torn' = torn
  PROVE  UNCHANGED Owner!vars
BY DEF Aside, Owner!vars, Expiry

(* An injection is a Take, a Stop, or nothing. *)
LEMMA InjectOwns ==
  ASSUME s_motion \in Motion, NEW cmd \in Command, cmd.source # "NONE",
         cmd.estop => cmd.source # "RC", Inject(cmd), Aside
  PROVE  [Owner!Next]_Owner!vars
<1>0. s_motion \in Motion /\ cmd.source \in {"CONSOLE", "AI", "RC"}
  BY DEF Command, Sources
<1>1. CASE ~cmd.estop /\ ~Admitted(cmd) /\ s_motion' = s_motion
  BY <1>1, AsideStutters DEF Inject
<1>2. ASSUME cmd.estop \/ Admitted(cmd), s_motion'.source = cmd.source
      PROVE  Owner!Store(cmd.source)
  <2>1. Expiry(pc, torn)' = IF pc \in Expiring THEN "torn" ELSE "none"
    BY <1>2 DEF Inject, Expiry, Aside
  <2> QED
    BY <1>2, <2>1 DEF Owner!Store, Expiry
<1>3. CASE /\ cmd.estop /\ s_motion'.source = cmd.source
           /\ Robot(s_motion') = "stopped"
  BY <1>0, <1>2, <1>3 DEF Owner!Stop, Owner!Next
<1>4. CASE /\ Admitted(cmd) /\ s_motion'.source = cmd.source
           /\ Robot(s_motion') \in {"free", "held"}
           /\ s_motion.source = "CONSOLE" => cmd.source = "CONSOLE"
           /\ s_motion.source = "AI" => cmd.source # "RC"
  <2>1. s_motion.source \in Owner!Yields[cmd.source]
    BY <1>0, <1>4 DEF Owner!Yields, Motion, Sources
  <2> QED
    BY <1>0, <1>2, <1>4, <2>1 DEF Owner!Take, Owner!Next
<1> QED
  BY <1>0, <1>1, <1>3, <1>4, InjectOwner DEF Inject

(* What a step does to the motion: an injection, a step of cmd_arbiter_tick, *)
(* or nothing.                                                               *)
LEMMA MotionSteps ==
  ASSUME NoNetSteps, s_motion \in Motion, [Next]_vars
  PROVE  \/ \E cmd \in Command :
              Inject(cmd) /\ cmd.source \in {"CONSOLE", "AI"} /\ Aside
         \/ TickExpire
         \/ TickStore
         \/ s_motion' = s_motion /\ torn' = torn /\ Aside
<1> DEFINE Injects == \E cmd \in Command :
                        Inject(cmd) /\ cmd.source \in {"CONSOLE", "AI"} /\ Aside
<1> USE DEF Goto
<1>0. ASSUME NEW cmd, Inject(cmd), Aside, cmd.source \in {"CONSOLE", "AI"}, cmd \in Command
      PROVE  Injects
  BY <1>0
<1>1. CASE Interrupt
  <2>0. Aside
    BY <1>1 DEF Interrupt, ConsoleDrive, ConsoleDirect, ConsoleLqrLine, ConsoleBalmode,
                ConsoleEstopLine, ConsoleClearLine, UartFrame, InInterrupt, Aside
  <2>1. CASE ConsoleDrive
    <3>1. PICK cmd \in ConsoleDrives(0) \cup {ConsoleMotion(Zero, TRUE, 0)} : Inject(cmd)
      BY <2>1 DEF ConsoleDrive
    <3>2. cmd \in Command /\ cmd.source = "CONSOLE"
      BY InjectedCommands, CommandSources
    <3> QED
      BY <1>0, <2>0, <3>1, <3>2
  <2>2. CASE ConsoleDirect \/ ConsoleLqrLine \/ ConsoleBalmode
    <3>1. PICK on \in BOOLEAN : Inject(ConsoleLqr(on, 0))
      <4>1. \A mode : (mode # "OFF") \in BOOLEAN
        OBVIOUS
      <4> QED
        BY <2>2, <4>1 DEF ConsoleDirect, ConsoleLqrLine, ConsoleBalmode
    <3>2. ConsoleLqr(on, 0) \in Command /\ ConsoleLqr(on, 0).source = "CONSOLE"
      BY InjectedCommands, CommandSources
    <3> QED
      BY <1>0, <2>0, <3>1, <3>2
  <2>3. CASE ConsoleEstopLine
    <3>1. ConsoleEstop(0) \in Command /\ ConsoleEstop(0).source = "CONSOLE"
      BY InjectedCommands, CommandSources
    <3> QED
      BY <1>0, <2>0, <2>3, <3>1 DEF ConsoleEstopLine
  <2>4. CASE ConsoleClearLine
    <3>1. ConsoleClear(0) \in Command /\ ConsoleClear(0).source = "CONSOLE"
      BY InjectedCommands, CommandSources
    <3> QED
      BY <1>0, <2>0, <2>4, <3>1 DEF ConsoleClearLine
  <2>5. CASE UartFrame
    <3>1. PICK cmd \in AiCommands(s_motion, 0) : Inject(cmd)
      BY <2>5 DEF UartFrame
    <3>2. cmd \in Command /\ cmd.source = "AI"
      BY InjectedCommands, CommandSources
    <3> QED
      BY <1>0, <2>0, <3>1, <3>2
  <2> QED
    BY <1>1, <2>1, <2>2, <2>3, <2>4, <2>5 DEF Interrupt
<1>2. CASE BootInject
  <2>1. BootCommand(0) \in Command /\ BootCommand(0).source = "CONSOLE"
    BY InjectedCommands, CommandSources
  <2>2. Aside
    BY <1>2 DEF BootInject, Aside, Expiring
  <2> QED
    BY <1>0, <1>2, <2>1, <2>2 DEF BootInject
<1>3. CASE Boot /\ ~BootInject
  BY <1>3
  DEF Boot, ImuInit, EnterMotorInit, MotorStart, BootCheck, BootEnter, Booting, arbiter, ghosts, Aside,
      Expiring
<1>4. CASE Links /\ ~TickStore /\ ~TickExpire
  BY <1>4 DEF Links, LoopTop, NetIdle, NetFrame, NetStop, NetAdmit, NetMerge, TickKeep,
              SameInputs, arbiter, ghosts, NoNetSteps, Aside, Expiring
<1>5. CASE Period
  BY <1>5
  DEF Period, PeriodNotDue, PeriodDue, ImuFault, ImuGood, GetRef, GetFlags, SafetyLatch,
      SafetyFault, SafetyGood, EstopCommanded, NoEstop, ClearStore, StaySafe, NotSafe,
      Abort, EndPeriod, SameInputs, arbiter, ghosts, Aside, Expiring
<1>6. CASE Direct \/ Balance
  BY <1>6
  DEF Direct, CopyDirect, TakeDirect, DirectMode, DirectEnable, DirectSpeed, StoreIdle,
      Balance, BalanceGate, BalanceStep, ApplyMode, ApplyEnable, ApplyTorque, StoreState,
      DirectStep, EndPeriod, SameInputs, arbiter, ghosts, Aside, Expiring
<1>7. CASE UNCHANGED vars
  BY <1>7 DEF vars, arbiter, ghosts, Aside
<1> QED
  BY <1>1, <1>2, <1>3, <1>4, <1>5, <1>6, <1>7 DEF Next, Loop

(* An emergency stop in force is held, and so is a motion whose expiry no   *)
(* command has torn, once both its stores are done.                         *)
OwnerInv ==
  /\ s_motion \in Motion
  /\ NoNetSteps
  /\ s_motion.estop => Held(s_motion)
  /\ pc = "brake" /\ ~torn => s_motion.ref = Zero
  /\ pc = "release" /\ ~torn => Held(s_motion)

LEMMA NextOwner ==
  ASSUME AiPort = "uart", OwnerInv, s_motion' \in Motion, [Next]_vars
  PROVE  OwnerInv' /\ [Owner!Next]_Owner!vars
<1> DEFINE Rests == /\ s_motion.estop => Held(s_motion)
                    /\ pc = "brake" /\ ~torn => s_motion.ref = Zero
                    /\ pc = "release" /\ ~torn => Held(s_motion)
<1>0. s_motion \in Motion /\ Rests /\ NoNetSteps'
  BY NoNetNext DEF OwnerInv
<1> SUFFICES Rests' /\ [Owner!Next]_Owner!vars
  BY <1>0 DEF OwnerInv
<1> USE DEF Goto
<1>1. ASSUME NEW cmd \in Command, Inject(cmd), cmd.source \in {"CONSOLE", "AI"}, Aside
      PROVE  Rests' /\ [Owner!Next]_Owner!vars
  <2>1. s_motion'.estop => Held(s_motion')
    BY <1>0, <1>1, InjectOwner DEF Inject, Robot, Held
  <2>2. \/ s_motion' = s_motion /\ torn' = torn
        \/ torn' = (pc \in Expiring)
    BY <1>1 DEF Inject, cmd_arbiter_inject_motion
  <2>3. pc' \in Expiring => pc' = pc
    BY <1>1 DEF Aside
  <2>4. Rests'
    BY <1>0, <2>1, <2>2, <2>3 DEF Expiring, Held
  <2> QED
    BY <1>0, <1>1, <2>4, InjectOwns
<1>2. CASE TickExpire
  <2>1. s_motion.source \in Remote /\ s_motion' = s_motion
    BY <1>2 DEF TickExpire, Expired, Remote, SameInputs, arbiter
  <2>2. Expiry(pc, torn) = "none" /\ Expiry(pc, torn)' = "due" /\ pc' = "zero"
    BY <1>2 DEF TickExpire, Expiry, Expiring
  <2>3. Owner!Notice
    BY <2>1, <2>2 DEF Owner!Notice, Owner!Remote, Remote
  <2>4. Rests'
    BY <1>0, <2>1, <2>2 DEF Held
  <2> QED
    BY <2>3, <2>4 DEF Owner!Next
<1>3. CASE TickStore
  <2>0. torn' = torn
    BY <1>3 DEF TickStore, ghosts
  <2>1. CASE \/ pc = "zero" /\ ZeroMotion /\ pc' = "brake"
             \/ pc = "brake" /\ BrakeMotion /\ pc' = "release"
    <3>1. Expiry(pc, torn)' = Expiry(pc, torn) /\ Expiry(pc, torn) # "none"
      BY <2>0, <2>1 DEF Expiry, Expiring
    <3>2. /\ s_motion'.source = s_motion.source
          /\ s_motion'.estop => Held(s_motion')
          /\ \/ Robot(s_motion') = Robot(s_motion)
             \/ Robot(s_motion) = "free" /\ Robot(s_motion') = "held"
      BY <1>0, <2>1, StoreOwner
    <3>3. Owner!Settle \/ UNCHANGED Owner!vars
      BY <3>1, <3>2 DEF Owner!Settle, Owner!vars, Robot
    <3>4. Rests'
      BY <1>0, <2>0, <2>1, <3>2, StoreOwner DEF Held
    <3> QED
      BY <3>3, <3>4 DEF Owner!Next
  <2>2. CASE pc = "release" /\ ReleaseMotion /\ pc' = "period"
    <3>1. /\ Expiry(pc, torn) # "none" /\ Expiry(pc, torn)' = "none"
          /\ Expiry(pc, torn) = "due" => Robot(s_motion) # "free"
      BY <1>0, <2>2 DEF Expiry, Expiring, Robot
    <3>2. /\ s_motion'.source = "NONE"
          /\ s_motion'.estop => Held(s_motion')
          /\ Robot(s_motion') = Robot(s_motion)
      BY <1>0, <2>2, StoreOwner
    <3>3. Owner!Release
      BY <3>1, <3>2 DEF Owner!Release
    <3> QED
      BY <2>2, <3>2, <3>3 DEF Owner!Next
  <2> QED
    BY <1>3, <2>1, <2>2 DEF TickStore
<1>4. CASE s_motion' = s_motion /\ torn' = torn /\ Aside
  <2>1. Rests'
    BY <1>0, <1>4 DEF Aside, Expiring, Held
  <2> QED
    BY <1>4, <2>1, AsideStutters
<1> QED
  BY <1>0, <1>1, <1>2, <1>3, <1>4, MotionSteps DEF OwnerInv

LEMMA InitOwner == Init => NoNetSteps /\ ~s_motion.estop /\ pc \notin Expiring /\ Owner!Init
BY DEF Init, cmd_arbiter_init, NoNetSteps, Owner!Init, Robot, Held, Expiry, Expiring

(***************************************************************************)
(* The application implements the ownership of the motion, when the AI     *)
(* box's frames are handled in an interrupt: nothing the loop does around  *)
(* the arbiter takes the motion from its owner, frees a held robot or      *)
(* keeps a silent remote source in charge.                                 *)
(***************************************************************************)
THEOREM UartImplementsMotionOwner ==
  ASSUME AiPort = "uart"
  PROVE  Spec => IsMotionOwner
<1>1. TypeOK => s_motion \in Motion
  BY DEF TypeOK, ArbiterTypeOK
<1>2. (TypeOK => s_motion \in Motion)'
  BY <1>1, PTL
<1>3. Init => OwnerInv /\ Owner!Init
  BY <1>1, InitTypes, InitOwner DEF OwnerInv, Expiring
<1>4. TypeOK' /\ OwnerInv /\ [Next]_vars => OwnerInv' /\ [Owner!Next]_Owner!vars
  BY <1>2, NextOwner
<1> QED
  BY <1>3, <1>4, TypeCorrect, PTL DEF Spec, IsMotionOwner, Owner!Spec
=============================================================================
