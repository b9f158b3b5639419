------------------------------ MODULE AppLoop -------------------------------
(***************************************************************************)
(* app_main: boot, then the endless loop that polls the links, expires the *)
(* remote command and runs one balance period; with the receive interrupts *)
(* of the console and of the AI link, which run to completion between any  *)
(* two steps of it and call into the same arbiter, motors and app state.   *)
(*                                                                         *)
(* A step of the loop ends where an interrupt can change what the next one *)
(* reads or what the last one wrote.  Time is abstracted: whether the      *)
(* remote owner's deadline has passed (all stamps are 0 and the tick is    *)
(* tried with every clock value) and whether a balance period is due are   *)
(* free choices; CmdTimeout has the clock.                                 *)
(***************************************************************************)
EXTENDS CmdSources, MotorIface, DirectSlot

CONSTANTS
  AiPort,           \* which link carries the AI box's frames: "uart" or "net"
  ActiveModes,      \* balance modes other than OFF
  Faults            \* bits safety_update can latch

ASSUME PortAssumption == AiPort \in {"uart", "net"}
ASSUME ModesAssumption == "LQR" \in ActiveModes /\ "OFF" \notin ActiveModes
ASSUME DirectAssumption ==
  DirectCmds \subseteq [act : {"mode", "speed", "pos"}, side : Wheels \cup {"BOTH"},
                        mode : MotorModes, nonzero : BOOLEAN]

VARIABLES
  s_state,          \* app_main.c: s_state
  s_fault,          \* safety_monitor.c: s_fault, as a set of bits
  imu_ok,           \* imu.c: s_ok
  b_mode,           \* balance_ctrl.c: s_mode
  pc,               \* where app_main is
  mc,               \* balance_period: the copy of the motion command
  dc,               \* balance_period: the copy of the direct slot
  tau,              \* balance_period: out holds a nonzero torque
  frame,            \* handle_frame in the net link: the command and prev_lqr
  estop_req,        \* ghost: how far an emergency stop has been served
  raced,            \* ghost: an interrupt's stop fell into an actuation
  torn              \* ghost: a command was stored during the last expiry

app == <<s_state, s_fault, imu_ok, b_mode>>
locals == <<mc, dc, tau, frame>>
ghosts == <<estop_req, raced, torn>>
vars == <<arbiter, motors, s_direct, app, pc, locals, ghosts>>

AppStates == {"BOOT", "IMU_INIT", "MOTOR_INIT", "IDLE", "BALANCING", "TRACKING",
              "HOLD", "FAULT_SAFE"}

BootSteps == {"imu_init", "motor_state", "motor_init", "boot_inject", "boot_check",
              "boot_enter"}
LinkSteps == {"poll", "inject", "merge", "tick", "zero", "brake", "release"}
PeriodSteps == {"imu", "get_ref", "get_flags", "safety", "safety_ret", "decide",
                "clear", "check"}
DirectSteps == {"direct", "take", "d_mode", "d_enable", "d_speed"}
BalanceSteps == {"gate", "step", "mode", "enable", "tau_l", "tau_r"}
StateSteps == {"idle", "state"}

(* Between the test for FAULT_SAFE and the last store of the period. *)
Actuation == DirectSteps \cup BalanceSteps \cup StateSteps
InPeriod == PeriodSteps \cup Actuation

(* The locals of a period that is not running. *)
NoMotion == [ref |-> Zero, brake |-> FALSE, lqr_enable |-> FALSE, estop |-> FALSE,
             clear_fault |-> FALSE, source |-> "NONE"]
NoSlot == [active |-> FALSE, cmd |-> NoDirect]
NoFrame == [cmd |-> Blank("AI", 0), prev_lqr |-> FALSE]

TypeOK ==
  /\ ArbiterTypeOK
  /\ MotorTypeOK
  /\ DirectTypeOK
  /\ s_state \in AppStates
  /\ s_fault \subseteq Faults
  /\ imu_ok \in BOOLEAN
  /\ b_mode \in ActiveModes \cup {"OFF"}
  /\ pc \in BootSteps \cup {"top", "period"} \cup LinkSteps \cup InPeriod
  /\ mc \in Motion
  /\ dc \in [active : BOOLEAN, cmd : DirectCmds \cup {NoDirect}]
  /\ tau \in BOOLEAN
  /\ frame \in [cmd : Command, prev_lqr : BOOLEAN]
  /\ estop_req \in {"none", "asked", "due"}
  /\ raced \in BOOLEAN
  /\ torn \in BOOLEAN

(* app_main after its inits, at the first line that can fail. *)
Init ==
  /\ cmd_arbiter_init
  /\ MotorInit
  /\ DirectInit
  /\ s_state = "IMU_INIT"
  /\ s_fault = {}
  /\ imu_ok = FALSE
  /\ b_mode = "LQR"
  /\ pc = "imu_init"
  /\ mc = NoMotion
  /\ dc = NoSlot
  /\ tau = FALSE
  /\ frame = NoFrame
  /\ estop_req = "none"
  /\ raced = FALSE
  /\ torn = FALSE

-----------------------------------------------------------------------------
(* The loop goes on at step s. *)
Goto(s) == pc' = s

(* A step that changes only control and what it names itself. *)
SameInputs == UNCHANGED <<arbiter, s_direct>>
SameApp == UNCHANGED <<motors, app>>

(* app_request_estop, called by the loop as one step: an interrupt between *)
(* its stores can only stop the same motors or clear before the fault.     *)
app_request_estop ==
  /\ motor_estop
  /\ s_state' = "FAULT_SAFE"
  /\ UNCHANGED <<s_fault, imu_ok, b_mode>>

(* A slip: the state is cleared and the latched bits are not. *)
ClearStateOnly ==
  /\ s_state' = IF s_state = "FAULT_SAFE" THEN "IDLE" ELSE s_state
  /\ UNCHANGED s_fault

app_clear_fault ==
  \/ /\ s_state = "FAULT_SAFE"
     /\ s_fault' = {}
     /\ s_state' = "IDLE"
  \/ /\ s_state # "FAULT_SAFE"
     /\ UNCHANGED <<s_fault, s_state>>

(* Inject cmd; an estop stays asked for until an admitted command replaces it. *)
Inject(cmd) ==
  /\ cmd_arbiter_inject_motion(cmd)
  /\ estop_req' = CASE cmd.estop -> IF estop_req = "due" THEN "due" ELSE "asked"
                    [] Admitted(cmd) -> "none"
                    [] OTHER -> estop_req
  /\ torn' = IF cmd.estop \/ Admitted(cmd) THEN pc \in Expiring ELSE torn

-----------------------------------------------------------------------------
(* Receive interrupts.  One console line, or one AI frame, is one step. *)
InInterrupt == UNCHANGED <<pc, locals>>

(* fwd, back, left, right, turn; and brake. *)
ConsoleDrive ==
  /\ InInterrupt
  /\ \E cmd \in ConsoleDrives(0) \cup {ConsoleMotion(Zero, TRUE, 0)} : Inject(cmd)
  /\ UNCHANGED <<motors, s_direct, app, raced>>

(* mode, speed, posset: balancing off, and a direct command for the wheels. *)
ConsoleDirect ==
  /\ InInterrupt
  /\ Inject(ConsoleLqr(FALSE, 0))
  /\ \E cmd \in DirectCmds : cmd_arbiter_inject_direct(cmd)
  /\ UNCHANGED <<motors, app, raced>>

(* lqr on|off: "on" also leaves the balance mode OFF. *)
ConsoleLqrLine ==
  /\ InInterrupt
  /\ \E on \in BOOLEAN :
       /\ b_mode' = IF on /\ b_mode = "OFF" THEN "LQR" ELSE b_mode
       /\ Inject(ConsoleLqr(on, 0))
  /\ UNCHANGED <<motors, s_direct, s_state, s_fault, imu_ok, raced>>

(* balmode lqr|pid|off *)
ConsoleBalmode ==
  /\ InInterrupt
  /\ \E mode \in ActiveModes \cup {"OFF"} :
       /\ b_mode' = mode
       /\ Inject(ConsoleLqr(mode # "OFF", 0))
  /\ UNCHANGED <<motors, s_direct, s_state, s_fault, imu_ok, raced>>

ConsoleEstopLine ==
  /\ InInterrupt
  /\ Inject(ConsoleEstop(0))
  /\ app_request_estop
  /\ raced' = (raced \/ pc \in Actuation \cup {"clear"})
  /\ UNCHANGED s_direct

ConsoleClearLine ==
  /\ InInterrupt
  /\ Inject(ConsoleClear(0))
  /\ app_clear_fault
  /\ UNCHANGED <<motors, s_direct, imu_ok, b_mode, raced>>

UartFrame ==
  /\ AiPort = "uart"
  /\ InInterrupt
  /\ \E cmd \in AiCommands(s_motion, 0) : Inject(cmd)
  /\ UNCHANGED <<motors, s_direct, app, raced>>

-----------------------------------------------------------------------------
(* Boot. *)
Booting == UNCHANGED <<motors, s_direct, locals, s_fault, b_mode, raced>>

ImuInit ==
  /\ pc = "imu_init"
  /\ Goto("motor_state")
  /\ imu_ok' \in BOOLEAN
  /\ s_state' = IF imu_ok' THEN s_state ELSE "FAULT_SAFE"
  /\ Booting
  /\ UNCHANGED <<arbiter, estop_req, torn>>

EnterMotorInit ==
  /\ pc = "motor_state"
  /\ Goto("motor_init")
  /\ s_state' = "MOTOR_INIT"
  /\ Booting
  /\ UNCHANGED <<arbiter, imu_ok, estop_req, torn>>

MotorStart ==
  /\ pc = "motor_init"
  /\ Goto("boot_inject")
  /\ motor_init
  /\ \E ok \in BOOLEAN : s_state' = IF ok THEN s_state ELSE "FAULT_SAFE"
  /\ UNCHANGED <<arbiter, s_direct, locals, s_fault, imu_ok, b_mode, ghosts>>

BootInject ==
  /\ pc = "boot_inject"
  /\ Goto("boot_check")
  /\ Inject(BootCommand(0))
  /\ Booting
  /\ UNCHANGED <<s_state, imu_ok>>

BootCheck ==
  /\ pc = "boot_check"
  /\ Goto(IF s_state = "FAULT_SAFE" THEN "top" ELSE "boot_enter")
  /\ Booting
  /\ UNCHANGED <<arbiter, s_state, imu_ok, estop_req, torn>>

(* app_enter_balancing; the balance_cmd_t it also stores is stored again by *)
(* every period before it is read.                                          *)
BootEnter ==
  /\ pc = "boot_enter"
  /\ Goto("top")
  /\ s_state' = IF BalanceOnBoot THEN "BALANCING" ELSE "IDLE"
  /\ Booting
  /\ UNCHANGED <<arbiter, imu_ok, estop_req, torn>>

-----------------------------------------------------------------------------
(* One iteration of the loop up to the balance period. *)
LoopTop ==
  /\ pc = "top"
  /\ Goto(IF AiPort = "net" THEN "poll" ELSE "tick")
  /\ SameInputs /\ SameApp
  /\ UNCHANGED <<locals, ghosts>>

(* net_port_poll, with no frame or with one; handle_frame fills in the command. *)
NetIdle ==
  /\ pc = "poll"
  /\ Goto("tick")
  /\ SameInputs /\ SameApp
  /\ UNCHANGED <<locals, ghosts>>

NetFrame ==
  /\ pc = "poll"
  /\ Goto("inject")
  /\ \E cmd \in AiCommands(s_motion, 0) : frame' = [NoFrame EXCEPT !.cmd = cmd]
  /\ SameInputs /\ SameApp
  /\ UNCHANGED <<mc, dc, tau, ghosts>>

(* cmd_arbiter_inject_motion in the loop: an estop is stored, a command that *)
(* fails the tests is dropped, and one that passes them is stored later.     *)
NetStop ==
  /\ pc = "inject"
  /\ ~Admitted(frame.cmd)
  /\ Goto("tick")
  /\ Inject(frame.cmd)
  /\ frame' = NoFrame
  /\ SameApp
  /\ UNCHANGED <<s_direct, mc, dc, tau, raced>>

NetAdmit ==
  /\ pc = "inject"
  /\ Admitted(frame.cmd)
  /\ Goto("merge")
  /\ frame' = [frame EXCEPT !.prev_lqr = s_motion.lqr_enable]
  /\ SameInputs /\ SameApp
  /\ UNCHANGED <<mc, dc, tau, ghosts>>

NetMerge ==
  /\ pc = "merge"
  /\ Goto("tick")
  /\ s_motion' = Merged(frame.cmd, frame.prev_lqr)
  /\ StampSources(frame.cmd)
  /\ estop_req' = "none"
  /\ torn' = FALSE
  /\ frame' = NoFrame
  /\ SameApp
  /\ UNCHANGED <<enables, s_direct, mc, dc, tau, raced>>

(* cmd_arbiter_tick *)
TickKeep ==
  /\ pc = "tick"
  /\ \E t \in Ticks : ~Expired(t)
  /\ Goto("period")
  /\ SameInputs /\ SameApp
  /\ UNCHANGED <<locals, ghosts>>

TickExpire ==
  /\ pc = "tick"
  /\ \E t \in Ticks : Expired(t)
  /\ Goto("zero")
  /\ torn' = FALSE
  /\ SameInputs /\ SameApp
  /\ UNCHANGED <<locals, estop_req, raced>>

TickStore ==
  /\ \/ pc = "zero" /\ ZeroMotion /\ Goto("brake")
     \/ pc = "brake" /\ BrakeMotion /\ Goto("release")
     \/ pc = "release" /\ ReleaseMotion /\ Goto("period")
  /\ SameApp
  /\ UNCHANGED <<enables, stamps, s_direct, locals, ghosts>>

-----------------------------------------------------------------------------
(* balance_period, up to the test for FAULT_SAFE. *)
PeriodNotDue ==
  /\ pc = "period"
  /\ Goto("top")
  /\ SameInputs /\ SameApp
  /\ UNCHANGED <<locals, ghosts>>

PeriodDue ==
  /\ pc = "period"
  /\ Goto("imu")
  /\ estop_req' = IF estop_req = "asked" THEN "due" ELSE estop_req
  /\ raced' = FALSE
  /\ SameInputs /\ SameApp
  /\ UNCHANGED <<locals, torn>>

(* The period ends; its locals go out of scope. *)
EndPeriod ==
  /\ Goto("top")
  /\ mc' = NoMotion
  /\ dc' = NoSlot
  /\ tau' = FALSE
  /\ UNCHANGED frame

Abort == app_request_estop /\ EndPeriod /\ SameInputs /\ UNCHANGED ghosts

(* imu_update fails, or the robot has tilted too far. *)
ImuFault == pc = "imu" /\ Abort

(* A slip: the result of imu_update is not tested. *)
ImuUntested ==
  /\ pc = "imu"
  /\ Goto("get_ref")
  /\ SameInputs /\ SameApp
  /\ UNCHANGED <<locals, ghosts>>

ImuGood ==
  /\ pc = "imu"
  /\ imu_ok
  /\ Goto("get_ref")
  /\ SameInputs /\ SameApp
  /\ UNCHANGED <<locals, ghosts>>

(* cmd_arbiter_get_motion: the copy is not atomic.  Its source is not read. *)
GetRef ==
  /\ pc = "get_ref"
  /\ Goto("get_flags")
  /\ mc' = [mc EXCEPT !.ref = s_motion.ref]
  /\ SameInputs /\ SameApp
  /\ UNCHANGED <<dc, tau, frame, ghosts>>

GetFlags ==
  /\ pc = "get_flags"
  /\ Goto("safety")
  /\ mc' = [s_motion EXCEPT !.ref = mc.ref, !.source = "NONE"]
  /\ SameInputs /\ SameApp
  /\ UNCHANGED <<dc, tau, frame, ghosts>>

(* safety_update latches what it finds, and returns what is latched then. *)
SafetyLatch ==
  /\ pc = "safety"
  /\ Goto("safety_ret")
  /\ \E tripped \in SUBSET Faults : s_fault' = s_fault \cup tripped
  /\ SameInputs
  /\ UNCHANGED <<motors, s_state, imu_ok, b_mode, locals, ghosts>>

SafetyFault == pc = "safety_ret" /\ s_fault # {} /\ Abort

SafetyGood ==
  /\ pc = "safety_ret"
  /\ s_fault = {}
  /\ Goto("decide")
  /\ SameInputs /\ SameApp
  /\ UNCHANGED <<locals, ghosts>>

(* A slip: the period is skipped and nothing is stopped. *)
EstopSkipsPeriod ==
  /\ pc = "decide"
  /\ mc.estop
  /\ EndPeriod
  /\ SameInputs /\ SameApp
  /\ UNCHANGED ghosts

EstopCommanded == pc = "decide" /\ mc.estop /\ Abort

(* app_clear_fault, in the loop: the test here, the stores in ClearStore. *)
NoEstop ==
  /\ pc = "decide"
  /\ ~mc.estop
  /\ Goto(IF mc.clear_fault /\ s_state = "FAULT_SAFE" THEN "clear" ELSE "check")
  /\ SameInputs /\ SameApp
  /\ UNCHANGED <<locals, ghosts>>

ClearStore ==
  /\ pc = "clear"
  /\ Goto("check")
  /\ s_fault' = {}
  /\ s_state' = "IDLE"
  /\ SameInputs
  /\ UNCHANGED <<motors, imu_ok, b_mode, locals, ghosts>>

StaySafe ==
  /\ pc = "check"
  /\ s_state = "FAULT_SAFE"
  /\ EndPeriod
  /\ SameInputs /\ SameApp
  /\ UNCHANGED ghosts

(* A slip: the period goes on in FAULT_SAFE. *)
SafeIgnored ==
  /\ pc = "check"
  /\ Goto(IF mc.lqr_enable THEN "gate" ELSE "direct")
  /\ SameInputs /\ SameApp
  /\ UNCHANGED <<locals, ghosts>>

NotSafe ==
  /\ pc = "check"
  /\ s_state # "FAULT_SAFE"
  /\ Goto(IF mc.lqr_enable THEN "gate" ELSE "direct")
  /\ SameInputs /\ SameApp
  /\ UNCHANGED <<locals, ghosts>>

-----------------------------------------------------------------------------
(* balance_period: the direct wheel command. *)
CopyDirect ==
  /\ pc = "direct"
  /\ Goto("take")
  /\ dc' = s_direct
  /\ SameInputs /\ SameApp
  /\ UNCHANGED <<mc, tau, frame, ghosts>>

(* get_direct returns what the slot says now; the caller also tests its copy. *)
(* A position command writes a register that nothing reads.                   *)
TakeDirect ==
  /\ pc = "take"
  /\ Goto(CASE ~(s_direct.active /\ dc.active) -> "gate"
            [] dc.cmd.act = "mode" -> "d_mode"
            [] dc.cmd.act = "speed" -> "d_speed"
            [] OTHER -> "idle")
  /\ dc' = IF s_direct.active /\ dc.active THEN dc ELSE NoSlot
  /\ ReleaseDirect
  /\ SameApp
  /\ UNCHANGED <<arbiter, mc, tau, frame, ghosts>>

DirectStep == SameInputs /\ UNCHANGED <<app, locals, ghosts>>

DirectMode ==
  /\ pc = "d_mode"
  /\ Goto("d_enable")
  /\ SetMode(dc.cmd.side, dc.cmd.mode)
  /\ DirectStep

DirectEnable ==
  /\ pc = "d_enable"
  /\ Goto("idle")
  /\ Enable(dc.cmd.side, dc.cmd.mode)
  /\ DirectStep

DirectSpeed ==
  /\ pc = "d_speed"
  /\ Goto("idle")
  /\ motor_set_speed_rpm(dc.cmd.side, dc.cmd.nonzero)
  /\ DirectStep

(* s_state = APP_STATE_IDLE, after a direct command or with balancing off. *)
StoreIdle ==
  /\ pc = "idle"
  /\ s_state' = "IDLE"
  /\ EndPeriod
  /\ SameInputs
  /\ UNCHANGED <<motors, s_fault, imu_ok, b_mode, ghosts>>

-----------------------------------------------------------------------------
(* balance_period: the balance controller, balance_step and its output. *)
BalanceGate ==
  /\ pc = "gate"
  /\ Goto(IF mc.lqr_enable /\ b_mode # "OFF" THEN "step" ELSE "idle")
  /\ SameInputs /\ SameApp
  /\ UNCHANGED <<locals, ghosts>>

(* balance_step zeroes its output first, and leaves it so when not enabled. *)
BalanceStep ==
  /\ pc = "step"
  /\ Goto("mode")
  /\ \E torque \in BOOLEAN : tau' = (torque /\ b_mode # "OFF")
  /\ SameInputs /\ SameApp
  /\ UNCHANGED <<mc, dc, frame, ghosts>>

(* A slip: one wheel's mode is left as a direct command set it. *)
ApplyModeLeft ==
  /\ pc = "mode"
  /\ Goto("enable")
  /\ SetMode("L", "TORQUE")
  /\ DirectStep

(* apply_balance_output *)
ApplyMode ==
  /\ pc = "mode"
  /\ Goto("enable")
  /\ SetMode("BOTH", "TORQUE")
  /\ DirectStep

ApplyEnable ==
  /\ pc = "enable"
  /\ Goto("tau_l")
  /\ Enable("BOTH", "TORQUE")
  /\ DirectStep

ApplyTorque(w, here, next) ==
  /\ pc = here
  /\ Goto(next)
  /\ motor_set_torque_nm(w, tau)
  /\ DirectStep

StoreState ==
  /\ pc = "state"
  /\ s_state' = IF mc.brake \/ mc.ref = Zero THEN "HOLD" ELSE "TRACKING"
  /\ EndPeriod
  /\ SameInputs
  /\ UNCHANGED <<motors, s_fault, imu_ok, b_mode, ghosts>>

-----------------------------------------------------------------------------
Boot == ImuInit \/ EnterMotorInit \/ MotorStart \/ BootInject \/ BootCheck \/ BootEnter

Links == LoopTop \/ NetIdle \/ NetFrame \/ NetStop \/ NetAdmit \/ NetMerge
           \/ TickKeep \/ TickExpire \/ TickStore

Period ==
  \/ PeriodNotDue \/ PeriodDue
  \/ ImuFault \/ ImuGood \/ GetRef \/ GetFlags \/ SafetyLatch \/ SafetyFault
  \/ SafetyGood \/ EstopCommanded \/ NoEstop \/ ClearStore \/ StaySafe \/ NotSafe

Direct ==
  CopyDirect \/ TakeDirect \/ DirectMode \/ DirectEnable \/ DirectSpeed \/ StoreIdle

Balance ==
  \/ BalanceGate \/ BalanceStep \/ ApplyMode \/ ApplyEnable
  \/ ApplyTorque("L", "tau_l", "tau_r") \/ ApplyTorque("R", "tau_r", "state")
  \/ StoreState

Loop == Boot \/ Links \/ Period \/ Direct \/ Balance

Interrupt ==
  \/ ConsoleDrive \/ ConsoleDirect \/ ConsoleLqrLine \/ ConsoleBalmode
  \/ ConsoleEstopLine \/ ConsoleClearLine \/ UartFrame

Next == Loop \/ Interrupt

(* The loop never blocks, and its clock keeps making periods due. *)
Spec == Init /\ [][Next]_vars /\ WF_vars(Loop) /\ SF_vars(PeriodDue)

-----------------------------------------------------------------------------
(***************************************************************************)
(* Once an actuation under way has run out, FAULT_SAFE means motors off:   *)
(* nothing that ran before, after or across the stop leaves a motor        *)
(* enabled or a reference set (app_request_estop, balance_period).         *)
(***************************************************************************)
FaultSafeMotorsOff == s_state = "FAULT_SAFE" /\ pc \notin Actuation => MotorsOff

(***************************************************************************)
(* An emergency stop that was in force when a period began, and that no    *)
(* admitted command has replaced, has put the robot in FAULT_SAFE with its *)
(* motors off when the period ends, even if the stop had interrupted an    *)
(* actuation whose last store overwrote the state.                         *)
(***************************************************************************)
EstopTakesEffect ==
  estop_req = "due" /\ pc \notin InPeriod => s_state = "FAULT_SAFE" /\ MotorsOff

(***************************************************************************)
(* A latched hardware fault keeps the app in FAULT_SAFE: outside the two   *)
(* lines in which balance_period acts on it, s_fault and s_state agree,    *)
(* although interrupts write both.                                         *)
(***************************************************************************)
LatchedFaultIsSafe == s_fault # {} /\ pc # "safety_ret" => s_state = "FAULT_SAFE"

(***************************************************************************)
(* Between periods, a state that claims to balance has both wheels enabled *)
(* in torque mode, unless a stop cut into the actuation.                   *)
(***************************************************************************)
BalancingDrivesBothWheels ==
  s_state \in {"HOLD", "TRACKING"} /\ pc \notin InPeriod /\ ~raced
    => \A w \in Wheels : m_mode[w] = "TORQUE" /\ m_en[w]

(***************************************************************************)
(* With a dead IMU no motor is ever enabled or given a reference.  The     *)
(* FAULT_SAFE that imu_init's failure stores is overwritten four lines     *)
(* later and the robot enters BALANCING; what keeps the motors off is that *)
(* no later path reaches them past a failing imu_update.                   *)
(***************************************************************************)
DeadImuNeverDrives == pc # "imu_init" /\ ~imu_ok => MotorsOff

(***************************************************************************)
(* FAULT_SAFE is left only for a clear command, or because a stop came     *)
(* between the period's test for it and its last store; during boot, only  *)
(* by the store of MOTOR_INIT and by app_enter_balancing, which do not     *)
(* look at the state they overwrite.                                       *)
(***************************************************************************)
FaultLeftByClearOrRace ==
  [][s_state = "FAULT_SAFE" /\ s_state' # "FAULT_SAFE"
       /\ pc \notin {"motor_state", "boot_enter"}
       => mc.clear_fault \/ s_motion'.clear_fault \/ raced]_vars

(***************************************************************************)
(* The console outranks the AI box (docs/PROTOCOL.md): the AI box never    *)
(* becomes owner of a motion that the console owns, except around an       *)
(* emergency stop.  It holds when frames are handled in an interrupt.      *)
(***************************************************************************)
ConsoleKeepsMotion ==
  [][s_motion.source = "CONSOLE" /\ s_motion'.source = "AI"
       => s_motion.estop \/ s_motion'.estop]_vars

(***************************************************************************)
(* With its frames handled in an interrupt, the whole application keeps    *)
(* the arbiter's promise of who owns the motion (MotionOwner), whatever    *)
(* the boot, the loop, its clears and its stops do around it.              *)
(***************************************************************************)
Owner ==
  INSTANCE MotionOwner
    WITH owner <- s_motion.source, robot <- Robot(s_motion), expiry <- Expiry(pc, torn)

IsMotionOwner == Owner!Spec

(***************************************************************************)
(* An emergency stop is served: the state becomes FAULT_SAFE unless an     *)
(* admitted command replaces the stop first.                               *)
(***************************************************************************)
EstopIsServed ==
  estop_req = "asked" ~> (s_state = "FAULT_SAFE" \/ estop_req = "none")

(***************************************************************************)
(* A direct wheel command never waits for ever: unless balancing is on or  *)
(* the robot is in FAULT_SAFE, some period takes it from its slot, however *)
(* many lines and frames come in between (cmd_arbiter_get_direct).         *)
(***************************************************************************)
DirectIsServed ==
  s_direct.active ~>
    (~s_direct.active \/ s_motion.lqr_enable \/ s_state = "FAULT_SAFE")

-----------------------------------------------------------------------------
(* What the documents say and the code does not do.  ConsoleKeepsMotion is *)
(* another: with frames handled in the loop (AiPort = "net") it fails.     *)

(***************************************************************************)
(* docs/ARCHITECTURE.md: FAULT_SAFE is left by a clear command.  The       *)
(* console's clear line acts at once, in its interrupt; if it is the last  *)
(* command and the state is FAULT_SAFE again, then a fault came after it.  *)
(* Its flag stays in s_motion and the loop clears that fault too.          *)
(***************************************************************************)
FaultOutlivesOlderClear ==
  [][s_state = "FAULT_SAFE" /\ s_motion.clear_fault /\ pc = "clear" /\ pc' # pc
       => s_state' = "FAULT_SAFE"]_vars

(***************************************************************************)
(* docs/PROTOCOL.md: an AI ESTOP frame leads to FAULT_SAFE.  The frame     *)
(* only sets a flag for the next period, and a motion command that comes   *)
(* in before that period takes the flag away.                              *)
(***************************************************************************)
EstopFlagIsActedOn ==
  [][s_motion.estop /\ ~s_motion'.estop /\ pc \notin BootSteps
       => s_state = "FAULT_SAFE"]_vars
=============================================================================
