SPECIFICATION Spec
CONSTANTS
  Zero = Zero
  drive = drive
  Refs <- MCRefs
  DirectCmds <- MCDirect
  ClockMod = 3
  AiTimeout = 1
  RcTimeout = 1
  BalanceOnBoot = TRUE
  AiPort = "uart"
  ActiveModes = {"LQR"}
  Faults = {"MOTOR"}
INVARIANTS
  TypeOK
  FaultSafeMotorsOff
  EstopTakesEffect
  LatchedFaultIsSafe
  BalancingDrivesBothWheels
  DeadImuNeverDrives
PROPERTIES
  FaultLeftByClearOrRace
  ConsoleKeepsMotion
  IsMotionOwner
