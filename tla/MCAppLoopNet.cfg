SPECIFICATION Spec
CONSTANTS
  Zero = Zero
  drive = drive
  Refs <- MCRefs
  DirectCmds <- MCSpeed
  ClockMod = 3
  AiTimeout = 1
  RcTimeout = 1
  BalanceOnBoot = TRUE
  AiPort = "net"
  ActiveModes = {"LQR"}
  Faults = {"MOTOR"}
INVARIANTS
  FaultSafeMotorsOff
  EstopTakesEffect
PROPERTIES
  EstopIsServed
  DirectIsServed
