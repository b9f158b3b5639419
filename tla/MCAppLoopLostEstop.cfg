SPECIFICATION Spec
CONSTANTS
  Zero = Zero
  drive = drive
  Refs <- MCRefs
  DirectCmds = {}
  ClockMod = 3
  AiTimeout = 1
  RcTimeout = 1
  BalanceOnBoot = TRUE
  AiPort = "uart"
  ActiveModes = {"LQR"}
  Faults = {"MOTOR"}
PROPERTIES
  EstopFlagIsActedOn
