SPECIFICATION Spec
CONSTANTS
  Zero = Zero
  drive = drive
  Refs <- MCRefs
  ClockMod = 5
  AiTimeout = 1
  RcTimeout = 0
  MaxLag = 1
  BalanceOnBoot = TRUE
INVARIANTS
  AiMayDriveWhenConsoleBrakes
