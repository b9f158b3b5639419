SPECIFICATION Spec
CONSTANTS
  NaN = NaN
  Axes <- MCAxes
  PidOrder <- MCPidOrder
  Refs <- MCRefs
  Limit = 2
  Step = 1
  ILimit = 2
  Gain = 1
INVARIANTS
  TypeOK
  NaNHasACause
  WindupIsRecent
PROPERTIES
  SlopeIsLimited
  BrakeStops
