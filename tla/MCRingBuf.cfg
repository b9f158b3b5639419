SPECIFICATION Spec
CONSTANTS
  a = a
  b = b
  None = None
  Bytes <- MCBytes
  Cap = 3
  SizeMod = 8
INVARIANTS
  TypeOK
  CountIsPoppable
PROPERTIES
  IsByteQueue
