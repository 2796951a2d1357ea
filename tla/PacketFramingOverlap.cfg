SPECIFICATION Spec
CONSTANTS
  Body <- MCBody
  Start <- MCStart
  maxPacketBytes = 5
  CopyOrder <- EitherWay
INVARIANTS
  BodiesIntact
CHECK_DEADLOCK FALSE
