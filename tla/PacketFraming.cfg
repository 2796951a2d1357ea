SPECIFICATION FairSpec
CONSTANTS
  Body <- MCBody
  Start <- MCStart
  maxPacketBytes = 5
  CopyOrder <- Forward
INVARIANTS
  BodiesIntact
  NothingStranded
  ClosedForCause
PROPERTIES
  NothingAfterReject
  PacketsDelivered
CHECK_DEADLOCK FALSE
