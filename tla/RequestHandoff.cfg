SPECIFICATION FairSpec
CONSTANTS
  r1 = r1
  r2 = r2
  r3 = r3
  r4 = r4
  m1 = m1
  m2 = m2
  NoRequest = NoRequest
  Request <- MCRequest
  MsgId <- MCMsgId
  MsgIdOf <- MCMsgIdOf
INVARIANTS
  ExclusiveVectors
  HeapAccounted
PROPERTIES
  ImplementsMailbox
  Delivered
