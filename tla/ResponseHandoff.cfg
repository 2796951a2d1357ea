SPECIFICATION FairSpec
CONSTANTS
  a = a
  b = b
  c = c
  d = d
  s1 = s1
  s2 = s2
  c1 = c1
  c2 = c2
  NoResponse = NoResponse
  Response <- MCResponse
  Sender <- MCSender
  Conn <- MCConn
  ConnIds <- MCConnIds
INVARIANTS
  ExclusiveVectors
  NoLostWakeup
  TransmittedInOrder
PROPERTIES
  ImplementsMailbox
  Delivered
