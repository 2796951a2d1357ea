SPECIFICATION Spec
CONSTANTS
  id1 = id1
  id2 = id2
  h1 = h1
  h2 = h2
  Null = Null
  MsgId <- MCMsgId
  Handler <- MCHandler
  MaxListeners = 2
  MaxClients = 1
  MaxCalls = 5
INVARIANTS
  HandlersCalled
  OrderlyIsDefined
  PortHeldForCause
CHECK_DEADLOCK FALSE
