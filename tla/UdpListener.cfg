SPECIFICATION FairUdpSpec
CONSTANTS
  s1 = s1
  s2 = s2
  Sender <- MCSender
  MaxEvents = 3
INVARIANTS
  HarmOnlyByRace
  SocketDrained
PROPERTIES
  DeliveredUnlessRaced
CHECK_DEADLOCK FALSE
