SPECIFICATION Spec
CONSTANTS
  minDeltaTimeTick = 2
  Time = {3, 6}
  Laps = {1, 2}
  Extra <- MCExtra
  Ratio <- MCRatio
  MaxNow = 7
  MaxLap = 3
  MaxTicks = 2
INVARIANTS
  GameTimeNotAhead
  CountsFromItsFrame
  LeftTimeConsistent
  LapsOnTime
PROPERTIES
  TimeUpWhenDue
