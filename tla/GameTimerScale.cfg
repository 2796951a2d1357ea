SPECIFICATION Spec
CONSTANTS
  minDeltaTimeTick = 2
  Time = {6}
  Laps = {1}
  Extra = {}
  Ratio <- MCRatio
  MaxNow = 9
  MaxLap = 1
  MaxTicks = 1
PROPERTIES
  ScaleAsDocumented
