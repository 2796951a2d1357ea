SPECIFICATION FairSpec
CONSTANTS
  t1 = t1
  t2 = t2
  t3 = t3
  NoTimer = NoTimer
  Garbage = Garbage
  Timer <- MCTimer
  LapTimers <- MCLapTimers
  MaxOps = 3
INVARIANTS
  ListWellFormed
  CursorsInList
  OncePerFrame
  DueIsTicked
PROPERTIES
  FrameEnds
