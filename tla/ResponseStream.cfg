SPECIFICATION FairStreamSpec
CONSTANTS
  Byte = 12
  Type <- MCType
  Depth <- MCDepth
  Client = {"c1", "c2"}
  Batch <- MCBatch
  SendRoom = 3
INVARIANTS
  AnswersReadBack
PROPERTIES
  NobodyHeldUp
CHECK_DEADLOCK FALSE
