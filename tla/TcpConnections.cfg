SPECIFICATION FairConnSpec
CONSTANTS
  a = a
  b = b
  c = c
  Free = Free
  DataFile = DataFile
  Listen = Listen
  Client <- MCClient
  Pieces <- MCPieces
  MaxFd = 2
  maxConnections = 2
INVARIANTS
  BufferIsOwners
  AnswersReachTheAsker
  NoInnocentCut
  NothingForgotten
PROPERTIES
  EventuallyAccepted
CHECK_DEADLOCK FALSE
