SPECIFICATION Spec
CONSTANTS
  p1 = p1
  p2 = p2
  p3 = p3
  g = g
  b1 = b1
  b2 = b2
  b3 = b3
  b4 = b4
  b5 = b5
  b6 = b6
  All = All
  Nil = Nil
  Process <- MCThree
  Group <- MCGroup
  Buffer <- MCSix
  MaxRecords = 6
  HeaderBlocks = 9
  ReadBlocks = 16
  PipeCap = 9
  MaxHeld = 0
  Calls <- MCLeaveCalls
  Joinable <- MCJustG
  ZeroLength = TRUE
  OpenFails = FALSE
PROPERTIES
  GroupReached
CONSTRAINT MCJoinedFirst
VIEW MCNodesAlike
