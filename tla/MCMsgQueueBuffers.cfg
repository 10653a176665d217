SPECIFICATION Spec
CONSTANTS
  p1 = p1
  p2 = p2
  p3 = p3
  g = g
  b1 = b1
  b2 = b2
  b3 = b3
  b4 = b4
  b5 = b5
  b6 = b6
  All = All
  Nil = Nil
  Process <- MCTwo
  Group <- MCAllOnly
  Buffer <- MCThreeBuffers
  MaxRecords = 2
  HeaderBlocks = 9
  ReadBlocks = 16
  PipeCap = 18
  MaxHeld = 1
  Calls <- MCAllCalls
  Joinable <- MCAllOnly
  ZeroLength = FALSE
  OpenFails = TRUE
SYMMETRY MCSymmetryBuffers
INVARIANTS
  SingleOwner

  
