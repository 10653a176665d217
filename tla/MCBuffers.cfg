SPECIFICATION FairSpec
CONSTANTS
  p1 = p1
  p2 = p2
  b1 = b1
  b2 = b2
  b3 = b3
  Nil = Nil
  Process <- MCProcess
  Buffer <- MCBuffer
  NumSizes = 2
  Layout <- MCLayout
  SizeIndex <- MCSizeIndex
  SEMVMX = 3
  Signals = FALSE
  CrashAt <- MCCrashAt
INVARIANTS
  TypeOK
  ExclusiveAccess
  SingleOwner
  FreeListsIntact
PROPERTIES
  OnlyDeathLosesBuffers
  NullMeansExhausted
  PoolSpec
  CallsReturn
