SPECIFICATION FairSpec
CONSTANTS
  c1 = c1
  c2 = c2
  i1 = i1
  i2 = i2
  NoID = NoID
  Client <- MCClient
  MsgID <- MCOneID
  MaxPid = 2
  QueueCap = 1
  Requests <- MCAll
  Timeouts = FALSE
  Fails = FALSE
PROPERTIES
  IsRegisteredReturns
CHECK_DEADLOCK FALSE
