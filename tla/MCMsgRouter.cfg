SPECIFICATION FairSpec
CONSTANTS
  c1 = c1
  c2 = c2
  i1 = i1
  i2 = i2
  NoID = NoID
  Client <- MCClient
  MsgID <- MCOneID
  MaxPid = 3
  QueueCap = 1
  Requests <- MCRoles
  Timeouts = TRUE
  Fails = TRUE
INVARIANTS
  NoDanglingConsumer
  ViewsAgree
CHECK_DEADLOCK FALSE
PROPERTIES
  InitReturns
