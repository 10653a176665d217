SPECIFICATION Spec
CONSTANTS
  t1 = t1
  t2 = t2
  e1 = e1
  h1 = h1
  h2 = h2
  h3 = h3
  m1 = m1
  Timer <- MCTimer
  Time <- MCTime
  IntMax = 1
  Routine <- MCRoutine
  PipeCap = 1
  EventBuffer <- MCEventBuffer
  LastSlot = 4
  MaxFd = 5
  Handler <- MCHandler
  Message <- MCMessage
  QueueCap = 1
  Programs <- MCPrograms
INVARIANTS
  ListsAgree
  SelectSeesAll
  CallbackHasReason
  BuffersAccounted
  HandlersServed
  ExitHasReason
PROPERTIES
  AlarmsSpec
  OverdueRings
  Served
CHECK_DEADLOCK FALSE
