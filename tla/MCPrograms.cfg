SPECIFICATION Spec
CONSTANTS
  Proc = {"parent", "c1", "c2"}
  Parent = "parent"
  SystemID = {"home"}
  Priority = {1, 2}
  MaxFailures = 1
  Buffers = 3
  MaxMessages = 3
  Receives = {TRUE, FALSE}
  Router = {"a", "b", "c"}
  Remote <- MCRemote
  MaxLinks = 2
  Scenario <- MCScenario
  Connection = {1, 2}
  Column = {"id", "name"}
  Text = {"name"}
  MaxResults = 2
  MaxRows = 2
  MaxTries = 2
  MaxStatements = 2
  MaxEdits = 3
  MaxLocks = 1
INVARIANTS
  UsersShare StartedInOrder ThreadWakes LinkServes DeliveredOnce ResultsKept
PROPERTIES
  StartReturns JoinReturns LinkReturns QueriesReturn
CHECK_DEADLOCK FALSE
