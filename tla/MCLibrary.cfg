SPECIFICATION Spec
CONSTANTS
  Handle = {"h1", "h2"}
  Entry <- MCEntry
  Searcher = {"h1"}
  MaxLines = 2
  Item = {"a", "b", "c"}
  Key <- MCKey
  Member <- MCMember
  MaxNodes = 4
  Address <- MCAddress
  Length = 2
  MaxMessagesOut = 2
  MaxSocketFaults = 2
  Group = {"g"}
INVARIANTS
  ConfWhole ConfReadsBack ListsInOrder TreeHolds DescriptorsAccounted StreamKept
CHECK_DEADLOCK FALSE
