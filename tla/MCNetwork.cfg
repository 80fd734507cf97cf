CONSTANTS
  Nodes <- MCNodes
  Records <- MCRecords
  Ends <- MCEnds
  Programs <- MCPrograms
  SrcNodes = 2
  Granularity = 2
  MaxSize = 3
  Rounds = {2}
  PoolCalls = 7
SPECIFICATION Spec
INVARIANTS
  LiveCellFirst
  SocketsAccounted
PROPERTIES
  ImplementsChannels
  Finishes
CHECK_DEADLOCK FALSE
