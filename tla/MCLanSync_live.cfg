SPECIFICATION FairSpec
CONSTANTS
  A = A
  B = B
  Nodes <- MCNodes
  Peer <- MCPeer
  Clients = {A, B}
  Writers = {A}
  MaxWrites = 2
  MaxInterrupts = 0
  MaxNetFaults = 1
  MaxInsertFaults = 0
  MaxRestarts = 0
  MaxSockets = 2
  MaxReplays = 1
  SyncLimit = 1000
  Backpressure = FALSE
INVARIANTS
  AckedRecordIsStored
  NoGaps
  NormalMeansSocket
  NoUnexpectedTransition
PROPERTIES
  Reconnects
  Converges
  ImplementsReplication
CHECK_DEADLOCK FALSE
