SPECIFICATION FairSpec
CONSTANTS
  A = A
  B = B
  Nodes <- MCNodes
  Peer <- MCPeer
  Clients = {A}
  Writers = {A}
  MaxWrites = 2
  MaxInterrupts = 0
  MaxNetFaults = 0
  MaxInsertFaults = 0
  MaxRestarts = 0
  MaxSockets = 2
  MaxReplays = 1
  SyncLimit = 1000
  Backpressure = TRUE
PROPERTIES
  Converges
CHECK_DEADLOCK FALSE
