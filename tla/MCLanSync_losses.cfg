SPECIFICATION Spec
CONSTANTS
  A = A
  B = B
  Nodes <- MCNodes
  Peer <- MCPeer
  Clients = {A}
  Writers = {A}
  MaxWrites = 1
  MaxInterrupts = 0
  MaxNetFaults = 3
  MaxInsertFaults = 1
  MaxRestarts = 1
  MaxSockets = 4
  MaxReplays = 1
  SyncLimit = 1000
  Backpressure = FALSE
INVARIANTS
  NormalMeansSocket
  NoUnexpectedTransition
CHECK_DEADLOCK FALSE
