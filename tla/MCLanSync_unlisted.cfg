SPECIFICATION Spec
CONSTANTS
  A = A
  B = B
  Nodes <- MCNodes
  Peer <- MCPeer
  Clients = {A}
  Writers = {A}
  MaxWrites = 0
  MaxInterrupts = 1
  MaxNetFaults = 1
  MaxInsertFaults = 0
  MaxRestarts = 0
  MaxSockets = 3
  MaxReplays = 1
  SyncLimit = 1000
  Backpressure = FALSE
INVARIANTS
  NoUnexpectedTransition
CHECK_DEADLOCK FALSE
