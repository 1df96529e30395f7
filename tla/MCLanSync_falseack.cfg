SPECIFICATION Spec
CONSTANTS
  A = A
  B = B
  Nodes <- MCNodes
  Peer <- MCPeer
  Clients = {A}
  Writers = {A}
  MaxWrites = 1
  MaxInterrupts = 0
  MaxNetFaults = 0
  MaxInsertFaults = 1
  MaxRestarts = 0
  MaxSockets = 2
  MaxReplays = 1
  SyncLimit = 1000
  Backpressure = FALSE
INVARIANTS
  AckedRecordIsStored
CHECK_DEADLOCK FALSE
