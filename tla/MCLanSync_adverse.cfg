SPECIFICATION Spec
CONSTANTS
  A = A
  B = B
  Nodes <- MCNodes
  Peer <- MCPeer
  Clients = {A, B}
  Writers = {A}
  MaxWrites = 1
  MaxInterrupts = 0
  MaxNetFaults = 1
  MaxInsertFaults = 1
  MaxRestarts = 1
  MaxSockets = 2
  MaxReplays = 1
  SyncLimit = 1
  Backpressure = TRUE
INVARIANTS
  AckedKeyIsStored
  OwnerHoldsKey
CHECK_DEADLOCK FALSE
