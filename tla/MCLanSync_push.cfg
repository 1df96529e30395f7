SPECIFICATION Spec
CONSTANTS
  A = A
  B = B
  Nodes <- MCNodes
  Peer <- MCPeer
  Clients = {A}
  Writers = {A}
  MaxWrites = 1
  MaxInterrupts = 1
  MaxNetFaults = 1
  MaxInsertFaults = 0
  MaxRestarts = 1
  MaxSockets = 4
  MaxReplays = 1
  SyncLimit = 1000
  Backpressure = FALSE
INVARIANTS
  TypeOK
  SameKeySameRecord
  NothingLeftBehind
CHECK_DEADLOCK FALSE
