SPECIFICATION Spec
CONSTANTS
  Keys = {k1}
  Flags = {f1, f2}
  NoFlag = NoFlag
  Callers = {c1, c2}
  TTL = 2
  MaxLatency = 1
  MaxChanges = 1
  LostAnswers = FALSE
SYMMETRY Symmetric
INVARIANTS NoStaleness
