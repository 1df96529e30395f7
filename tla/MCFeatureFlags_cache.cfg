SPECIFICATION FairSpec
CONSTANTS
  Keys = {k1}
  Flags = {f1, f2}
  NoFlag = NoFlag
  Callers = {c1, c2}
  TTL = 2
  MaxLatency = 1
  MaxChanges = 3
  LostAnswers = TRUE
INVARIANTS TypeOK BoundedStaleness FreshUnlessOverlapped
PROPERTIES EventuallyFresh
