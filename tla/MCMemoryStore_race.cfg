SPECIFICATION Spec
CONSTANTS
  U = U
  V = V
  None = None
  NoName = None
  Names = {U, V}
  Tenants = {t1, t2}
  Ids = {i1}
  EventIds = {e1}
  Contents = {c1, c2}
  Hashes = {c1, c2, h1}
  Callers = {p1, p2}
  MaxConfirms = 1
  Dims <- MCDims
  Identities <- MCIdentities
  Policies <- MCPolicies
  LegalHold <- MCLegalHold
SYMMETRY Symmetric
INVARIANTS
  TypeOK NothingLostUnlessRaced ReadsAreScoped ErasedIsExportedNotRead
PROPERTIES LegalHoldKept HashOfContent NothingVanishes
