SPECIFICATION Spec
CONSTANTS
  Parts <- MCParts
  Tenants <- MCColliding
  Ids <- MCCollidingIds
  Global <- MCGlobal
  NoTenant = NoTenant
  Agents <- MCAgents
  Roles <- MCRoles
  Anyone <- MCAnyone
  Callers = {c1}
  MaxChanges = 3
  MaxInvocations = 1
INVARIANTS TypeOK AtomicUnlessRevoked QueriesAgree
CHECK_DEADLOCK FALSE
