SPECIFICATION Spec
CONSTANTS
  Parts <- MCParts
  Tenants <- MCTwoTenants
  Ids <- MCOneId
  Global <- MCGlobal
  NoTenant = NoTenant
  Agents <- MCAgents
  Roles <- MCRoles
  Anyone <- MCAnyone
  Callers = {c1}
  MaxChanges = 4
  MaxInvocations = 0
PROPERTIES TenantIsolation
CHECK_DEADLOCK FALSE
