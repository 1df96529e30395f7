----------------------- MODULE ToolRegistryProperties -----------------------
(* What the tool registry promises its callers.                            *)
EXTENDS ToolRegistry

\* The state is made of tools, grants and calls, within the bounds.
TypeOK ==
  /\ tools \in [ToolKeys -> Tools \cup {NoTool}]
  /\ permissions \in [PermKeys -> Grants \cup {NoGrant}]
  /\ invocations \in 0..MaxInvocations /\ changes \in 0..MaxChanges
  /\ calls \in [Callers -> Calls]

\* The moment at which an answer is right.
Justifies(m, status) ==
  CASE status = "FAILED"    -> ~m.present
    [] status = "REJECTED"  -> m.present /\ m.denied
    [] status = "SUCCEEDED" -> m.present /\ ~m.denied

\* Although invoke looks at the tool and at the permission at two moments,
\* its answer is right at one moment of the call: only a revoke of the very
\* tool between the two can make it wrong at all of them.
AtomicUnlessRevoked ==
  \A c \in Callers :
    calls[c].op = "done" /\ ~calls[c].revoked =>
      \E m \in calls[c].seen : Justifies(m, calls[c].status)

\* No other tenant's name is this one with a colon and more, or the other way
\* round.
Apart(t) == \A u \in Tenants : ~StartsWith(u, t) /\ ~StartsWith(t, u)

\* What list finds by the tools' own field is what get and byRiskClass find by
\* the keys, even where names collide and one tool replaces another: get
\* answers each listed tool, and byRiskClass each of the risk, too.  For a
\* tenant whose name stands apart byRiskClass answers no other tenant's tools;
\* under `global' it adds those without a tenant, which no list shows.
QueriesAgree ==
  \A t \in Tenants :
    /\ \A tool \in List(t) : Get(t, tool.id) = tool
    /\ \A max \in Risks : \A tool \in List(t) :
         tool \in ByRiskClass(max, t) <=> RiskOrder[tool.riskClass] <= RiskOrder[max]
    /\ Apart(t) => \A tool \in ByRiskClass("CRITICAL", t) :
         tool.tenantId \in {t} \cup (IF t = Global THEN {NoTenant} ELSE {})

\* static-tool-registry.ts:5: "Tenant isolation enforced on every operation."
\* That a tenant's tool goes away changes nothing for another tenant's: it is
\* there still, and denied to the agents it was denied to.  (The code deletes
\* the permissions of the id for every tenant.)
TenantIsolation ==
  [][\A t, u \in Tenants : \A x, y \in Ids :
       /\ t # u /\ Get(t, x) # NoTool /\ tools'[toolKey(t, x)] = NoTool
       /\ Get(u, y) # NoTool
       => \A a \in Agents :
            Moment(tools', permissions', u, y, a) = Moment(tools, permissions, u, y, a)]_vars
=============================================================================
