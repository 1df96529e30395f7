---------------------------- MODULE ToolRegistry ----------------------------
(* StaticToolRegistry, packages/ai/src/static-tool-registry.ts.            *)
(*                                                                         *)
(* Two Maps keyed by strings: tools by `tenant:id', permissions by         *)
(* `id:agent:role' (and by no tenant).  register, revoke and setPermission *)
(* run to their end when called; invoke looks the tool up, awaits, reads   *)
(* the agent's permission, awaits again and answers, so that other calls   *)
(* run between.                                                            *)
(*                                                                         *)
(* A name is the sequence of its parts between colons, so that joining two *)
(* names with a colon is concatenation, and names with a colon in them     *)
(* collide here as they do there.  Of a tool's record only its own tenant  *)
(* and id and its risk class are kept.                                     *)
EXTENDS Integers, FiniteSets, Sequences

CONSTANTS
  Parts,           \* what names are made of
  Tenants, Ids,    \* the names of tenants and of tools
  Global,          \* 'global': where a tool without a tenant is kept
  NoTenant,        \* the tenant of such a tool
  Agents, Roles,
  Anyone,          \* the '*' of a permission's key: no agent, or no role
  Callers,         \* callers of invoke, one call each at a time
  MaxChanges,      \* bound: calls of register, revoke and setPermission
  MaxInvocations   \* bound: calls of invoke

Names == Seq(Parts) \ {<<>>}

ASSUME RegistryAssumption ==
  /\ Tenants \subseteq Names /\ Ids \subseteq Names
  /\ Agents \cup Roles \cup {Anyone} \subseteq Names
  /\ Global \in Tenants /\ NoTenant \notin Tenants
  /\ Anyone \notin Agents /\ Anyone \notin Roles
  /\ MaxChanges \in Nat /\ MaxInvocations \in Nat

VARIABLES
  tools,        \* key -> tool, or NoTool
  permissions,  \* key -> grant, or NoGrant
  invocations,  \* length of the log of invocations, which only grows
  calls,        \* the callers' calls of invoke
  changes       \* calls of register, revoke and setPermission so far

vars == <<tools, permissions, invocations, calls, changes>>

Risks     == {"LOW", "MEDIUM", "HIGH", "CRITICAL"}
RiskOrder == [LOW |-> 0, MEDIUM |-> 1, HIGH |-> 2, CRITICAL |-> 3]
Owners    == Tenants \cup {NoTenant}
Tools     == [tenantId : Owners, id : Ids, riskClass : Risks]
NoTool    == [riskClass |-> "NONE"]
Grants    == {"ALLOW", "DENY", "ALLOW_WITH_APPROVAL"}
NoGrant   == "NONE"
Invokers  == Agents \cup {Anyone}
Subjects  == Invokers \X (Roles \cup {Anyone})

toolKey(t, x) == t \o x
permKey(x, s) == x \o s[1] \o s[2]
ToolKeys == {toolKey(t, x) : t \in Tenants, x \in Ids}
PermKeys == {permKey(x, s) : x \in Ids, s \in Subjects}

\* Does key begin with the name n and a colon?
StartsWith(key, n) == Len(n) < Len(key) /\ SubSeq(key, 1, Len(n)) = n

Get(t, x)           == tools[toolKey(t, x)]
GetPermission(x, s) == permissions[permKey(x, s)]

\* What a moment says of a call: the tool is there, the agent is denied.
Moments == [present : BOOLEAN, denied : BOOLEAN]
Moment(ts, ps, t, x, a) ==
  [present |-> ts[toolKey(t, x)] # NoTool,
   denied  |-> ps[permKey(x, <<a, Anyone>>)] = "DENY"]

Statuses == {"SUCCEEDED", "FAILED", "REJECTED"}
Idle == [op |-> "idle"]
\* seen: the moments of the call so far; revoked: its tool was revoked
\* between the lookup and the permission check.
Calls == {Idle} \cup
  [op : {"found", "decided", "done"}, tenant : Tenants, id : Ids,
   agent : Invokers, status : Statuses, seen : SUBSET Moments,
   revoked : BOOLEAN]

----------------------------------------------------------------------------
(* The tools of a tenant, as the two queries find them.                    *)

Stored == {tools[k] : k \in ToolKeys} \ {NoTool}

\* list({tenantId: t}): by the tool's own field, null for a global tool.
List(t) == {tool \in Stored : tool.tenantId = t}

\* Mutant: below the rank only.
ByRiskClassBelow(max, t) ==
  {tools[k] : k \in {j \in ToolKeys : /\ StartsWith(j, t) /\ tools[j] # NoTool
                       /\ RiskOrder[tools[j].riskClass] < RiskOrder[max]}}

\* byRiskClass: by the prefix of the key.
ByRiskClass(max, t) ==
  {tools[k] : k \in {j \in ToolKeys : /\ StartsWith(j, t) /\ tools[j] # NoTool
                       /\ RiskOrder[tools[j].riskClass] <= RiskOrder[max]}}

----------------------------------------------------------------------------
(* Calls that run to their end.                                            *)

\* The running calls see the moment the change leaves.
Seeing(c, ts, ps) ==
  LET call == calls[c] IN
  IF call.op \in {"found", "decided"}
  THEN [call EXCEPT !.seen =
          @ \cup {Moment(ts, ps, call.tenant, call.id, call.agent)}]
  ELSE call

Change(ts, ps) ==
  /\ changes < MaxChanges
  /\ changes' = changes + 1
  /\ tools' = ts /\ permissions' = ps
  /\ UNCHANGED invocations

\* o: the tenant of the definition, or none.
Register(o, x, risk) ==
  LET t  == IF o = NoTenant THEN Global ELSE o
      ts == [tools EXCEPT ![toolKey(t, x)] =
               [tenantId |-> o, id |-> x, riskClass |-> risk]] IN
  /\ Change(ts, permissions)
  /\ calls' = [c \in Callers |-> Seeing(c, ts, permissions)]

\* The tool goes, and every permission whose key begins with its id,
\* whichever tenant it was meant for.
Revoke(t, x) ==
  LET ts == [tools EXCEPT ![toolKey(t, x)] = NoTool]
      ps == [k \in PermKeys |-> IF StartsWith(k, x) THEN NoGrant ELSE permissions[k]] IN
  /\ Change(ts, ps)
  /\ calls' = [c \in Callers |->
       IF calls[c].op = "found" /\ toolKey(calls[c].tenant, calls[c].id) = toolKey(t, x)
       THEN [Seeing(c, ts, ps) EXCEPT !.revoked = TRUE]
       ELSE Seeing(c, ts, ps)]

SetPermission(x, s, g) ==
  LET ps == [permissions EXCEPT ![permKey(x, s)] = g] IN
  /\ Change(tools, ps)
  /\ calls' = [c \in Callers |-> Seeing(c, tools, ps)]

----------------------------------------------------------------------------
(* invoke.                                                                 *)

\* The call is logged and the tool looked up.  A call that finds none has
\* its answer, but only gives it after the await.
Invoke(c, t, x, a) ==
  /\ calls[c].op \in {"idle", "done"}
  /\ invocations < MaxInvocations
  /\ invocations' = invocations + 1
  /\ calls' = [calls EXCEPT ![c] =
       [op |-> IF Get(t, x) = NoTool THEN "decided" ELSE "found",
        tenant |-> t, id |-> x, agent |-> a, status |-> "FAILED",
        seen |-> {Moment(tools, permissions, t, x, a)}, revoked |-> FALSE]]
  /\ UNCHANGED <<tools, permissions, changes>>

\* Mutant: the permission of the '*' key is read.
CheckPermissionOfAll(c) ==
  LET call == calls[c] IN
  /\ call.op = "found"
  /\ calls' = [calls EXCEPT ![c].op = "decided", ![c].status =
       IF GetPermission(call.id, <<Anyone, Anyone>>) = "DENY"
       THEN "REJECTED" ELSE "SUCCEEDED"]
  /\ UNCHANGED <<tools, permissions, invocations, changes>>

\* Mutant: the grant itself for a status.
CheckPermissionAsIs(c) ==
  LET call == calls[c] IN
  /\ call.op = "found"
  /\ calls' = [calls EXCEPT ![c].op = "decided", ![c].status =
       GetPermission(call.id, <<call.agent, Anyone>>)]
  /\ UNCHANGED <<tools, permissions, invocations, changes>>

\* The permission of the agent's own key; none is as good as ALLOW, and
\* ALLOW_WITH_APPROVAL is not waited for.
CheckPermission(c) ==
  LET call == calls[c] IN
  /\ call.op = "found"
  /\ calls' = [calls EXCEPT ![c].op = "decided", ![c].status =
       IF GetPermission(call.id, <<call.agent, Anyone>>) = "DENY"
       THEN "REJECTED" ELSE "SUCCEEDED"]
  /\ UNCHANGED <<tools, permissions, invocations, changes>>

Answer(c) ==
  /\ calls[c].op = "decided"
  /\ calls' = [calls EXCEPT ![c].op = "done"]
  /\ UNCHANGED <<tools, permissions, invocations, changes>>

----------------------------------------------------------------------------
Init ==
  /\ tools = [k \in ToolKeys |-> NoTool]
  /\ permissions = [k \in PermKeys |-> NoGrant]
  /\ invocations = 0 /\ changes = 0
  /\ calls = [c \in Callers |-> Idle]

Next ==
  \/ \E o \in Owners, x \in Ids, risk \in Risks : Register(o, x, risk)
  \/ \E t \in Tenants, x \in Ids :
       Revoke(t, x) \/ \E c \in Callers, a \in Invokers : Invoke(c, t, x, a)
  \/ \E x \in Ids, s \in Subjects, g \in Grants : SetPermission(x, s, g)
  \/ \E c \in Callers : CheckPermission(c) \/ Answer(c)

Spec == Init /\ [][Next]_vars
=============================================================================
