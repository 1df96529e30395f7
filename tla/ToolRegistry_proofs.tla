------------------------- MODULE ToolRegistry_proofs -------------------------
(***************************************************************************)
(* Proofs about ToolRegistry, for every value of its constants.  An answer *)
(* is right at a moment of the call because a call that is under way has   *)
(* seen the present one, and has its tool still there unless it was        *)
(* revoked: the grant that CheckPermission reads is then that of a moment  *)
(* at which the tool is present.  The queries agree because every tool is  *)
(* kept under the key of its own tenant and id.                            *)
(***************************************************************************)
EXTENDS ToolRegistryProperties, TLAPS

UnderWay(c) == calls[c].op \in {"found", "decided"}

\* The present moment is among those a call under way has seen.
SeesPresent == \A c \in Callers : UnderWay(c) =>
  Moment(tools, permissions, calls[c].tenant, calls[c].id, calls[c].agent) \in calls[c].seen
\* A tool that was found and not revoked since is still there.
FoundIsThere == \A c \in Callers : calls[c].op = "found" /\ ~calls[c].revoked =>
  Get(calls[c].tenant, calls[c].id) # NoTool
\* What is decided was right at a moment the call has seen.
DecidedRightly == \A c \in Callers :
  calls[c].op \in {"decided", "done"} /\ ~calls[c].revoked =>
    \E m \in calls[c].seen : Justifies(m, calls[c].status)

\* A tool is kept under the key of its own fields, 'global' for no tenant.
KeyOf(tool) == toolKey(IF tool.tenantId = NoTenant THEN Global ELSE tool.tenantId, tool.id)
KeptUnderKey == \A k \in ToolKeys : tools[k] # NoTool => k = KeyOf(tools[k])

Inv == TypeOK /\ SeesPresent /\ FoundIsThere /\ DecidedRightly /\ KeptUnderKey

ActiveCalls == Calls \ {Idle}

LEMMA KeyTypes ==
  /\ \A t \in Tenants, x \in Ids : toolKey(t, x) \in ToolKeys
  /\ \A x \in Ids, s \in Subjects : permKey(x, s) \in PermKeys
BY DEF ToolKeys, PermKeys

LEMMA NoToolType == NoTool \notin Tools /\ NoGrant \notin Grants
<1>1. \A tool \in Tools : tool.riskClass # "NONE"
  BY DEF Tools, Risks
<1> QED
  BY <1>1 DEF NoTool, NoGrant, Grants

LEMMA CallType ==
  ASSUME TypeOK, NEW c \in Callers, calls[c].op # "idle"
  PROVE  /\ calls[c] \in ActiveCalls
         /\ calls[c].tenant \in Tenants /\ calls[c].id \in Ids
         /\ calls[c].agent \in Invokers /\ calls[c].seen \subseteq Moments
BY DEF TypeOK, Calls, ActiveCalls, Idle

LEMMA MomentType ==
  ASSUME NEW ts, NEW ps, NEW t, NEW x, NEW a
  PROVE  Moment(ts, ps, t, x, a) \in Moments
BY DEF Moment, Moments

LEMMA InitInv == Init => Inv
<1> SUFFICES ASSUME Init PROVE Inv
  OBVIOUS
<1>1. \A c \in Callers : calls[c].op = "idle"
  BY DEF Init, Idle
<1>2. TypeOK
  BY RegistryAssumption DEF Init, TypeOK, Calls
<1> QED
  BY <1>1, <1>2 DEF Init, Inv, UnderWay, SeesPresent, FoundIsThere, DecidedRightly, KeptUnderKey

\* The call of c after a change, seen by those under way and by no other.
Witnessed(c, ts, ps) ==
  /\ ~UnderWay(c) => calls'[c] = calls[c]
  /\ UnderWay(c) =>
       /\ calls'[c] \in Calls
       /\ calls'[c].op = calls[c].op /\ calls'[c].tenant = calls[c].tenant
       /\ calls'[c].id = calls[c].id /\ calls'[c].agent = calls[c].agent
       /\ calls'[c].status = calls[c].status
       /\ calls'[c].seen = calls[c].seen \cup
            {Moment(ts, ps, calls[c].tenant, calls[c].id, calls[c].agent)}
       /\ calls[c].revoked => calls'[c].revoked

\* A call that sees a change is still a call; and so is one revoked.
LEMMA SeeingType ==
  ASSUME TypeOK, NEW c \in Callers, NEW ts, NEW ps
  PROVE  /\ ~UnderWay(c) => Seeing(c, ts, ps) = calls[c]
         /\ UnderWay(c) =>
              LET call == calls[c]
                  see  == [op |-> call.op, tenant |-> call.tenant, id |-> call.id,
                           agent |-> call.agent, status |-> call.status,
                           seen |-> call.seen \cup {Moment(ts, ps, call.tenant, call.id, call.agent)},
                           revoked |-> call.revoked] IN
              /\ Seeing(c, ts, ps) = see
              /\ see \in Calls
              /\ [see EXCEPT !.revoked = TRUE] \in Calls
<1>1. ~UnderWay(c) => Seeing(c, ts, ps) = calls[c]
  BY DEF Seeing, UnderWay
<1>2. ASSUME UnderWay(c)
      PROVE  LET call == calls[c]
                 see  == [op |-> call.op, tenant |-> call.tenant, id |-> call.id,
                          agent |-> call.agent, status |-> call.status,
                          seen |-> call.seen \cup {Moment(ts, ps, call.tenant, call.id, call.agent)},
                          revoked |-> call.revoked] IN
             /\ Seeing(c, ts, ps) = see
             /\ see \in Calls
             /\ [see EXCEPT !.revoked = TRUE] \in Calls
  <2> DEFINE m == Moment(ts, ps, calls[c].tenant, calls[c].id, calls[c].agent)
  <2>1. m \in Moments
    BY MomentType
  <2>2. calls[c] \in
          [op : {"found", "decided", "done"}, tenant : Tenants, id : Ids, agent : Invokers,
           status : Statuses, seen : SUBSET Moments, revoked : BOOLEAN]
    BY <1>2 DEF UnderWay, TypeOK, Calls, Idle
  <2>3. Seeing(c, ts, ps) = [calls[c] EXCEPT !.seen = @ \cup {m}]
    BY <1>2 DEF Seeing, UnderWay
  <2> HIDE DEF m
  <2>4. [calls[c] EXCEPT !.seen = @ \cup {m}] =
          [op |-> calls[c].op, tenant |-> calls[c].tenant, id |-> calls[c].id,
           agent |-> calls[c].agent, status |-> calls[c].status,
           seen |-> calls[c].seen \cup {m}, revoked |-> calls[c].revoked]
    BY <2>2
  <2> QED
    BY <2>1, <2>2, <2>3, <2>4 DEF Calls, m
<1> QED
  BY <1>1, <1>2

\* A change that every call under way witnesses keeps the invariant, if no
\* tool goes away without its calls being marked.
LEMMA ChangeInv ==
  ASSUME Inv, NEW ts \in [ToolKeys -> Tools \cup {NoTool}],
         NEW ps \in [PermKeys -> Grants \cup {NoGrant}], Change(ts, ps),
         calls' \in [Callers -> Calls],
         \A c \in Callers : Witnessed(c, ts, ps),
         \A c \in Callers : calls[c].op = "found" /\ ~calls'[c].revoked
             /\ Get(calls[c].tenant, calls[c].id) # NoTool =>
           ts[toolKey(calls[c].tenant, calls[c].id)] # NoTool,
         \A l \in ToolKeys : ts[l] # NoTool => l = KeyOf(ts[l])
  PROVE  Inv'
<1>1. TypeOK'
  BY RegistryAssumption DEF Change, Inv, TypeOK
<1>2. tools' = ts /\ permissions' = ps
  BY DEF Change
<1>3. SeesPresent'
  BY <1>2 DEF SeesPresent, Witnessed, UnderWay
<1>4. FoundIsThere'
  <2> SUFFICES ASSUME NEW c \in Callers, calls'[c].op = "found", ~calls'[c].revoked
               PROVE  ts[toolKey(calls'[c].tenant, calls'[c].id)] # NoTool
    BY <1>2 DEF FoundIsThere, Get
  <2>1. calls[c].op = "found" /\ UnderWay(c)
    BY DEF Witnessed, UnderWay
  <2>2. ~calls[c].revoked
    BY <2>1 DEF Witnessed
  <2> QED
    BY <2>1, <2>2 DEF Witnessed, Inv, FoundIsThere, Get
<1>5. DecidedRightly'
  <2> SUFFICES ASSUME NEW c \in Callers, calls'[c].op \in {"decided", "done"}, ~calls'[c].revoked
               PROVE  \E m \in calls'[c].seen : Justifies(m, calls'[c].status)
    BY DEF DecidedRightly
  <2>1. CASE ~UnderWay(c)
    BY <2>1 DEF Witnessed, Inv, DecidedRightly
  <2>2. CASE UnderWay(c)
    <3>1. calls[c].op = "decided" /\ ~calls[c].revoked
      BY <2>2 DEF Witnessed, UnderWay
    <3>2. PICK m \in calls[c].seen : Justifies(m, calls[c].status)
      BY <3>1 DEF Inv, DecidedRightly
    <3> QED
      BY <2>2, <3>2 DEF Witnessed
  <2> QED
    BY <2>1, <2>2
<1>6. KeptUnderKey'
  BY <1>2 DEF KeptUnderKey
<1> QED
  BY <1>1, <1>3, <1>4, <1>5, <1>6 DEF Inv

\* A change that marks no call.
LEMMA SeenByAll ==
  ASSUME TypeOK, NEW ts, NEW ps, calls' = [c \in Callers |-> Seeing(c, ts, ps)]
  PROVE  calls' \in [Callers -> Calls] /\ \A c \in Callers : Witnessed(c, ts, ps)
<1> SUFFICES ASSUME NEW c \in Callers
             PROVE  calls'[c] \in Calls /\ Witnessed(c, ts, ps)
  OBVIOUS
<1>1. calls'[c] = Seeing(c, ts, ps)
  OBVIOUS
<1>2. CASE ~UnderWay(c)
  BY <1>1, <1>2, SeeingType DEF TypeOK, Witnessed
<1>3. CASE UnderWay(c)
  <2> DEFINE m   == Moment(ts, ps, calls[c].tenant, calls[c].id, calls[c].agent)
             see == [op |-> calls[c].op, tenant |-> calls[c].tenant, id |-> calls[c].id,
                     agent |-> calls[c].agent, status |-> calls[c].status,
                     seen |-> calls[c].seen \cup {m}, revoked |-> calls[c].revoked]
  <2>1. calls'[c] = see /\ see \in Calls
    BY <1>1, <1>3, SeeingType
  <2>2. /\ see.op = calls[c].op /\ see.tenant = calls[c].tenant /\ see.id = calls[c].id
       /\ see.agent = calls[c].agent /\ see.status = calls[c].status
       /\ see.seen = calls[c].seen \cup {m} /\ see.revoked = calls[c].revoked
    OBVIOUS
  <2> HIDE DEF see
  <2> QED
    BY <1>3, <2>1, <2>2 DEF Witnessed
<1> QED
  BY <1>2, <1>3

LEMMA RegisterInv ==
  ASSUME Inv, NEW o \in Owners, NEW x \in Ids, NEW risk \in Risks, Register(o, x, risk)
  PROVE  Inv'
<1> DEFINE t    == IF o = NoTenant THEN Global ELSE o
           tool == [tenantId |-> o, id |-> x, riskClass |-> risk]
           k    == toolKey(t, x)
           ts   == [tools EXCEPT ![k] = tool]
<1>1. t \in Tenants /\ k \in ToolKeys
  BY KeyTypes, RegistryAssumption DEF Owners
<1>2. tool \in Tools /\ tool # NoTool
  BY NoToolType DEF Tools
<1>3. KeyOf(tool) = k
  BY DEF KeyOf
<1>4. Change(ts, permissions) /\ calls' = [c \in Callers |-> Seeing(c, ts, permissions)]
  BY DEF Register
<1> HIDE DEF tool, k
<1>5. ts \in [ToolKeys -> Tools \cup {NoTool}]
  BY <1>1, <1>2 DEF Inv, TypeOK
<1>6. /\ ts[k] = tool
      /\ \A l \in ToolKeys : l # k => ts[l] = tools[l]
  BY <1>1 DEF Inv, TypeOK
<1> HIDE DEF ts
<1>7. permissions \in [PermKeys -> Grants \cup {NoGrant}]
  BY DEF Inv, TypeOK
<1>8. calls' \in [Callers -> Calls] /\ \A c \in Callers : Witnessed(c, ts, permissions)
  BY <1>4, SeenByAll DEF Inv
<1>9. \A l \in ToolKeys : tools[l] # NoTool => ts[l] # NoTool
  BY <1>2, <1>6
<1>10. \A c \in Callers :
         calls[c].op = "found" => toolKey(calls[c].tenant, calls[c].id) \in ToolKeys
  BY CallType, KeyTypes DEF Inv
<1>11. \A c \in Callers : calls[c].op = "found" /\ ~calls'[c].revoked
             /\ Get(calls[c].tenant, calls[c].id) # NoTool =>
           ts[toolKey(calls[c].tenant, calls[c].id)] # NoTool
  BY <1>9, <1>10 DEF Get
<1>12. \A l \in ToolKeys : ts[l] # NoTool => l = KeyOf(ts[l])
  BY <1>3, <1>6 DEF Inv, KeptUnderKey
<1> QED
  BY <1>4, <1>5, <1>7, <1>8, <1>11, <1>12, ChangeInv

LEMMA SetPermissionInv ==
  ASSUME Inv, NEW x \in Ids, NEW s \in Subjects, NEW g \in Grants, SetPermission(x, s, g)
  PROVE  Inv'
<1> DEFINE ps == [permissions EXCEPT ![permKey(x, s)] = g]
<1>1. ps \in [PermKeys -> Grants \cup {NoGrant}]
  BY DEF Inv, TypeOK
<1>2. tools \in [ToolKeys -> Tools \cup {NoTool}]
  BY DEF Inv, TypeOK
<1>3. Change(tools, ps) /\ calls' = [c \in Callers |-> Seeing(c, tools, ps)]
  BY DEF SetPermission
<1> HIDE DEF ps
<1>4. calls' \in [Callers -> Calls] /\ \A c \in Callers : Witnessed(c, tools, ps)
  BY <1>3, SeenByAll DEF Inv
<1>5. \A l \in ToolKeys : tools[l] # NoTool => l = KeyOf(tools[l])
  BY DEF Inv, KeptUnderKey
<1> QED
  BY <1>1, <1>2, <1>3, <1>4, <1>5, ChangeInv DEF Get

LEMMA RevokeInv ==
  ASSUME Inv, NEW t \in Tenants, NEW x \in Ids, Revoke(t, x)
  PROVE  Inv'
<1> DEFINE k  == toolKey(t, x)
           ts == [tools EXCEPT ![k] = NoTool]
           ps == [l \in PermKeys |-> IF StartsWith(l, x) THEN NoGrant ELSE permissions[l]]
           Hit(c) == calls[c].op = "found" /\ toolKey(calls[c].tenant, calls[c].id) = k
<1>1. ts \in [ToolKeys -> Tools \cup {NoTool}]
  BY DEF Inv, TypeOK
<1>2. ps \in [PermKeys -> Grants \cup {NoGrant}]
  BY DEF Inv, TypeOK
<1>3. Change(ts, ps)
  BY DEF Revoke
<1>4. calls' = [c \in Callers |-> IF Hit(c) THEN [Seeing(c, ts, ps) EXCEPT !.revoked = TRUE]
                                  ELSE Seeing(c, ts, ps)]
  BY DEF Revoke
<1>5. /\ \A l \in ToolKeys : l # k => ts[l] = tools[l]
      /\ \A l \in ToolKeys : ts[l] # NoTool => l # k
  BY DEF Inv, TypeOK
<1> HIDE DEF k, ts, ps
<1>6. ASSUME NEW c \in Callers
      PROVE  /\ calls'[c] \in Calls /\ Witnessed(c, ts, ps)
             /\ Hit(c) => calls'[c].revoked
  <2>1. CASE ~UnderWay(c)
    <3>1. ~Hit(c)
      BY <2>1 DEF UnderWay
    <3>2. calls'[c] = calls[c]
      BY <1>4, <2>1, <3>1, SeeingType DEF Inv
    <3> QED
      BY <2>1, <3>1, <3>2 DEF Inv, TypeOK, Witnessed
  <2>2. CASE UnderWay(c) /\ ~Hit(c)
    <3> DEFINE m   == Moment(ts, ps, calls[c].tenant, calls[c].id, calls[c].agent)
               see == [op |-> calls[c].op, tenant |-> calls[c].tenant, id |-> calls[c].id,
                       agent |-> calls[c].agent, status |-> calls[c].status,
                       seen |-> calls[c].seen \cup {m}, revoked |-> calls[c].revoked]
    <3>1. calls'[c] = see /\ see \in Calls
      BY <1>4, <2>2, SeeingType DEF Inv
    <3>2. /\ see.op = calls[c].op /\ see.tenant = calls[c].tenant /\ see.id = calls[c].id
         /\ see.agent = calls[c].agent /\ see.status = calls[c].status
         /\ see.seen = calls[c].seen \cup {m} /\ see.revoked = calls[c].revoked
      OBVIOUS
    <3> HIDE DEF see
    <3> QED
      BY <2>2, <3>1, <3>2 DEF Witnessed
  <2>3. CASE UnderWay(c) /\ Hit(c)
    <3> DEFINE see == [op |-> calls[c].op, tenant |-> calls[c].tenant, id |-> calls[c].id,
                       agent |-> calls[c].agent, status |-> calls[c].status,
                       seen |-> calls[c].seen \cup
                         {Moment(ts, ps, calls[c].tenant, calls[c].id, calls[c].agent)},
                       revoked |-> calls[c].revoked]
    <3>1. calls'[c] = [see EXCEPT !.revoked = TRUE] /\ [see EXCEPT !.revoked = TRUE] \in Calls
      BY <1>4, <2>3, SeeingType DEF Inv
    <3> QED
      BY <2>3, <3>1 DEF Witnessed
  <2> QED
    BY <2>1, <2>2, <2>3
<1>7. calls' \in [Callers -> Calls]
  BY <1>4, <1>6
<1>8. ASSUME NEW c \in Callers, calls[c].op = "found", ~calls'[c].revoked,
             Get(calls[c].tenant, calls[c].id) # NoTool
      PROVE  ts[toolKey(calls[c].tenant, calls[c].id)] # NoTool
  <2>1. toolKey(calls[c].tenant, calls[c].id) \in ToolKeys
    BY <1>8, CallType, KeyTypes DEF Inv
  <2>2. toolKey(calls[c].tenant, calls[c].id) # k
    BY <1>6, <1>8
  <2> QED
    BY <1>5, <1>8, <2>1, <2>2 DEF Get
<1>9. \A l \in ToolKeys : ts[l] # NoTool => l = KeyOf(ts[l])
  BY <1>5 DEF Inv, KeptUnderKey
<1> QED
  BY <1>1, <1>2, <1>3, <1>6, <1>7, <1>8, <1>9, ChangeInv

\* Steps of a caller change nothing but its own call.
LEMMA CallerInv ==
  ASSUME Inv, NEW c \in Callers, NEW v \in Calls,
         calls' = [calls EXCEPT ![c] = v], UNCHANGED <<tools, permissions, changes>>,
         invocations' \in 0..MaxInvocations,
         v.op \in {"found", "decided"} =>
           Moment(tools, permissions, v.tenant, v.id, v.agent) \in v.seen,
         v.op = "found" => Get(v.tenant, v.id) # NoTool,
         v.op \in {"decided", "done"} /\ ~v.revoked => \E m \in v.seen : Justifies(m, v.status)
  PROVE  Inv'
<1>1. calls'[c] = v /\ \A d \in Callers : d # c => calls'[d] = calls[d]
  BY DEF Inv, TypeOK
<1>2. TypeOK'
  BY DEF Inv, TypeOK
<1>3. SeesPresent'
  BY <1>1 DEF Inv, SeesPresent, UnderWay
<1>4. FoundIsThere'
  BY <1>1 DEF Inv, FoundIsThere, Get
<1>5. DecidedRightly'
  BY <1>1 DEF Inv, DecidedRightly
<1>6. KeptUnderKey'
  BY DEF Inv, KeptUnderKey
<1> QED
  BY <1>2, <1>3, <1>4, <1>5, <1>6 DEF Inv

LEMMA InvokeInv ==
  ASSUME Inv, NEW c \in Callers, NEW t \in Tenants, NEW x \in Ids, NEW a \in Invokers,
         Invoke(c, t, x, a)
  PROVE  Inv'
<1> DEFINE m == Moment(tools, permissions, t, x, a)
           v == [op |-> IF Get(t, x) = NoTool THEN "decided" ELSE "found",
                 tenant |-> t, id |-> x, agent |-> a, status |-> "FAILED",
                 seen |-> {m}, revoked |-> FALSE]
<1>1. m \in Moments /\ (m.present <=> Get(t, x) # NoTool)
  BY DEF Moment, Moments, Get
<1>2. calls' = [calls EXCEPT ![c] = v] /\ UNCHANGED <<tools, permissions, changes>>
  BY DEF Invoke
<1>3. invocations' \in 0..MaxInvocations
  BY RegistryAssumption DEF Invoke, Inv, TypeOK
<1>4. v \in Calls
  BY <1>1 DEF Calls, Statuses
<1>5. v.op = "decided" => Justifies(m, v.status)
  BY <1>1 DEF Justifies
<1>6. v.op = "found" => Get(t, x) # NoTool
  OBVIOUS
<1>7. /\ v.seen = {m} /\ v.tenant = t /\ v.id = x /\ v.agent = a
      /\ v.op \in {"found", "decided"}
  OBVIOUS
<1>8. m = Moment(tools, permissions, v.tenant, v.id, v.agent)
  BY <1>7
<1> HIDE DEF v, m
<1> QED
  BY <1>2, <1>3, <1>4, <1>5, <1>6, <1>7, <1>8, CallerInv

LEMMA CheckPermissionInv ==
  ASSUME Inv, NEW c \in Callers, CheckPermission(c)
  PROVE  Inv'
<1> DEFINE call == calls[c]
           m == Moment(tools, permissions, call.tenant, call.id, call.agent)
           s == IF GetPermission(call.id, <<call.agent, Anyone>>) = "DENY"
                THEN "REJECTED" ELSE "SUCCEEDED"
           v == [call EXCEPT !.op = "decided", !.status = s]
<1>1. call.op = "found" /\ call \in
        [op : {"found", "decided", "done"}, tenant : Tenants, id : Ids, agent : Invokers,
         status : Statuses, seen : SUBSET Moments, revoked : BOOLEAN]
  BY DEF CheckPermission, Inv, TypeOK, Calls, Idle
<1>2. m \in call.seen
  BY <1>1 DEF Inv, SeesPresent, UnderWay
<1>3. ~call.revoked => Justifies(m, s)
  BY <1>1 DEF Inv, FoundIsThere, Justifies, Moment, Get, GetPermission
<1>4. calls' = [calls EXCEPT ![c] = v] /\ UNCHANGED <<tools, permissions, changes, invocations>>
  BY DEF CheckPermission
<1>5. s \in Statuses
  BY DEF Statuses
<1> HIDE DEF s
<1>6. /\ v \in Calls /\ v.op = "decided" /\ v.status = s /\ v.seen = call.seen
      /\ v.tenant = call.tenant /\ v.id = call.id /\ v.agent = call.agent
      /\ v.revoked = call.revoked
  BY <1>1, <1>5 DEF Calls
<1>7. invocations' \in 0..MaxInvocations
  BY <1>4 DEF Inv, TypeOK
<1>8. Moment(tools, permissions, v.tenant, v.id, v.agent) = m
  BY <1>6
<1> HIDE DEF v, m, call
<1> QED
  BY <1>2, <1>3, <1>4, <1>6, <1>7, <1>8, CallerInv

LEMMA AnswerInv ==
  ASSUME Inv, NEW c \in Callers, Answer(c)
  PROVE  Inv'
<1> DEFINE call == calls[c]
           v == [call EXCEPT !.op = "done"]
<1>1. call.op = "decided" /\ call \in
        [op : {"found", "decided", "done"}, tenant : Tenants, id : Ids, agent : Invokers,
         status : Statuses, seen : SUBSET Moments, revoked : BOOLEAN]
  BY DEF Answer, Inv, TypeOK, Calls, Idle
<1>2. ~call.revoked => \E m \in call.seen : Justifies(m, call.status)
  BY <1>1 DEF Inv, DecidedRightly
<1>3. calls' = [calls EXCEPT ![c] = v] /\ UNCHANGED <<tools, permissions, changes, invocations>>
  BY DEF Answer
<1>4. /\ v \in Calls /\ v.op = "done" /\ v.status = call.status /\ v.seen = call.seen
      /\ v.revoked = call.revoked
  BY <1>1 DEF Calls
<1>5. invocations' \in 0..MaxInvocations
  BY <1>3 DEF Inv, TypeOK
<1> HIDE DEF v, call
<1> QED
  BY <1>2, <1>3, <1>4, <1>5, CallerInv

LEMMA NextInv == Inv /\ [Next]_vars => Inv'
<1> SUFFICES ASSUME Inv, [Next]_vars PROVE Inv'
  OBVIOUS
<1>1. CASE \E o \in Owners, x \in Ids, risk \in Risks : Register(o, x, risk)
  BY <1>1, RegisterInv
<1>2. CASE \E t \in Tenants, x \in Ids : Revoke(t, x)
  BY <1>2, RevokeInv
<1>3. CASE \E t \in Tenants, x \in Ids, c \in Callers, a \in Invokers : Invoke(c, t, x, a)
  BY <1>3, InvokeInv
<1>4. CASE \E x \in Ids, s \in Subjects, g \in Grants : SetPermission(x, s, g)
  BY <1>4, SetPermissionInv
<1>5. CASE \E c \in Callers : CheckPermission(c)
  BY <1>5, CheckPermissionInv
<1>6. CASE \E c \in Callers : Answer(c)
  BY <1>6, AnswerInv
<1>7. CASE UNCHANGED vars
  BY <1>7 DEF vars, Inv, TypeOK, SeesPresent, FoundIsThere, DecidedRightly, UnderWay,
              KeptUnderKey, Get
<1> QED
  BY <1>1, <1>2, <1>3, <1>4, <1>5, <1>6, <1>7 DEF Next

THEOREM InvCorrect == Spec => []Inv
BY InitInv, NextInv, PTL DEF Spec

\* The state of the registry always has its type.
THEOREM TypeCorrect == Spec => []TypeOK
<1>1. Inv => TypeOK
  BY DEF Inv
<1> QED
  BY <1>1, InvCorrect, PTL

\* invoke is atomic for its caller, except against a revoke of its own tool.
THEOREM Atomic == Spec => []AtomicUnlessRevoked
<1>1. Inv => AtomicUnlessRevoked
  BY DEF Inv, DecidedRightly, AtomicUnlessRevoked
<1> QED
  BY <1>1, InvCorrect, PTL

\* A key begins with the tenant's name and a colon; and if it also begins so
\* with another tenant's name, the one name begins with the other.
LEMMA KeyStarts ==
  ASSUME NEW t \in Tenants, NEW x \in Ids
  PROVE  /\ StartsWith(toolKey(t, x), t)
         /\ \A u \in Tenants : StartsWith(toolKey(t, x), u) =>
              u = t \/ StartsWith(t, u) \/ StartsWith(u, t)
<1>1. t \in Seq(Parts) /\ x \in Seq(Parts) /\ Len(x) > 0
  BY RegistryAssumption DEF Names
<1> DEFINE k == t \o x
<1>2. /\ k \in Seq(Parts) /\ Len(k) = Len(t) + Len(x)
      /\ \A i \in 1..Len(t) : k[i] = t[i]
  BY <1>1
<1> HIDE DEF k
<1>3. StartsWith(k, t)
  <2>1. SubSeq(k, 1, Len(t)) \in Seq(Parts) /\ Len(SubSeq(k, 1, Len(t))) = Len(t)
        /\ \A i \in 1..Len(t) : SubSeq(k, 1, Len(t))[i] = k[i]
    BY <1>1, <1>2
  <2>2. SubSeq(k, 1, Len(t)) = t
    BY <1>1, <1>2, <2>1
  <2> QED
    BY <1>1, <1>2, <2>2 DEF StartsWith
<1>4. ASSUME NEW u \in Tenants, StartsWith(k, u)
      PROVE  u = t \/ StartsWith(t, u) \/ StartsWith(u, t)
  <2>1. u \in Seq(Parts)
    BY RegistryAssumption DEF Names
  <2>2. Len(u) < Len(k) /\ SubSeq(k, 1, Len(u)) = u
    BY <1>4 DEF StartsWith
  <2>3. \A i \in 1..Len(u) : u[i] = k[i]
    <3>1. \A i \in 1..Len(u) : SubSeq(k, 1, Len(u))[i] = k[i]
      BY <1>2, <2>1, <2>2
    <3> QED
      BY <2>2, <3>1
  <2>4. CASE Len(u) = Len(t)
    BY <1>1, <1>2, <2>1, <2>3, <2>4
  <2>5. CASE Len(u) < Len(t)
    <3>1. SubSeq(t, 1, Len(u)) \in Seq(Parts) /\ Len(SubSeq(t, 1, Len(u))) = Len(u)
          /\ \A i \in 1..Len(u) : SubSeq(t, 1, Len(u))[i] = t[i]
      BY <1>1, <2>1, <2>5
    <3>2. SubSeq(t, 1, Len(u)) = u
      BY <1>1, <1>2, <2>1, <2>3, <2>5, <3>1
    <3> QED
      BY <2>5, <3>2 DEF StartsWith
  <2>6. CASE Len(t) < Len(u)
    <3>1. SubSeq(u, 1, Len(t)) \in Seq(Parts) /\ Len(SubSeq(u, 1, Len(t))) = Len(t)
          /\ \A i \in 1..Len(t) : SubSeq(u, 1, Len(t))[i] = u[i]
      BY <1>1, <2>1, <2>6
    <3>2. SubSeq(u, 1, Len(t)) = t
      BY <1>1, <1>2, <2>1, <2>3, <2>6, <3>1
    <3> QED
      BY <2>6, <3>2 DEF StartsWith
  <2> QED
    BY <1>1, <2>1, <2>4, <2>5, <2>6
<1> QED
  BY <1>3, <1>4 DEF toolKey, k

\* Where a stored tool is kept, and the name its key begins with.
LEMMA StoredTool ==
  ASSUME Inv, NEW k \in ToolKeys, tools[k] # NoTool
  PROVE  /\ tools[k] \in Tools /\ k = KeyOf(tools[k])
         /\ \A t \in Tenants : tools[k].tenantId = t =>
              k = toolKey(t, tools[k].id) /\ StartsWith(k, t)
         /\ \A t \in Tenants : Apart(t) /\ StartsWith(k, t) =>
              tools[k].tenantId \in {t} \cup (IF t = Global THEN {NoTenant} ELSE {})
<1> DEFINE o == tools[k].tenantId
           u == IF o = NoTenant THEN Global ELSE o
           x == tools[k].id
<1>1. tools[k] \in Tools /\ k = KeyOf(tools[k])
  BY DEF Inv, TypeOK, KeptUnderKey
<1>2. o \in Owners /\ x \in Ids /\ u \in Tenants /\ k = toolKey(u, x)
  BY <1>1, RegistryAssumption DEF Tools, Owners, KeyOf
<1> HIDE DEF x
<1>3. StartsWith(k, u)
  BY <1>2, KeyStarts
<1>4. \A t \in Tenants : o = t => u = t
  BY RegistryAssumption
<1>5. ASSUME NEW t \in Tenants, Apart(t), StartsWith(k, t)
      PROVE  u = t
  <2>1. t = u \/ StartsWith(u, t) \/ StartsWith(t, u)
    BY <1>2, <1>5, KeyStarts
  <2> QED
    BY <1>2, <1>5, <2>1 DEF Apart
<1>6. \A t \in Tenants : u = t => o \in {t} \cup (IF t = Global THEN {NoTenant} ELSE {})
  OBVIOUS
<1> QED
  BY <1>1, <1>2, <1>3, <1>4, <1>5, <1>6 DEF x

\* get, list and byRiskClass agree on the tools of a tenant, with names of any
\* shape; only a tenant whose name begins another's is shown the other's tools.
THEOREM QueriesAlwaysAgree == Spec => []QueriesAgree
<1>1. Inv => QueriesAgree
  <2> SUFFICES ASSUME Inv, NEW t \in Tenants
               PROVE  /\ \A tool \in List(t) : Get(t, tool.id) = tool
                      /\ \A max \in Risks : \A tool \in List(t) :
                           tool \in ByRiskClass(max, t)
                             <=> RiskOrder[tool.riskClass] <= RiskOrder[max]
                      /\ Apart(t) => \A tool \in ByRiskClass("CRITICAL", t) :
                           tool.tenantId \in {t} \cup (IF t = Global THEN {NoTenant} ELSE {})
    BY DEF QueriesAgree
  <2>1. ASSUME NEW tool \in List(t)
        PROVE  /\ Get(t, tool.id) = tool
               /\ \A max \in Risks : tool \in ByRiskClass(max, t)
                    <=> RiskOrder[tool.riskClass] <= RiskOrder[max]
    <3>1. PICK k \in ToolKeys : tools[k] = tool /\ tool # NoTool
      BY <2>1 DEF List, Stored
    <3>2. tool.tenantId = t
      BY <2>1 DEF List
    <3>3. k = toolKey(t, tool.id) /\ StartsWith(k, t)
      BY <3>1, <3>2, StoredTool
    <3> QED
      BY <3>1, <3>3 DEF Get, ByRiskClass
  <2>2. ASSUME Apart(t), NEW tool \in ByRiskClass("CRITICAL", t)
        PROVE  tool.tenantId \in {t} \cup (IF t = Global THEN {NoTenant} ELSE {})
    <3>1. PICK k \in ToolKeys : tools[k] = tool /\ tool # NoTool /\ StartsWith(k, t)
      BY <2>2 DEF ByRiskClass
    <3> QED
      BY <2>2, <3>1, StoredTool
  <2> QED
    BY <2>1, <2>2
<1> QED
  BY <1>1, InvCorrect, PTL
=============================================================================
