--------------------------- MODULE MCMemoryStore ---------------------------
(* Instances of MemoryStore for TLC: two tenants, two scopes, records of   *)
(* two users and of none.                                                  *)
EXTENDS MemoryStoreProperties, TLC

CONSTANTS U, V, None
MCDims == {"SESSION", "USER_PRIVATE"}
\* A session of U, one of V, one of U by V, and neither session nor user.
MCIdentities == {[d \in MCDims |-> U], [d \in MCDims |-> V],
                 [d \in MCDims |-> IF d = "SESSION" THEN U ELSE V],
                 [d \in MCDims |-> None]}
MCPolicies  == {"NO_TTL", "TAX_7Y"}
MCLegalHold == {"TAX_7Y"}
Symmetric == Permutations(Callers) \cup Permutations(Tenants)
               \cup Permutations(Ids) \cup Permutations(Contents)
=============================================================================
