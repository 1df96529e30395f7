----------------------------- MODULE MCLanSync -----------------------------
(* Instances of LanSync for TLC: nodes A and B, as in harness.ts.          *)
EXTENDS LanSyncProperties, TLC

CONSTANTS A, B
MCNodes == {A, B}
MCPeer  == A :> B @@ B :> A
=============================================================================
