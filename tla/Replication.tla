---------------------------- MODULE Replication ----------------------------
(***************************************************************************)
(* What the LAN synchronisation promises, without clients, sockets or      *)
(* states: every node has a store that only grows, a record appears first  *)
(* at the node that wrote it, copies are made of stored records only, and  *)
(* a write is confirmed once both its node and the peer have stored it.    *)
(***************************************************************************)
CONSTANTS Nodes, Peer, Records, Owner(_)

VARIABLES store,      \* store[n]: the records node n has
          confirmed   \* confirmed[n]: the writes of n reported as replicated

vars == <<store, confirmed>>

Init == store = [n \in Nodes |-> {}] /\ confirmed = [n \in Nodes |-> {}]

Write(n) ==
  /\ \E r \in Records : Owner(r) = n /\ store' = [store EXCEPT ![n] = @ \cup {r}]
  /\ UNCHANGED confirmed

\* Some of what m has is copied to n.
Copy(m, n) ==
  /\ \E R \in SUBSET store[m] : store' = [store EXCEPT ![n] = @ \cup R]
  /\ UNCHANGED confirmed

Confirm(n) ==
  /\ \E R \in SUBSET (store[n] \cap store[Peer[n]]) :
       confirmed' = [confirmed EXCEPT ![n] = @ \cup R]
  /\ UNCHANGED store

Next == \E n \in Nodes : Write(n) \/ Confirm(n) \/ \E m \in Nodes : Copy(m, n)

Spec == Init /\ [][Next]_vars

=============================================================================
