----------------------------- MODULE Selections -----------------------------
(* Array.prototype.filter, push and sort as the code uses them, in a form that *)
(* proofs can unfold: a test is the set of what passes it, a comparison the   *)
(* set of the pairs of places it puts in order.                              *)
EXTENDS Integers, Sequences, FiniteSets

\* filter: the elements of s that are in S, in their order.
Only(s, S) ==
  LET kept[n \in 0..Len(s)] ==
        IF n = 0 THEN <<>>
        ELSE IF s[n] \in S THEN Append(kept[n - 1], s[n]) ELSE kept[n - 1]
  IN  kept[Len(s)]

\* push(...list) for one list of ss after the other.
Flat(ss) ==
  LET flat[n \in 0..Len(ss)] == IF n = 0 THEN <<>> ELSE flat[n - 1] \o ss[n]
  IN  flat[Len(ss)]

\* sort: the elements of s by the order `before' of their places, a pair for
\* every two of them; sort is stable, so ties are in it by place.
Arranged(s, before) ==
  [i \in 1..Len(s) |->
     s[CHOOSE p \in 1..Len(s) : Cardinality({q \in 1..Len(s) : <<q, p>> \in before}) = i - 1]]

\* sort((a, b) => a - b)
Ascending(s) ==
  Arranged(s, {pq \in (1..Len(s)) \X (1..Len(s)) :
                 s[pq[1]] < s[pq[2]] \/ (s[pq[1]] = s[pq[2]] /\ pq[1] < pq[2])})
=============================================================================
