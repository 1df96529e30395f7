------------------------------ MODULE RankFusion ------------------------------
(* The rank fusion of RrfRetriever, packages/ai/src/rrf-retriever.ts, and    *)
(* NoopReranker, as functions of the providers' ranked lists.                *)
(*                                                                           *)
(* A result is its chunk and its tenant, a score a fraction: ranks and       *)
(* weights are small, so that floating point orders scores as fractions.     *)
EXTENDS Integers, SequencesExt, Selections

FilterTenant(results, tenant) == Only(results, {r \in ToSet(results) : r.tenant = tenant})
TopK(results, k) == SubSeq(results, 1, IF Len(results) < k THEN Len(results) ELSE k)

RankIn(list, r) == CHOOSE i \in DOMAIN list : list[i] = r
Among(list, r)  == \E i \in DOMAIN list : list[i] = r

\* Mutant: the rank itself.
ContributionByRank(list, weight, rrfK, r) ==
  IF Among(list, r) THEN [num |-> weight * RankIn(list, r), den |-> 1]
  ELSE [num |-> 0, den |-> 1]

\* weight / (rrfK + rank); rows of other tenants count in the ranks.
Contribution(list, weight, rrfK, r) ==
  IF Among(list, r) THEN [num |-> weight, den |-> rrfK + RankIn(list, r)]
  ELSE [num |-> 0, den |-> 1]

Score(kw, sem, o, r) ==
  LET a == Contribution(kw, o.keywordWeight, o.rrfK, r)
      b == Contribution(sem, o.semanticWeight, o.rrfK, r) IN
  [num |-> a.num * b.den + b.num * a.den, den |-> a.den * b.den]

\* The rows in the order of their first insertion, keyword rows first.
Inserted(kw, sem, tenant) ==
  FilterTenant(kw, tenant) \o
    Only(sem, {r \in ToSet(sem) : r.tenant = tenant /\ ~Among(kw, r)})

Exceeds(x, y) == x.num * y.den > y.num * x.den

\* By descending score; the sort is stable.
Fuse(kw, sem, o) ==
  LET inserted == Inserted(kw, sem, o.tenant)
      score(p) == Score(kw, sem, o, inserted[p]) IN
  Arranged(inserted,
           {pq \in (1..Len(inserted)) \X (1..Len(inserted)) :
              \/ Exceeds(score(pq[1]), score(pq[2]))
              \/ ~Exceeds(score(pq[2]), score(pq[1])) /\ pq[1] < pq[2]})

\* k is 10 for a caller who asks for none.
Wanted(o) == IF o.k > 0 THEN o.k ELSE 10

\* What each provider is asked for.
CandidateK(o) ==
  IF o.multiplier >= 1 THEN Wanted(o) * o.multiplier ELSE Wanted(o)

\* An empty side leaves the other as it is, before tenants are looked at.
RunHybrid(kw, sem, o) ==
  CASE kw = <<>>                 -> TopK(FilterTenant(sem, o.tenant), Wanted(o))
    [] kw # <<>> /\ sem = <<>>   -> TopK(FilterTenant(kw, o.tenant), Wanted(o))
    [] kw # <<>> /\ sem # <<>>   -> TopK(Fuse(kw, sem, o), Wanted(o))

RunOne(results, o) == TopK(FilterTenant(results, o.tenant), Wanted(o))

\* topK is -1 for a caller who sets none.
Rerank(candidates, topK) == IF topK >= 0 THEN TopK(candidates, topK) ELSE candidates
=============================================================================
