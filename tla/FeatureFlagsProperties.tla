----------------------- MODULE FeatureFlagsProperties -----------------------
(* What the feature flag provider of module FeatureFlags is to ensure.     *)
EXTENDS FeatureFlags

\* The types of the state (CacheEntry, and the awaited database calls).
TypeOK ==
  /\ db \in [Keys -> Rows] /\ cache \in [Keys -> Entries \cup {NoEntry}]
  /\ calls \in [Callers -> Calls \cup {Idle}] /\ changes \in 0..MaxChanges
  /\ gone \in [Keys -> [Rows -> 0..Horizon]]

\* What the cache answers was in the table less than the TTL and the time of
\* one query ago, whatever queries, updates, failures and clearings overlap:
\* an entry is cached from a query, and its time starts when that is over.
BoundedStaleness ==
  \A k \in Keys : Valid(k) => gone[k][cache[k].flag] < Horizon

\* The cache answers what the table says but in these cases: a setFlag of
\* this flag has not returned yet; one overlapped the query that filled the
\* entry, or rejected though the database had executed it; or the row was
\* created after the cache had learnt it was missing.
FreshUnlessOverlapped ==
  \A k \in Keys : cache[k] # NoEntry =>
    \/ cache[k].flag \in {db[k], NoFlag}
    \/ cache[k].late
    \/ \E c \in Callers : calls[c].op = "written" /\ calls[c].key = k

\* Under FairSpec: when the table is not changed any more the cache ends up
\* agreeing with it, however it came to differ.
EventuallyFresh ==
  \A k \in Keys : <>[](Valid(k) => cache[k].flag = db[k])

\* What ADR-102 says of a single instance: no staleness.  When no call is
\* under way the cache answers what the table says.  (The code may not.)
NoStaleness ==
  (\A c \in Callers : calls[c] = Idle)
    => \A k \in Keys : Valid(k) => cache[k].flag \in {db[k], NoFlag}
=============================================================================
