----------------------- MODULE MemoryStoreProperties -----------------------
(* What the memory store of module MemoryStore is meant to ensure.         *)
EXTENDS MemoryStore

\* The types of the state (MemoryRecord, MemoryEvent of the SDK).
TypeOK ==
  /\ records \in [MemKeys -> MemoryRecords \cup {NoRecord}]
  /\ events \in [Tenants -> SUBSET [id : EventIds, userId : Names \cup {NoName}]]
  /\ updates \in [Callers -> UpdateCalls \cup {NoCall}]
  /\ confirmations \in [MemKeys -> 0..MaxConfirms]
  /\ forgotten \in [MemKeys -> BOOLEAN] /\ raced \in [MemKeys -> BOOLEAN]

\* What forgetUser must not erase stays: no step deletes a record under
\* legal-basis retention, whatever stale copies updates put back.  (One that
\* its writer stored with a deletion mark is deleted from the start.)
LegalHoldKept ==
  [][\A k \in MemKeys :
       Stored(k) /\ records[k].retentionPolicy \in LegalHold /\ ~records[k].deleted
         => ~records'[k].deleted]_vars

\* A hash the writer made up stays only beside the content it was written
\* with: a step that changes the content or the hash of a record leaves it
\* with the digest of its content, however updates overlap.
HashOfContent ==
  [][\A k \in MemKeys :
       Stored(k) /\ <<records'[k].content, records'[k].contentHash>>
                      # <<records[k].content, records[k].contentHash>>
         => records'[k].contentHash = records'[k].content]_vars

\* A record whose confirmations and erasure never overlapped an update has
\* lost none of them: updates alone, even overlapping ones, undo nothing.
NothingLostUnlessRaced ==
  \A k \in MemKeys : Stored(k) /\ ~raced[k] =>
    /\ records[k].confirmed = confirmations[k]
    /\ forgotten[k] => records[k].deleted

\* A caller of read: its tenant, its scope, and its identity in that scope
\* (the identities it has in other scopes do not count).
As(t, s, n) == [tenantId |-> t, scope |-> s, who |-> [d \in Dims |-> n]]

\* In a scope, two callers whose tenants or identities differ read disjoint
\* sets of records; one without an identity reads none.
ReadsAreScoped ==
  \A s \in Dims : \A t, u \in Tenants : \A m, n \in Names :
    /\ Read(As(t, s, NoName)) = {}
    /\ <<t, m>> # <<u, n>> => Read(As(t, s, m)) \cap Read(As(u, s, n)) = {}

\* An erased record is not read again, but the export still has it, unless
\* an update had read it before it was erased.
ErasedIsExportedNotRead ==
  \A k \in MemKeys : forgotten[k] /\ ~raced[k] =>
    /\ \A t \in Tenants : k \notin Read(As(t, "TENANT_SHARED", NoName))
    /\ \A s \in Dims, t \in Tenants, n \in Names : k \notin Read(As(t, s, n))
    /\ k \in ExportUserMemory(k[1], UserOf(records[k])).records

\* A record never vanishes, and keeps its identities and its retention
\* policy; an event is never removed: deletion is soft, the log append-only.
NothingVanishes ==
  [][/\ \A k \in MemKeys : Stored(k) =>
          /\ Stored(k)' /\ UserOf(records'[k]) = UserOf(records[k])
          /\ records'[k].retentionPolicy = records[k].retentionPolicy
     /\ \A t \in Tenants : events[t] \subseteq events'[t]]_vars

\* What update's comment says: it preserves all fields but the content and
\* its hash, so that an erased record stays erased.  (The code does not.)
ForgottenStaysDeleted ==
  \A k \in MemKeys : forgotten[k] => records[k].deleted
=============================================================================
