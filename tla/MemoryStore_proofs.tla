------------------------- MODULE MemoryStore_proofs -------------------------
(***************************************************************************)
(* Proofs about MemoryStore, for every value of its constants.  What the   *)
(* properties need besides themselves is what an update in flight holds:   *)
(* a copy of its record that is at most behind in confirmations and in the *)
(* deletion mark, and not even in these if no call raced it.               *)
(***************************************************************************)
EXTENDS MemoryStoreProperties, TLAPS

\* The copy an update took, against the record as it is now.
CopyOK(e, k) ==
  /\ Stored(k)
  /\ UserOf(e) = UserOf(records[k])
  /\ e.retentionPolicy = records[k].retentionPolicy
  /\ e.retentionPolicy \in LegalHold => e.deleted = records[k].deleted
  /\ e.confirmed <= confirmations[k]
  /\ ~raced[k] => /\ e.confirmed = records[k].confirmed
                  /\ e.deleted = records[k].deleted

CopiesOK == \A p \in Callers :
  updates[p] # NoCall => CopyOK(updates[p].existing, updates[p].key)

CountsOK == \A k \in MemKeys :
  /\ Stored(k) => records[k].confirmed <= confirmations[k]
  /\ ~Stored(k) => confirmations[k] = 0 /\ ~forgotten[k]

Inv == TypeOK /\ NothingLostUnlessRaced /\ CopiesOK /\ CountsOK

\* A stored record is a record, a call in flight is a call.
LEMMA NoneTypes ==
  ASSUME TypeOK
  PROVE  /\ NoRecord \notin MemoryRecords /\ NoCall \notin UpdateCalls
         /\ \A k \in MemKeys : Stored(k) <=> records[k] \in MemoryRecords
         /\ \A p \in Callers : updates[p] # NoCall => updates[p] \in UpdateCalls
<1>1. NoRecord \notin MemoryRecords
  BY DEF NoRecord, MemoryRecords
<1>2. NoCall \notin UpdateCalls
  BY DEF NoCall, UpdateCalls
<1> QED
  BY <1>1, <1>2 DEF TypeOK, Stored

LEMMA InitInv == Init => Inv
BY ConfirmsAssumption
   DEF Init, Inv, TypeOK, NothingLostUnlessRaced, CopiesOK, CountsOK, Stored

LEMMA WriteInv ==
  ASSUME Inv, NEW t \in Tenants, NEW i \in Ids, Write(t, i)
  PROVE  Inv'
<1> DEFINE k == <<t, i>>
<1>1. k \in MemKeys /\ ~Stored(k)
  BY DEF Write, MemKeys
<1>2. PICK c \in Contents, h \in Hashes, w \in Identities, p \in Policies, d \in BOOLEAN :
        records' = [records EXCEPT ![k] =
          [content |-> c, contentHash |-> h, who |-> w, retentionPolicy |-> p,
           confirmed |-> 0, deleted |-> d]]
  BY DEF Write
<1> DEFINE r == [content |-> c, contentHash |-> h, who |-> w, retentionPolicy |-> p,
                 confirmed |-> 0, deleted |-> d]
<1>3. r \in MemoryRecords /\ r # NoRecord
  BY ConfirmsAssumption DEF MemoryRecords, NoRecord
<1>4. r.confirmed = 0
  OBVIOUS
<1>5. records' = [records EXCEPT ![k] = r]
        /\ UNCHANGED <<events, updates, confirmations, forgotten, raced>>
  BY <1>2 DEF Write, history
<1> HIDE DEF r, k
<1>6. records'[k] = r /\ \A l \in MemKeys : l # k => records'[l] = records[l]
  BY <1>1, <1>5 DEF Inv, TypeOK
<1>7. TypeOK'
  BY <1>1, <1>3, <1>5 DEF Inv, TypeOK
<1>9. NothingLostUnlessRaced' /\ CountsOK'
  BY <1>1, <1>3, <1>4, <1>5, <1>6 DEF Inv, NothingLostUnlessRaced, CountsOK, Stored
<1>10. CopiesOK'
  <2> SUFFICES ASSUME NEW q \in Callers, updates[q] # NoCall
               PROVE  CopyOK(updates[q].existing, updates[q].key)'
    BY <1>5 DEF CopiesOK
  <2>1. CopyOK(updates[q].existing, updates[q].key) /\ updates[q].key \in MemKeys
    BY NoneTypes DEF Inv, CopiesOK, UpdateCalls
  <2>2. updates[q].key # k
    BY <1>1, <2>1 DEF CopyOK
  <2> QED
    BY <1>5, <1>6, <2>1, <2>2 DEF CopyOK, Stored
<1> QED
  BY <1>7, <1>9, <1>10 DEF Inv

LEMMA StartUpdateInv ==
  ASSUME Inv, NEW p \in Callers, NEW k \in MemKeys, StartUpdate(p, k)
  PROVE  Inv'
<1>1. PICK c \in Contents :
        updates' = [updates EXCEPT ![p] =
                      [key |-> k, existing |-> records[k], content |-> c]]
  BY DEF StartUpdate
<1>2. Stored(k) /\ records[k] \in MemoryRecords
  BY NoneTypes DEF StartUpdate, Inv
<1>3. UNCHANGED <<records, events, confirmations, forgotten, raced>>
  BY DEF StartUpdate, store, history
<1>4. [key |-> k, existing |-> records[k], content |-> c] \in UpdateCalls
  BY <1>2 DEF UpdateCalls
<1>5. TypeOK'
  BY <1>1, <1>3, <1>4 DEF Inv, TypeOK
<1>6. CopyOK(records[k], k)
  BY <1>2 DEF Inv, CopyOK, CountsOK
<1>7. CopiesOK'
  <2> SUFFICES ASSUME NEW q \in Callers, updates'[q] # NoCall
               PROVE  CopyOK(updates[q].existing, updates[q].key)'
    BY DEF CopiesOK
  <2>1. CASE q = p
    <3>1. updates'[q].existing = records[k] /\ updates'[q].key = k
      BY <1>1, <2>1 DEF Inv, TypeOK
    <3> QED
      BY <1>3, <1>6, <3>1 DEF CopyOK, Stored
  <2>2. CASE q # p
    <3>1. updates'[q] = updates[q]
      BY <1>1, <2>2 DEF Inv, TypeOK
    <3>2. CopyOK(updates[q].existing, updates[q].key)
      BY <3>1 DEF Inv, CopiesOK
    <3> QED
      BY <1>3, <3>1, <3>2 DEF CopyOK, Stored
  <2> QED
    BY <2>1, <2>2
<1>8. (NothingLostUnlessRaced /\ CountsOK)'
  BY <1>3 DEF Inv, NothingLostUnlessRaced, CountsOK, Stored
<1> QED
  BY <1>5, <1>7, <1>8 DEF Inv

LEMMA FinishUpdateInv ==
  ASSUME Inv, NEW p \in Callers, FinishUpdate(p)
  PROVE  Inv'
<1> DEFINE k == updates[p].key
           e == updates[p].existing
           c == updates[p].content
           r == [e EXCEPT !.content = c, !.contentHash = c]
<1>1. updates[p] # NoCall /\ updates[p] \in UpdateCalls
  BY NoneTypes DEF FinishUpdate, Inv
<1>2. k \in MemKeys /\ e \in MemoryRecords /\ c \in Contents /\ c \in Hashes
  BY <1>1, HashesAssumption DEF UpdateCalls
<1>3. CopyOK(e, k)
  BY <1>1 DEF Inv, CopiesOK
<1>4. /\ r \in MemoryRecords /\ r.who = e.who
      /\ r.retentionPolicy = e.retentionPolicy
      /\ r.confirmed = e.confirmed /\ r.deleted = e.deleted
  BY <1>2 DEF MemoryRecords
<1>5. /\ records' = [records EXCEPT ![k] = r]
      /\ updates' = [updates EXCEPT ![p] = NoCall]
      /\ UNCHANGED <<events, confirmations, forgotten, raced>>
  BY DEF FinishUpdate, history
<1> HIDE DEF k, e, c, r
<1>6. records'[k] = r /\ \A l \in MemKeys : l # k => records'[l] = records[l]
  BY <1>2, <1>5 DEF Inv, TypeOK
<1>7. r # NoRecord
  BY <1>4, NoneTypes DEF Inv
<1>8. TypeOK'
  BY <1>2, <1>4, <1>5 DEF Inv, TypeOK
<1>10. NothingLostUnlessRaced'
  BY <1>2, <1>3, <1>4, <1>5, <1>6 DEF Inv, NothingLostUnlessRaced, Stored, CopyOK
<1>11. CountsOK'
  BY <1>3, <1>4, <1>5, <1>6, <1>7 DEF Inv, CountsOK, Stored, CopyOK
<1>12. CopiesOK'
  <2> SUFFICES ASSUME NEW q \in Callers, updates'[q] # NoCall
               PROVE  CopyOK(updates[q].existing, updates[q].key)'
    BY DEF CopiesOK
  <2>1. updates'[q] = updates[q]
    BY <1>5 DEF Inv, TypeOK
  <2>2. CopyOK(updates[q].existing, updates[q].key) /\ updates[q].key \in MemKeys
    BY <2>1, NoneTypes DEF Inv, CopiesOK, UpdateCalls
  <2>3. CASE updates[q].key # k
    BY <1>5, <1>6, <2>1, <2>2, <2>3 DEF CopyOK, Stored
  <2>4. CASE updates[q].key = k
    <3>1. UserOf(r) = UserOf(e)
      BY <1>4 DEF UserOf
    <3> QED
      BY <1>3, <1>4, <1>5, <1>6, <1>7, <2>1, <2>2, <2>4, <3>1 DEF CopyOK, Stored
  <2> QED
    BY <2>3, <2>4
<1> QED
  BY <1>8, <1>10, <1>11, <1>12 DEF Inv

\* A confirmation and an erasure mark what they change as raced exactly when
\* a copy of it is in flight.
LEMMA TouchRaces ==
  ASSUME Inv, NEW K \in SUBSET MemKeys, Touch(K)
  PROVE  /\ raced' \in [MemKeys -> BOOLEAN]
         /\ \A k \in MemKeys : raced[k] => raced'[k]
         /\ \A p \in Callers : updates[p] # NoCall /\ updates[p].key \in K
                                 => raced'[updates[p].key]
BY DEF Touch, InFlight, Inv, TypeOK

LEMMA ConfirmInv ==
  ASSUME Inv, NEW k \in MemKeys, Confirm(k)
  PROVE  Inv'
<1> DEFINE r == [records[k] EXCEPT !.confirmed = @ + 1]
<1>1. Stored(k) /\ records[k] \in MemoryRecords /\ confirmations[k] < MaxConfirms
  BY NoneTypes DEF Confirm, Inv
<1>2. confirmations[k] \in 0..MaxConfirms /\ records[k].confirmed <= confirmations[k]
  BY <1>1 DEF Inv, TypeOK, CountsOK
<1>3. records[k].confirmed \in 0..MaxConfirms
  BY <1>1 DEF MemoryRecords
<1>4. records[k].confirmed + 1 \in 0..MaxConfirms
      /\ confirmations[k] + 1 \in 0..MaxConfirms
  BY <1>1, <1>2, <1>3, ConfirmsAssumption
<1>5. /\ r \in MemoryRecords /\ r.who = records[k].who
      /\ r.retentionPolicy = records[k].retentionPolicy
      /\ r.confirmed = records[k].confirmed + 1 /\ r.deleted = records[k].deleted
  BY <1>1, <1>4 DEF MemoryRecords
<1>6. /\ records' = [records EXCEPT ![k] = r]
      /\ confirmations' = [confirmations EXCEPT ![k] = @ + 1]
      /\ UNCHANGED <<events, updates, forgotten>> /\ Touch({k})
  BY DEF Confirm
<1> HIDE DEF r
<1>7. records'[k] = r /\ \A l \in MemKeys : l # k => records'[l] = records[l]
  BY <1>6 DEF Inv, TypeOK
<1>8. /\ confirmations'[k] = confirmations[k] + 1
      /\ \A l \in MemKeys : l # k => confirmations'[l] = confirmations[l]
  BY <1>6 DEF Inv, TypeOK
<1>9. /\ raced' \in [MemKeys -> BOOLEAN]
      /\ \A l \in MemKeys : raced[l] => raced'[l]
      /\ \A p \in Callers : updates[p] # NoCall /\ updates[p].key = k => raced'[k]
  BY <1>6, TouchRaces
<1>10. r # NoRecord
  BY <1>5, NoneTypes DEF Inv
<1>11. TypeOK'
  BY <1>4, <1>5, <1>6, <1>9 DEF Inv, TypeOK
<1>13. NothingLostUnlessRaced'
  BY <1>1, <1>5, <1>6, <1>7, <1>8, <1>9 DEF Inv, NothingLostUnlessRaced, Stored
<1>14. CountsOK'
  BY <1>1, <1>2, <1>3, <1>5, <1>6, <1>7, <1>8, <1>10 DEF Inv, CountsOK, Stored
<1>15. CopiesOK'
  <2> SUFFICES ASSUME NEW q \in Callers, updates[q] # NoCall
               PROVE  CopyOK(updates[q].existing, updates[q].key)'
    BY <1>6 DEF CopiesOK
  <2>1. CopyOK(updates[q].existing, updates[q].key) /\ updates[q].key \in MemKeys
        /\ updates[q].existing \in MemoryRecords
    BY NoneTypes DEF Inv, CopiesOK, UpdateCalls
  <2>2. CASE updates[q].key # k
    BY <1>6, <1>7, <1>8, <1>9, <2>1, <2>2 DEF CopyOK, Stored
  <2>3. CASE updates[q].key = k
    <3>1. UserOf(r) = UserOf(records[k])
      BY <1>5 DEF UserOf
    <3>2. updates[q].existing.confirmed \in Int
      BY <2>1 DEF MemoryRecords
    <3>3. updates[q].existing.confirmed <= confirmations'[k]
      BY <1>2, <1>8, <2>1, <2>3, <3>2 DEF CopyOK
    <3> QED
      BY <1>5, <1>6, <1>7, <1>9, <1>10, <2>1, <2>3, <3>1, <3>3 DEF CopyOK, Stored
  <2> QED
    BY <2>2, <2>3
<1> QED
  BY <1>11, <1>13, <1>14, <1>15 DEF Inv

LEMMA ForgetUserInv ==
  ASSUME Inv, NEW t \in Tenants, NEW u \in Names, ForgetUser(t, u)
  PROVE  Inv'
<1> DEFINE gone == Erasable(t, u)
           erased(k) == [records[k] EXCEPT !.deleted = TRUE]
<1>1. /\ gone \in SUBSET MemKeys
      /\ \A k \in gone : Stored(k) /\ records[k].retentionPolicy \notin LegalHold
  BY DEF Erasable
<1>2. \A k \in gone : records[k] \in MemoryRecords
  BY <1>1, NoneTypes DEF Inv
<1>3. \A k \in gone :
        /\ erased(k) \in MemoryRecords
        /\ UserOf(erased(k)) = UserOf(records[k])
        /\ erased(k).retentionPolicy = records[k].retentionPolicy
        /\ erased(k).confirmed = records[k].confirmed /\ erased(k).deleted
  BY <1>2 DEF MemoryRecords, UserOf
<1>4. \A k \in gone : erased(k) # NoRecord
  BY <1>3, NoneTypes DEF Inv
<1>5. /\ records' = [k \in MemKeys |-> IF k \in gone THEN erased(k) ELSE records[k]]
      /\ forgotten' = [k \in MemKeys |-> forgotten[k] \/ k \in gone]
      /\ Touch(gone)
      /\ UNCHANGED <<events, updates, confirmations>>
  BY DEF ForgetUser
<1> HIDE DEF gone, erased
<1>6. \A k \in MemKeys : /\ k \in gone => records'[k] = erased(k)
                         /\ k \notin gone => records'[k] = records[k]
                         /\ forgotten'[k] = (forgotten[k] \/ k \in gone)
  BY <1>5
<1>7. \A k \in MemKeys : Stored(k)' <=> Stored(k)
  BY <1>1, <1>4, <1>6 DEF Stored
<1>8. /\ raced' \in [MemKeys -> BOOLEAN]
      /\ \A k \in MemKeys : raced[k] => raced'[k]
      /\ \A p \in Callers : updates[p] # NoCall /\ updates[p].key \in gone
                              => raced'[updates[p].key]
  BY <1>1, <1>5, TouchRaces
<1>9. TypeOK'
  <2>1. records' \in [MemKeys -> MemoryRecords \cup {NoRecord}]
    BY <1>3, <1>5 DEF Inv, TypeOK
  <2>2. forgotten' \in [MemKeys -> BOOLEAN]
    BY <1>5 DEF Inv, TypeOK
  <2> QED
    BY <1>5, <1>8, <2>1, <2>2 DEF Inv, TypeOK
<1>12. NothingLostUnlessRaced'
  BY <1>3, <1>5, <1>6, <1>7, <1>8 DEF Inv, NothingLostUnlessRaced
<1>13. CountsOK'
  BY <1>1, <1>3, <1>5, <1>6, <1>7 DEF Inv, CountsOK
<1>14. CopiesOK'
  <2> SUFFICES ASSUME NEW q \in Callers, updates[q] # NoCall
               PROVE  CopyOK(updates[q].existing, updates[q].key)'
    BY <1>5 DEF CopiesOK
  <2>1. CopyOK(updates[q].existing, updates[q].key) /\ updates[q].key \in MemKeys
    BY NoneTypes DEF Inv, CopiesOK, UpdateCalls
  <2>2. CASE updates[q].key \notin gone
    BY <1>5, <1>6, <1>7, <1>8, <2>1, <2>2 DEF CopyOK
  <2>3. CASE updates[q].key \in gone
    BY <1>1, <1>3, <1>5, <1>6, <1>7, <1>8, <2>1, <2>3 DEF CopyOK
  <2> QED
    BY <2>2, <2>3
<1> QED
  BY <1>9, <1>12, <1>13, <1>14 DEF Inv

LEMMA LogEventInv ==
  ASSUME Inv, NEW t \in Tenants, NEW e \in EventIds, LogEvent(t, e)
  PROVE  Inv'
<1>1. PICK u \in Names \cup {NoName} :
        events' = [events EXCEPT ![t] = @ \cup {[id |-> e, userId |-> u]}]
  BY DEF LogEvent
<1>2. UNCHANGED <<records, updates, confirmations, forgotten, raced>>
  BY DEF LogEvent, history
<1>3. TypeOK'
  BY <1>1, <1>2 DEF Inv, TypeOK
<1>4. (NothingLostUnlessRaced /\ CountsOK)'
  BY <1>2 DEF Inv, NothingLostUnlessRaced, CountsOK, Stored
<1>5. CopiesOK'
  BY <1>2 DEF Inv, CopiesOK, CopyOK, Stored
<1> QED
  BY <1>3, <1>4, <1>5 DEF Inv

LEMMA NextInv == Inv /\ [Next]_vars => Inv'
<1> SUFFICES ASSUME Inv, [Next]_vars PROVE Inv'
  OBVIOUS
<1>1. CASE \E t \in Tenants, e \in EventIds : LogEvent(t, e)
  BY <1>1, LogEventInv
<1>2. CASE \E t \in Tenants, i \in Ids : Write(t, i)
  BY <1>2, WriteInv
<1>3. CASE \E k \in MemKeys : Confirm(k)
  BY <1>3, ConfirmInv
<1>4. CASE \E k \in MemKeys, p \in Callers : StartUpdate(p, k)
  BY <1>4, StartUpdateInv
<1>5. CASE \E p \in Callers : FinishUpdate(p)
  BY <1>5, FinishUpdateInv
<1>6. CASE \E t \in Tenants, u \in Names : ForgetUser(t, u)
  BY <1>6, ForgetUserInv
<1>7. CASE UNCHANGED vars
  BY <1>7 DEF vars, store, history, Inv, TypeOK, NothingLostUnlessRaced,
              CopiesOK, CopyOK, CountsOK, Stored
<1> QED
  BY <1>1, <1>2, <1>3, <1>4, <1>5, <1>6, <1>7 DEF Next

----------------------------------------------------------------------------
\* The inductive invariant holds in every reachable state.
THEOREM Invariance == Spec => []Inv
BY InitInv, NextInv, PTL DEF Spec

\* The state always has its types.
THEOREM MemoryTypes == Spec => []TypeOK
<1>1. Inv => TypeOK
  BY DEF Inv
<1> QED
  BY <1>1, Invariance, PTL

\* Confirmations and erasures that no update overlapped are never undone,
\* however many updates overlap each other.
THEOREM NothingIsLostUnlessRaced == Spec => []NothingLostUnlessRaced
<1>1. Inv => NothingLostUnlessRaced
  BY DEF Inv
<1> QED
  BY <1>1, Invariance, PTL

\* An erased record that no update overlapped is out of every read and in the
\* export of its user.
THEOREM ErasedAlwaysExportedNotRead == Spec => []ErasedIsExportedNotRead
<1>1. Inv => ErasedIsExportedNotRead
  <2> SUFFICES ASSUME Inv, NEW k \in MemKeys, forgotten[k], ~raced[k]
               PROVE  /\ \A perms : k \notin Read(perms)
                      /\ k \in ExportUserMemory(k[1], UserOf(records[k])).records
    BY DEF ErasedIsExportedNotRead
  <2>1. Stored(k) /\ records[k].deleted
    BY DEF Inv, CountsOK, NothingLostUnlessRaced
  <2> QED
    BY <2>1 DEF Read, ExportUserMemory
<1> QED
  BY <1>1, Invariance, PTL

\* Callers of different tenants or identities read disjoint sets of records
\* in a scope, and a caller without an identity reads none, whatever is stored.
THEOREM ReadsAlwaysScoped == Spec => []ReadsAreScoped
<1>1. ReadsAreScoped
  <2> SUFFICES ASSUME NEW s \in Dims, NEW t \in Tenants, NEW u \in Tenants,
                      NEW m \in Names, NEW n \in Names
               PROVE  /\ Read(As(t, s, NoName)) = {}
                      /\ <<t, m>> # <<u, n>>
                           => Read(As(t, s, m)) \cap Read(As(u, s, n)) = {}
    BY DEF ReadsAreScoped
  <2>1. \A k \in MemKeys : \A x :
          MatchesScope(records[k], As(t, s, x)) =>
            x # NoName /\ records[k].who[s] = x
    BY ScopesAssumption DEF MatchesScope, As
  <2>2. \A k \in MemKeys : \A x :
          MatchesScope(records[k], As(u, s, x)) => records[k].who[s] = x
    BY ScopesAssumption DEF MatchesScope, As
  <2>3. \A x, v : As(v, s, x).tenantId = v
    BY DEF As
  <2>4. \A k, x : k \in Read(As(t, s, x)) =>
                   /\ k[1] = t /\ x # NoName /\ records[k].who[s] = x
    BY <2>1, <2>3 DEF Read
  <2>5. \A k, x : k \in Read(As(u, s, x)) => k[1] = u /\ records[k].who[s] = x
    BY <2>2, <2>3 DEF Read
  <2> QED
    BY <2>4, <2>5
<1> QED
  BY <1>1, PTL

\* What each action makes of a stored record: the record as it was, with a
\* confirmation or a deletion mark more, or with the content of an update,
\* its digest, and the other fields of the copy the update had taken.
Erased(k)    == /\ records'[k].retentionPolicy = records[k].retentionPolicy
                /\ records[k].retentionPolicy \notin LegalHold
                /\ UserOf(records'[k]) = UserOf(records[k])
                /\ records'[k].content = records[k].content
                /\ records'[k].contentHash = records[k].contentHash
Confirmed(k) == /\ records'[k].retentionPolicy = records[k].retentionPolicy
                /\ records'[k].deleted = records[k].deleted
                /\ UserOf(records'[k]) = UserOf(records[k])
                /\ records'[k].content = records[k].content
                /\ records'[k].contentHash = records[k].contentHash
Updated(k)   == \E e \in MemoryRecords :
                  /\ CopyOK(e, k)
                  /\ records'[k].retentionPolicy = e.retentionPolicy
                  /\ records'[k].deleted = e.deleted
                  /\ UserOf(records'[k]) = UserOf(e)
                  /\ records'[k].contentHash = records'[k].content
Changes(k) == \/ records'[k] = records[k]
              \/ Stored(k)' /\ (Erased(k) \/ Confirmed(k) \/ Updated(k))

LEMMA StepChanges ==
  ASSUME Inv, Next, NEW l \in MemKeys, Stored(l)
  PROVE  Changes(l)
<1>0. records[l] \in MemoryRecords
  BY NoneTypes DEF Inv
<1>1. ASSUME NEW t \in Tenants, NEW e \in EventIds, LogEvent(t, e) PROVE Changes(l)
  BY <1>1 DEF LogEvent, Changes
<1>2. ASSUME NEW t \in Tenants, NEW i \in Ids, Write(t, i) PROVE Changes(l)
  BY <1>2 DEF Write, Inv, TypeOK, MemKeys, Changes
<1>3. ASSUME NEW k \in MemKeys, Confirm(k) PROVE Changes(l)
  <2>1. CASE l # k
    BY <1>3, <2>1 DEF Confirm, Inv, TypeOK, Changes
  <2>2. CASE l = k
    <3>1. Stored(l)' /\ Confirmed(l)
      BY <1>0, <1>3, <2>2
         DEF Confirm, Inv, TypeOK, MemoryRecords, NoRecord, Stored, Confirmed, UserOf
    <3> QED
      BY <3>1 DEF Changes
  <2> QED
    BY <2>1, <2>2
<1>4. ASSUME NEW k \in MemKeys, NEW p \in Callers, StartUpdate(p, k) PROVE Changes(l)
  BY <1>4 DEF StartUpdate, store, Changes
<1>5. ASSUME NEW p \in Callers, FinishUpdate(p) PROVE Changes(l)
  <2> DEFINE k == updates[p].key
             e == updates[p].existing
  <2>1. updates[p] \in UpdateCalls /\ CopyOK(e, k)
    BY <1>5, NoneTypes DEF FinishUpdate, Inv, CopiesOK
  <2>2. e \in MemoryRecords /\ k \in MemKeys
    BY <2>1 DEF UpdateCalls
  <2>3. CASE l # k
    BY <1>5, <2>3 DEF FinishUpdate, Inv, TypeOK, Changes
  <2>4. CASE l = k
    <3>1. /\ records'[l].who = e.who
          /\ records'[l].retentionPolicy = e.retentionPolicy
          /\ records'[l].deleted = e.deleted
          /\ records'[l].contentHash = records'[l].content
          /\ records'[l] # NoRecord
      BY <1>5, <2>2, <2>4 DEF FinishUpdate, Inv, TypeOK, MemoryRecords, NoRecord
    <3>2. UserOf(records'[l]) = UserOf(e)
      BY <3>1 DEF UserOf
    <3>3. Updated(l)
      BY <2>1, <2>2, <2>4, <3>1, <3>2 DEF Updated
    <3> QED
      BY <3>1, <3>3 DEF Changes, Stored
  <2> QED
    BY <2>3, <2>4
<1>6. ASSUME NEW t \in Tenants, NEW u \in Names, ForgetUser(t, u) PROVE Changes(l)
  <2>1. CASE l \notin Erasable(t, u)
    BY <1>6, <2>1 DEF ForgetUser, Changes
  <2>2. CASE l \in Erasable(t, u)
    <3>1. records'[l] = [records[l] EXCEPT !.deleted = TRUE]
      BY <1>6, <2>2 DEF ForgetUser
    <3>2. Stored(l)' /\ Erased(l)
      BY <1>0, <2>2, <3>1 DEF Erasable, MemoryRecords, NoRecord, Stored, Erased, UserOf
    <3> QED
      BY <3>2 DEF Changes
  <2> QED
    BY <2>1, <2>2
<1> QED
  BY <1>1, <1>2, <1>3, <1>4, <1>5, <1>6 DEF Next

\* No step deletes a record under legal-basis retention that was not: forgetUser
\* skips it, and the copies that updates put back agree with it.
THEOREM LegalHoldAlwaysKept == Spec => LegalHoldKept
<1> DEFINE A == \A k \in MemKeys :
             Stored(k) /\ records[k].retentionPolicy \in LegalHold /\ ~records[k].deleted
               => ~records'[k].deleted
<1>1. Inv /\ Next => A
  <2> SUFFICES ASSUME Inv, Next, NEW k \in MemKeys, Stored(k),
                      records[k].retentionPolicy \in LegalHold, ~records[k].deleted
               PROVE  ~records'[k].deleted
    OBVIOUS
  <2>1. Changes(k)
    BY StepChanges
  <2> QED
    BY <2>1 DEF Changes, Erased, Confirmed, Updated, CopyOK
<1>2. Inv /\ [Next]_vars => [A]_vars
  BY <1>1
<1> QED
  BY <1>2, Invariance, PTL DEF Spec, LegalHoldKept

\* However updates overlap, each leaves the digest of the content it leaves,
\* and nothing else touches the content or the hash.
THEOREM HashAlwaysOfContent == Spec => HashOfContent
<1> DEFINE A == \A k \in MemKeys :
             Stored(k) /\ <<records'[k].content, records'[k].contentHash>>
                            # <<records[k].content, records[k].contentHash>>
               => records'[k].contentHash = records'[k].content
<1>1. Inv /\ Next => A
  <2> SUFFICES ASSUME Inv, Next, NEW k \in MemKeys, Stored(k),
                      <<records'[k].content, records'[k].contentHash>>
                        # <<records[k].content, records[k].contentHash>>
               PROVE  records'[k].contentHash = records'[k].content
    OBVIOUS
  <2>1. Changes(k)
    BY StepChanges
  <2> QED
    BY <2>1 DEF Changes, Erased, Confirmed, Updated
<1>2. Inv /\ [Next]_vars => [A]_vars
  BY <1>1
<1> QED
  BY <1>2, Invariance, PTL DEF Spec, HashOfContent

\* No step makes a record vanish, or changes its user or retention policy,
\* or removes an event.
THEOREM NothingEverVanishes == Spec => NothingVanishes
<1> DEFINE Kept ==
     /\ \A k \in MemKeys : Stored(k) =>
          /\ Stored(k)' /\ UserOf(records'[k]) = UserOf(records[k])
          /\ records'[k].retentionPolicy = records[k].retentionPolicy
     /\ \A t \in Tenants : events[t] \subseteq events'[t]
<1>1. Inv /\ Next => Kept
  <2>1. ASSUME Inv, Next, NEW k \in MemKeys, Stored(k)
        PROVE  /\ Stored(k)' /\ UserOf(records'[k]) = UserOf(records[k])
               /\ records'[k].retentionPolicy = records[k].retentionPolicy
    <3>1. Changes(k)
      BY <2>1, StepChanges
    <3> QED
      BY <2>1, <3>1 DEF Changes, Erased, Confirmed, Updated, CopyOK, Stored
  <2>2. ASSUME Inv, Next, NEW t \in Tenants
        PROVE  events[t] \subseteq events'[t]
    <3>1. \/ events' = events
          \/ \E s \in Tenants : \E x : events' = [events EXCEPT ![s] = @ \cup x]
      BY <2>2 DEF Next, LogEvent, Write, Confirm, StartUpdate, FinishUpdate, ForgetUser,
                  store
    <3> QED
      BY <2>2, <3>1 DEF Inv, TypeOK
  <2> QED
    BY <2>1, <2>2
<1>2. Inv /\ [Next]_vars => [Kept]_vars
  BY <1>1
<1> QED
  BY <1>2, Invariance, PTL DEF Spec, NothingVanishes
=============================================================================
