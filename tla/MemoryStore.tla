---------------------------- MODULE MemoryStore ----------------------------
(***************************************************************************)
(* InMemoryMemoryStore (packages/ai): tenant-scoped memory records in a    *)
(* Map.  Every method runs to completion when it is called, except update: *)
(* it reads the record, awaits a SHA-256 digest, and then puts a copy of   *)
(* what it had read, with the new content, back into the Map.  Calls made  *)
(* by others meanwhile interleave with it there.                           *)
(*                                                                         *)
(* A rejected call (unknown record, wrong tenant, invalid category, empty  *)
(* userId) throws before it changes anything and is not an action.         *)
(***************************************************************************)
EXTENDS Integers, FiniteSets

CONSTANTS
  Tenants,           \* the tenants
  Ids, EventIds,     \* the UUIDs records and events are given
  Dims,              \* the scopes but TENANT_SHARED: SESSION, USER_PRIVATE, ...
  Names,             \* the identities (user, session, agent ... ids)
  Identities,        \* the identities records carry, per scope or NoName
  NoName,            \* an identity that is undefined
  Policies, LegalHold,   \* retention policies; TAX_7Y and ACCESS_LOG_7Y
  Contents,          \* what records say
  Hashes,            \* hash values: the digest of each content, and others
  Callers,           \* concurrent callers of update
  MaxConfirms        \* bound: confirmations of one record

ASSUME ScopesAssumption ==
  /\ "USER_PRIVATE" \in Dims /\ "TENANT_SHARED" \notin Dims
  /\ NoName \notin Names
  /\ Identities \subseteq [Dims -> Names \cup {NoName}]
ASSUME PoliciesAssumption == LegalHold \subseteq Policies
ASSUME HashesAssumption == Contents \subseteq Hashes
ASSUME ConfirmsAssumption == MaxConfirms \in Nat

VARIABLES
  records,       \* records[t, i]: the record of tenant t with id i
  events,        \* events[t]: the episodic events of t, by id and user
  updates,       \* updates[p]: the call of update p awaits, or NoCall
  (* History, for the properties only. *)
  confirmations, \* confirmations[t, i]: completed calls of confirm
  forgotten,     \* forgotten[t, i]: has a forgetUser deleted it?
  raced          \* raced[t, i]: was it changed while an update awaited?

store   == <<records, events>>
history == <<confirmations, forgotten, raced>>
vars    == <<store, updates, history>>

MemKeys  == Tenants \X Ids
NoRecord == [content |-> "none"]
\* A digest is represented by the content it is of: SHA-256 has no collisions
\* here.  The caller of write supplies contentHash, update computes it.
MemoryRecords ==
  [content : Contents, contentHash : Hashes, who : Identities,
   retentionPolicy : Policies, confirmed : 0..MaxConfirms, deleted : BOOLEAN]
Stored(k) == records[k] # NoRecord
UserOf(r) == r.who["USER_PRIVATE"]
NoCall    == [existing |-> NoRecord]
UpdateCalls == [key : MemKeys, existing : MemoryRecords, content : Contents]

----------------------------------------------------------------------------
(* Reading.                                                                *)

\* Mutant: an undefined identity matches an undefined identity.
MatchesScopeLoosely(r, perms) ==
  \/ perms.scope = "TENANT_SHARED"
  \/ perms.scope \in Dims /\ r.who[perms.scope] = perms.who[perms.scope]

MatchesScope(r, perms) ==
  \/ perms.scope = "TENANT_SHARED"
  \/ /\ perms.scope \in Dims
     /\ perms.who[perms.scope] # NoName
     /\ r.who[perms.scope] = perms.who[perms.scope]

\* Mutant: soft-deleted records are returned.
ReadDeletedToo(perms) ==
  {k \in MemKeys : /\ Stored(k) /\ k[1] = perms.tenantId
                   /\ MatchesScope(records[k], perms)}

\* The keys of the records read may return: the query's own filters, its
\* ranking and its limit only leave some of them out.
Read(perms) ==
  {k \in MemKeys : /\ Stored(k) /\ k[1] = perms.tenantId /\ ~records[k].deleted
                   /\ MatchesScope(records[k], perms)}

\* exportUserMemory: what a user has in a tenant, deleted records included.
ExportUserMemory(t, u) ==
  [records |-> {k \in MemKeys : Stored(k) /\ k[1] = t /\ UserOf(records[k]) = u},
   events  |-> {e \in events[t] : e.userId = u}]

----------------------------------------------------------------------------
(* Writing.                                                                *)

InFlight(k) == \E p \in Callers : updates[p] # NoCall /\ updates[p].key = k
\* The records of K change; those an update has read are from now on raced.
Touch(K) == raced' = [k \in MemKeys |-> raced[k] \/ (k \in K /\ InFlight(k))]

\* Mutant: the counter is not set, the input is stored as it is.
WriteUncounted(t, i) ==
  /\ \A s \in Tenants : ~Stored(<<s, i>>)
  /\ \E c \in Contents, h \in Hashes, w \in Identities, p \in Policies, d \in BOOLEAN :
       records' = [records EXCEPT ![<<t, i>>] =
         [content |-> c, contentHash |-> h, who |-> w, retentionPolicy |-> p,
          deleted |-> d]]
  /\ UNCHANGED <<events, updates, history>>

\* write: the caller's record under a new id, its counters zeroed.  Whether
\* the hash is that of the content, or there is a deletion mark already, is
\* the caller's doing.
Write(t, i) ==
  /\ \A s \in Tenants : ~Stored(<<s, i>>)      \* randomUUID() is new
  /\ \E c \in Contents, h \in Hashes, w \in Identities, p \in Policies, d \in BOOLEAN :
       records' = [records EXCEPT ![<<t, i>>] =
         [content |-> c, contentHash |-> h, who |-> w, retentionPolicy |-> p,
          confirmed |-> 0, deleted |-> d]]
  /\ UNCHANGED <<events, updates, history>>

\* update, up to its await.
StartUpdate(p, k) ==
  /\ updates[p] = NoCall /\ Stored(k)
  /\ \E c \in Contents :
       updates' = [updates EXCEPT ![p] =
                     [key |-> k, existing |-> records[k], content |-> c]]
  /\ UNCHANGED <<store, history>>

\* Mutants: the digest is forgotten; a copy without the counters is stored.
FinishUpdateOldHash(p) ==
  LET call == updates[p] IN
  /\ call # NoCall
  /\ records' = [records EXCEPT ![call.key] =
                   [call.existing EXCEPT !.content = call.content]]
  /\ updates' = [updates EXCEPT ![p] = NoCall]
  /\ UNCHANGED <<events, history>>
FinishUpdateAfresh(p) ==
  LET call == updates[p] IN
  /\ call # NoCall
  /\ records' = [records EXCEPT ![call.key] =
       [call.existing EXCEPT !.content = call.content, !.contentHash = call.content,
                             !.confirmed = 0, !.deleted = FALSE]]
  /\ updates' = [updates EXCEPT ![p] = NoCall]
  /\ UNCHANGED <<events, history>>

\* update, after it: the record as it was read, with the new content and its
\* digest, replaces whatever is stored by now.
FinishUpdate(p) ==
  LET call == updates[p] IN
  /\ call # NoCall
  /\ records' = [records EXCEPT ![call.key] =
       [call.existing EXCEPT !.content = call.content, !.contentHash = call.content]]
  /\ updates' = [updates EXCEPT ![p] = NoCall]
  /\ UNCHANGED <<events, history>>

Confirm(k) ==
  /\ Stored(k) /\ confirmations[k] < MaxConfirms
  /\ records' = [records EXCEPT ![k].confirmed = @ + 1]
  /\ confirmations' = [confirmations EXCEPT ![k] = @ + 1]
  /\ Touch({k})
  /\ UNCHANGED <<events, updates, forgotten>>

\* The records forgetUser erases: those of user u in tenant t that are not
\* deleted yet, but for the ones under legal hold.
\* Mutant: legal hold does not count.
ErasableAll(t, u) ==
  {k \in MemKeys : /\ Stored(k) /\ k[1] = t /\ UserOf(records[k]) = u
                   /\ ~records[k].deleted}
Erasable(t, u) ==
  {k \in MemKeys : /\ Stored(k) /\ k[1] = t /\ UserOf(records[k]) = u
                   /\ ~records[k].deleted
                   /\ records[k].retentionPolicy \notin LegalHold}

\* Mutant: the records are removed.
ForgetUserHard(t, u) ==
  LET gone == Erasable(t, u) IN
  /\ records' = [k \in MemKeys |-> IF k \in gone THEN NoRecord ELSE records[k]]
  /\ forgotten' = [k \in MemKeys |-> forgotten[k] \/ k \in gone]
  /\ Touch(gone)
  /\ UNCHANGED <<events, updates, confirmations>>

ForgetUser(t, u) ==
  LET gone == Erasable(t, u) IN
  /\ records' = [k \in MemKeys |-> IF k \in gone
                   THEN [records[k] EXCEPT !.deleted = TRUE] ELSE records[k]]
  /\ forgotten' = [k \in MemKeys |-> forgotten[k] \/ k \in gone]
  /\ Touch(gone)
  /\ UNCHANGED <<events, updates, confirmations>>

\* logEvent: an event with a new id is appended.
LogEvent(t, e) ==
  /\ \A s \in Tenants : \A x \in events[s] : x.id # e
  /\ \E u \in Names \cup {NoName} :
       events' = [events EXCEPT ![t] = @ \cup {[id |-> e, userId |-> u]}]
  /\ UNCHANGED <<records, updates, history>>

----------------------------------------------------------------------------
Init ==
  /\ records = [k \in MemKeys |-> NoRecord]
  /\ events = [t \in Tenants |-> {}]
  /\ updates = [p \in Callers |-> NoCall]
  /\ confirmations = [k \in MemKeys |-> 0]
  /\ forgotten = [k \in MemKeys |-> FALSE] /\ raced = [k \in MemKeys |-> FALSE]

Next ==
  \/ \E t \in Tenants, e \in EventIds : LogEvent(t, e)
  \/ \E t \in Tenants, i \in Ids : Write(t, i)
  \/ \E k \in MemKeys : Confirm(k) \/ \E p \in Callers : StartUpdate(p, k)
  \/ \E p \in Callers : FinishUpdate(p)
  \/ \E t \in Tenants, u \in Names : ForgetUser(t, u)

Spec == Init /\ [][Next]_vars
=============================================================================
