---------------------------- MODULE FeatureFlags ----------------------------
(***************************************************************************)
(* SQLiteFeatureFlagProvider (packages/ai): feature flags in a database    *)
(* table, with an in-memory cache whose entries expire.  Every database    *)
(* call is awaited, so that the calls of several callers interleave there: *)
(* the database executes a query at some moment, and the caller goes on at *)
(* a later one.                                                            *)
(*                                                                         *)
(* Time passes in ticks.  An entry keeps what is left of its time,         *)
(* expiresAt - Date.now(), and not the date.  resolve*Value and getFlag    *)
(* all fetch the flag by getFlagInternal, which is Get here; a call that   *)
(* the cache answers changes nothing and is not an action.                 *)
(***************************************************************************)
EXTENDS Integers

CONSTANTS
  Keys,        \* the keys of flags
  Flags,       \* what a row of the table may say
  NoFlag,      \* findUnique's null: there is no such row
  Callers,     \* concurrent callers
  TTL,         \* cacheTtlMs, in ticks
  MaxLatency,  \* what a query takes at most, in ticks
  MaxChanges,  \* bound: changes of the table
  LostAnswers  \* may an executed update be reported as rejected?

ASSUME FlagsAssumption == NoFlag \notin Flags /\ LostAnswers \in BOOLEAN
ASSUME TimesAssumption ==
  TTL \in Nat /\ MaxLatency \in Nat /\ MaxChanges \in Nat

VARIABLES
  db,       \* db[k]: the row of flag k, or NoFlag
  cache,    \* cache[k]: the entry of k, or NoEntry
  calls,    \* calls[c]: the call c awaits, or Idle
  changes,  \* changes of the table so far
  (* History, for the properties only. *)
  gone      \* gone[k][f]: ticks since row k last said f, up to Horizon

vars == <<db, cache, calls, changes, gone>>

Rows    == Flags \cup {NoFlag}
Horizon == TTL + MaxLatency
NoEntry == [left |-> 0]
\* late (history): was the row updated between its reading and its caching,
\* or since then by an update that was reported as rejected?
Entries == [flag : Rows, left : 0..TTL, late : BOOLEAN]
Idle    == [op |-> "idle"]
Asked    == [op : {"get"}, key : Keys, waited : 0..MaxLatency]
Answered == [op : {"got"}, key : Keys, waited : 0..MaxLatency,
             flag : Rows, late : BOOLEAN]
Settings == [op : {"set", "written"}, key : Keys, flag : Flags]
Calls    == Asked \cup Answered \cup Settings

----------------------------------------------------------------------------
(* getFlagInternal.                                                        *)

\* Mutant: an entry never expires.
ValidForEver(k) == cache[k] # NoEntry

\* isCacheValid
Valid(k) == cache[k] # NoEntry /\ cache[k].left > 0

\* No valid entry: the query is sent.
StartGet(c, k) ==
  /\ calls[c] = Idle /\ ~Valid(k)
  /\ calls' = [calls EXCEPT ![c] = [op |-> "get", key |-> k, waited |-> 0]]
  /\ UNCHANGED <<db, cache, changes, gone>>

\* The database executes it.
DbRead(c) ==
  LET call == calls[c] IN
  /\ call.op = "get"
  /\ calls' = [calls EXCEPT ![c] =
       [op |-> "got", key |-> call.key, waited |-> call.waited,
        flag |-> db[call.key], late |-> FALSE]]
  /\ UNCHANGED <<db, cache, changes, gone>>

\* Mutant: seconds for milliseconds, as it were.
FinishGetLonger(c) ==
  LET call == calls[c] IN
  /\ call.op = "got"
  /\ cache' = [cache EXCEPT ![call.key] =
                 [flag |-> call.flag, left |-> TTL + 1, late |-> call.late]]
  /\ calls' = [calls EXCEPT ![c] = Idle]
  /\ UNCHANGED <<db, changes, gone>>

\* Its result is cached, whatever happened since, and returned.
FinishGet(c) ==
  LET call == calls[c] IN
  /\ call.op = "got"
  /\ cache' = [cache EXCEPT ![call.key] =
                 [flag |-> call.flag, left |-> TTL, late |-> call.late]]
  /\ calls' = [calls EXCEPT ![c] = Idle]
  /\ UNCHANGED <<db, changes, gone>>

----------------------------------------------------------------------------
(* setFlag, and the other ways to change the cache and the table.          *)

StartSet(c, k) ==
  /\ calls[c] = Idle
  /\ \E f \in Flags :
       calls' = [calls EXCEPT ![c] = [op |-> "set", key |-> k, flag |-> f]]
  /\ UNCHANGED <<db, cache, changes, gone>>

\* Row k becomes f: what was read of it and is not cached yet comes late.
Change(k, f) ==
  /\ changes < MaxChanges
  /\ changes' = changes + 1
  /\ db' = [db EXCEPT ![k] = f]
  /\ gone' = [gone EXCEPT ![k][f] = 0]

\* The database executes the update of a row that exists.
DbWrite(c) ==
  LET call == calls[c]
      Late(d) == IF calls[d].op = "got" /\ calls[d].key = call.key
                 THEN [calls[d] EXCEPT !.late = TRUE] ELSE calls[d] IN
  /\ call.op = "set" /\ db[call.key] # NoFlag
  /\ Change(call.key, call.flag)
  /\ calls' = [d \in Callers |->
       IF d = c THEN [call EXCEPT !.op = "written"] ELSE Late(d)]
  /\ UNCHANGED cache

\* Mutant: the entry is not deleted.
FinishSetKeeps(c) ==
  /\ calls[c].op = "written"
  /\ calls' = [calls EXCEPT ![c] = Idle]
  /\ UNCHANGED <<db, cache, changes, gone>>

FinishSet(c) ==
  /\ calls[c].op = "written"
  /\ cache' = [cache EXCEPT ![calls[c].key] = NoEntry]
  /\ calls' = [calls EXCEPT ![c] = Idle]
  /\ UNCHANGED <<db, changes, gone>>

\* findUnique is rejected: the method rejects with it, nothing is cached.
FailGet(c) ==
  /\ calls[c].op \in {"get", "got"}
  /\ calls' = [calls EXCEPT ![c] = Idle]
  /\ UNCHANGED <<db, cache, changes, gone>>

\* update is rejected, not executed: the row does not exist, or any other
\* error.  setFlag rejects with it; the entry is not deleted.
FailSet(c) ==
  /\ calls[c].op = "set"
  /\ calls' = [calls EXCEPT ![c] = Idle]
  /\ UNCHANGED <<db, cache, changes, gone>>

\* An update is executed, and its promise is rejected all the same (its answer
\* was lost): setFlag rejects, and the entry is not deleted.
FailExecuted(c) ==
  LET k == calls[c].key IN
  /\ LostAnswers /\ calls[c].op = "written"
  /\ calls' = [calls EXCEPT ![c] = Idle]
  /\ cache' = IF cache[k] = NoEntry THEN cache ELSE [cache EXCEPT ![k].late = TRUE]
  /\ UNCHANGED <<db, changes, gone>>

\* invalidateCache; listByTier, before its query, which it does not cache.
InvalidateCache ==
  /\ cache' = [k \in Keys |-> NoEntry]
  /\ UNCHANGED <<db, calls, changes, gone>>

\* A row is created, which the provider itself never does.
CreateRow(k) ==
  /\ db[k] = NoFlag
  /\ \E f \in Flags : Change(k, f)
  /\ UNCHANGED <<cache, calls>>

----------------------------------------------------------------------------
Init ==
  /\ db \in [Keys -> Rows] /\ cache = [k \in Keys |-> NoEntry]
  /\ calls = [c \in Callers |-> Idle] /\ changes = 0
  /\ gone = [k \in Keys |-> [f \in Rows |-> IF f = db[k] THEN 0 ELSE Horizon]]

UpTo(n, bound) == IF n < bound THEN n + 1 ELSE bound

\* A tick: entries run out, and no query takes longer than MaxLatency.
Tick ==
  /\ \A c \in Callers : calls[c].op \in {"get", "got"}
                          => calls[c].waited < MaxLatency
  /\ calls' = [c \in Callers |-> IF calls[c].op \in {"get", "got"}
                 THEN [calls[c] EXCEPT !.waited = @ + 1] ELSE calls[c]]
  /\ cache' = [k \in Keys |-> IF cache[k].left > 0
                 THEN [cache[k] EXCEPT !.left = @ - 1] ELSE cache[k]]
  /\ gone' = [k \in Keys |-> [f \in Rows |->
                IF f = db[k] THEN 0 ELSE UpTo(gone[k][f], Horizon)]]
  /\ UNCHANGED <<db, changes>>

CallerNext(c) == \/ \E k \in Keys : StartGet(c, k) \/ StartSet(c, k)
                 \/ DbRead(c) \/ FinishGet(c) \/ DbWrite(c) \/ FinishSet(c)
                 \/ FailGet(c) \/ FailSet(c) \/ FailExecuted(c)
Next == \/ \E c \in Callers : CallerNext(c)
        \/ \E k \in Keys : CreateRow(k)
        \/ InvalidateCache \/ Tick

Spec == Init /\ [][Next]_vars

\* Time passes, and every awaited call is answered.
Answer(c) == DbRead(c) \/ FinishGet(c) \/ DbWrite(c) \/ FinishSet(c)
             \/ FailGet(c) \/ FailSet(c) \/ FailExecuted(c)
Fairness  == WF_vars(Tick) /\ \A c \in Callers : WF_vars(Answer(c))
FairSpec  == Spec /\ Fairness
=============================================================================
