------------------------ MODULE FeatureFlags_proofs ------------------------
(***************************************************************************)
(* Proofs about FeatureFlags, for every value of its constants.  A bound   *)
(* on how old an entry is follows from one on how old the answer of a      *)
(* query under way is: no older than the query itself.                     *)
(***************************************************************************)
EXTENDS FeatureFlagsProperties, TLAPS

\* The row of the moment has not been gone for any time.
CurrentIsNotGone == \A k \in Keys : gone[k][db[k]] = 0

\* An answer was in the table since its query was sent; an entry may get as
\* old as the bound just when its time is over.
AnswersNotOld == \A c \in Callers : calls[c].op = "got" =>
  gone[calls[c].key][calls[c].flag] <= calls[c].waited
EntriesNotOld == \A k \in Keys : cache[k] # NoEntry =>
  gone[k][cache[k].flag] + cache[k].left <= Horizon

\* An answer that no update overlapped is what the table says.
AnswersFresh == \A c \in Callers : calls[c].op = "got" =>
  calls[c].flag \in {db[calls[c].key], NoFlag} \/ calls[c].late

Inv == /\ TypeOK /\ CurrentIsNotGone /\ AnswersNotOld /\ EntriesNotOld
       /\ AnswersFresh /\ FreshUnlessOverlapped

\* What a call in flight is, by its op.
LEMMA CallTypes ==
  ASSUME TypeOK, NEW c \in Callers
  PROVE  /\ calls[c].op = "get" => calls[c] \in Asked
         /\ calls[c].op = "got" => calls[c] \in Answered
         /\ calls[c].op \in {"set", "written"} => calls[c] \in Settings
BY DEF TypeOK, Calls, Asked, Answered, Settings, Idle

LEMMA HorizonType == Horizon \in Nat /\ TTL <= Horizon /\ MaxLatency <= Horizon
                     /\ Horizon = TTL + MaxLatency
BY TimesAssumption DEF Horizon

LEMMA EntryTypes ==
  ASSUME TypeOK, NEW k \in Keys
  PROVE  /\ NoEntry \notin Entries
         /\ cache[k] # NoEntry <=> cache[k] \in Entries
<1>1. NoEntry \notin Entries
  BY DEF Entries, NoEntry
<1> QED
  BY <1>1 DEF TypeOK

LEMMA InitInv == Init => Inv
<1> SUFFICES ASSUME Init PROVE Inv
  OBVIOUS
<1>1. TypeOK
  <2>1. gone \in [Keys -> [Rows -> 0..Horizon]]
    BY HorizonType DEF Init
  <2> QED
    BY <2>1, TimesAssumption DEF Init, TypeOK
<1>2. CurrentIsNotGone
  BY DEF Init, Rows, CurrentIsNotGone
<1>3. \A c \in Callers : calls[c].op = "idle"
  BY DEF Init, Idle
<1> QED
  BY <1>1, <1>2, <1>3 DEF Init, Inv, AnswersNotOld, EntriesNotOld, AnswersFresh,
                          FreshUnlessOverlapped

\* Steps of a caller that send a query or an update, or end a call.
LEMMA CallInv ==
  ASSUME Inv, NEW c \in Callers, NEW v,
         v \in Asked \cup Settings \cup {Idle}, v.op # "written",
         calls[c].op # "written",
         calls' = [calls EXCEPT ![c] = v], UNCHANGED <<db, cache, changes, gone>>
  PROVE  Inv'
<1>1. v.op # "got"
  BY DEF Asked, Settings, Idle
<1>2. calls'[c] = v /\ \A d \in Callers : d # c => calls'[d] = calls[d]
  BY DEF Inv, TypeOK
<1>3. TypeOK'
  BY DEF Inv, TypeOK, Calls
<1>4. AnswersNotOld' /\ AnswersFresh'
  BY <1>1, <1>2 DEF Inv, AnswersNotOld, AnswersFresh
<1>5. FreshUnlessOverlapped'
  <2> SUFFICES ASSUME NEW k \in Keys, cache[k] # NoEntry,
                      cache[k].flag \notin {db[k], NoFlag}, ~cache[k].late
               PROVE  \E d \in Callers : calls'[d].op = "written" /\ calls'[d].key = k
    BY DEF FreshUnlessOverlapped
  <2>1. PICK d \in Callers : calls[d].op = "written" /\ calls[d].key = k
    BY DEF Inv, FreshUnlessOverlapped
  <2> QED
    BY <1>2, <2>1
<1> QED
  BY <1>3, <1>4, <1>5 DEF Inv, CurrentIsNotGone, EntriesNotOld

LEMMA DbReadInv ==
  ASSUME Inv, NEW c \in Callers, DbRead(c)
  PROVE  Inv'
<1> DEFINE k == calls[c].key
           v == [op |-> "got", key |-> k, waited |-> calls[c].waited,
                 flag |-> db[k], late |-> FALSE]
<1>1. calls[c] \in Asked /\ calls[c].op = "get"
  BY CallTypes DEF DbRead, Inv
<1>2. v \in Answered /\ v.op = "got" /\ v.key = k /\ k \in Keys
  BY <1>1 DEF Asked, Answered, Inv, TypeOK
<1>3. v.flag = db[k] /\ v.waited = calls[c].waited /\ calls[c].waited >= 0
  BY <1>1 DEF Asked
<1>4. calls' = [calls EXCEPT ![c] = v] /\ UNCHANGED <<db, cache, changes, gone>>
  BY DEF DbRead
<1> HIDE DEF v, k
<1>5. calls'[c] = v /\ \A d \in Callers : d # c => calls'[d] = calls[d]
  BY <1>4 DEF Inv, TypeOK
<1>6. TypeOK'
  BY <1>2, <1>4 DEF Inv, TypeOK, Calls
<1>7. AnswersNotOld'
  BY <1>2, <1>3, <1>4, <1>5 DEF Inv, AnswersNotOld, CurrentIsNotGone
<1>8. AnswersFresh'
  BY <1>2, <1>3, <1>4, <1>5 DEF Inv, AnswersFresh
<1>9. FreshUnlessOverlapped'
  BY <1>1, <1>4, <1>5 DEF Inv, FreshUnlessOverlapped
<1> QED
  BY <1>4, <1>6, <1>7, <1>8, <1>9 DEF Inv, CurrentIsNotGone, EntriesNotOld

LEMMA FinishGetInv ==
  ASSUME Inv, NEW c \in Callers, FinishGet(c)
  PROVE  Inv'
<1> DEFINE k == calls[c].key
           e == [flag |-> calls[c].flag, left |-> TTL, late |-> calls[c].late]
<1>1. calls[c] \in Answered /\ calls[c].op = "got"
  BY CallTypes DEF FinishGet, Inv
<1>2. e \in Entries /\ k \in Keys /\ calls[c].flag \in Rows
  BY <1>1, TimesAssumption DEF Answered, Entries
<1>3. e.flag = calls[c].flag /\ e.left = TTL /\ e.late = calls[c].late
  OBVIOUS
<1>4. /\ cache' = [cache EXCEPT ![k] = e]
      /\ calls' = [calls EXCEPT ![c] = Idle] /\ UNCHANGED <<db, changes, gone>>
  BY DEF FinishGet
<1>5. calls[c].waited <= MaxLatency /\ calls[c].waited \in Nat
  BY <1>1, TimesAssumption DEF Answered
<1>6. gone[k][e.flag] <= calls[c].waited /\ gone[k][e.flag] \in 0..Horizon
  BY <1>1, <1>2, <1>3 DEF Inv, AnswersNotOld, TypeOK
<1>7. e.flag \in {db[k], NoFlag} \/ e.late
  BY <1>1, <1>3 DEF Inv, AnswersFresh
<1> HIDE DEF e, k
<1>8. /\ calls'[c] = Idle /\ \A d \in Callers : d # c => calls'[d] = calls[d]
      /\ cache'[k] = e /\ \A l \in Keys : l # k => cache'[l] = cache[l]
  BY <1>2, <1>4 DEF Inv, TypeOK
<1>9. TypeOK'
  BY <1>2, <1>4 DEF Inv, TypeOK
<1>10. AnswersNotOld' /\ AnswersFresh'
  BY <1>4, <1>8 DEF Inv, AnswersNotOld, AnswersFresh, Idle
<1>11. EntriesNotOld'
  <2>1. gone[k][e.flag] + e.left <= Horizon
    BY <1>3, <1>5, <1>6, HorizonType, TimesAssumption
  <2> QED
    BY <1>4, <1>8, <2>1 DEF Inv, EntriesNotOld
<1>12. FreshUnlessOverlapped'
  <2> SUFFICES ASSUME NEW l \in Keys, cache'[l] # NoEntry,
                      cache'[l].flag \notin {db[l], NoFlag}, ~cache'[l].late
               PROVE  \E d \in Callers : calls'[d].op = "written" /\ calls'[d].key = l
    BY <1>4 DEF FreshUnlessOverlapped
  <2>1. l # k
    BY <1>7, <1>8
  <2>2. PICK d \in Callers : calls[d].op = "written" /\ calls[d].key = l
    BY <1>8, <2>1 DEF Inv, FreshUnlessOverlapped
  <2> QED
    BY <1>1, <1>8, <2>2
<1> QED
  BY <1>4, <1>9, <1>10, <1>11, <1>12 DEF Inv, CurrentIsNotGone

\* Entries are deleted: those of one key at the end of its update, or all.
LEMMA DeletionInv ==
  ASSUME Inv, NEW K \in SUBSET Keys,
         cache' = [k \in Keys |-> IF k \in K THEN NoEntry ELSE cache[k]],
         calls' \in [Callers -> Calls \cup {Idle}],
         \A d \in Callers : \/ calls'[d] = calls[d]
                            \/ calls'[d] = Idle /\ calls[d].key \in K,
         UNCHANGED <<db, changes, gone>>
  PROVE  Inv'
<1>1. \A d \in Callers : calls'[d].op = "got" => calls'[d] = calls[d]
  BY DEF Idle
<1>2. TypeOK'
  BY DEF Inv, TypeOK
<1>3. AnswersNotOld' /\ AnswersFresh'
  BY <1>1 DEF Inv, AnswersNotOld, AnswersFresh
<1>4. \A k \in Keys : cache'[k] # NoEntry => k \notin K /\ cache'[k] = cache[k]
  OBVIOUS
<1>5. EntriesNotOld'
  BY <1>4 DEF Inv, EntriesNotOld
<1>6. FreshUnlessOverlapped'
  <2> SUFFICES ASSUME NEW k \in Keys, cache'[k] # NoEntry,
                      cache'[k].flag \notin {db[k], NoFlag}, ~cache'[k].late
               PROVE  \E d \in Callers : calls'[d].op = "written" /\ calls'[d].key = k
    BY DEF FreshUnlessOverlapped
  <2>1. PICK d \in Callers : calls[d].op = "written" /\ calls[d].key = k
    BY <1>4 DEF Inv, FreshUnlessOverlapped
  <2> QED
    BY <1>4, <2>1
<1> QED
  BY <1>2, <1>3, <1>5, <1>6 DEF Inv, CurrentIsNotGone

LEMMA FinishSetInv ==
  ASSUME Inv, NEW c \in Callers, FinishSet(c)
  PROVE  Inv'
<1> DEFINE K == {calls[c].key}
<1>1. K \in SUBSET Keys
  BY CallTypes DEF FinishSet, Inv, Settings
<1>2. cache' = [k \in Keys |-> IF k \in K THEN NoEntry ELSE cache[k]]
  BY <1>1 DEF FinishSet, Inv, TypeOK
<1>3. /\ calls' \in [Callers -> Calls \cup {Idle}]
      /\ \A d \in Callers : \/ calls'[d] = calls[d]
                            \/ calls'[d] = Idle /\ calls[d].key \in K
  BY DEF FinishSet, Inv, TypeOK
<1>4. UNCHANGED <<db, changes, gone>>
  BY DEF FinishSet
<1> HIDE DEF K
<1> QED
  BY <1>1, <1>2, <1>3, <1>4, DeletionInv

LEMMA FailExecutedInv ==
  ASSUME Inv, NEW c \in Callers, FailExecuted(c)
  PROVE  Inv'
<1> DEFINE k == calls[c].key
           e == [cache[k] EXCEPT !.late = TRUE]
<1>1. k \in Keys /\ calls[c].op = "written"
  BY CallTypes DEF FailExecuted, Inv, Settings
<1>2. /\ calls' = [calls EXCEPT ![c] = Idle] /\ UNCHANGED <<db, changes, gone>>
      /\ cache' = IF cache[k] = NoEntry THEN cache ELSE [cache EXCEPT ![k] = e]
  BY DEF FailExecuted
<1>3. cache[k] # NoEntry =>
        e \in Entries /\ e.flag = cache[k].flag /\ e.left = cache[k].left /\ e.late
  BY <1>1, EntryTypes DEF Inv, Entries
<1> HIDE DEF k, e
<1>4. /\ calls'[c] = Idle /\ \A d \in Callers : d # c => calls'[d] = calls[d]
      /\ \A l \in Keys : l # k => cache'[l] = cache[l]
      /\ cache[k] = NoEntry => cache'[k] = NoEntry
      /\ cache[k] # NoEntry => cache'[k] = e
  BY <1>1, <1>2 DEF Inv, TypeOK
<1>5. TypeOK'
  BY <1>1, <1>2, <1>3 DEF Inv, TypeOK
<1>6. AnswersNotOld' /\ AnswersFresh'
  BY <1>2, <1>4 DEF Inv, AnswersNotOld, AnswersFresh, Idle
<1>7. EntriesNotOld'
  BY <1>2, <1>3, <1>4 DEF Inv, EntriesNotOld
<1>8. FreshUnlessOverlapped'
  <2> SUFFICES ASSUME NEW l \in Keys, cache'[l] # NoEntry,
                      cache'[l].flag \notin {db[l], NoFlag}, ~cache'[l].late
               PROVE  \E d \in Callers : calls'[d].op = "written" /\ calls'[d].key = l
    BY <1>2 DEF FreshUnlessOverlapped
  <2>1. l # k
    BY <1>3, <1>4
  <2>2. PICK d \in Callers : calls[d].op = "written" /\ calls[d].key = l
    BY <1>4, <2>1 DEF Inv, FreshUnlessOverlapped
  <2>3. d # c
    BY <2>1, <2>2 DEF k
  <2> QED
    BY <1>4, <2>2, <2>3
<1> QED
  BY <1>2, <1>5, <1>6, <1>7, <1>8 DEF Inv, CurrentIsNotGone

LEMMA InvalidateCacheInv == Inv /\ InvalidateCache => Inv'
<1> SUFFICES ASSUME Inv, InvalidateCache PROVE Inv'
  OBVIOUS
<1>1. cache' = [k \in Keys |-> IF k \in Keys THEN NoEntry ELSE cache[k]]
  BY DEF InvalidateCache
<1> QED
  BY <1>1, DeletionInv DEF InvalidateCache, Inv, TypeOK

\* What changing a row does to the table and to the history.
LEMMA ChangeFacts ==
  ASSUME Inv, NEW k \in Keys, NEW f \in Flags, Change(k, f)
  PROVE  /\ db' \in [Keys -> Rows] /\ gone' \in [Keys -> [Rows -> 0..Horizon]]
         /\ changes' \in 0..MaxChanges
         /\ \A l \in Keys : l # k => db'[l] = db[l]
         /\ \A l \in Keys, r \in Rows : gone'[l][r] <= gone[l][r]
         /\ CurrentIsNotGone'
<1>1. /\ db' = [db EXCEPT ![k] = f] /\ gone' = [gone EXCEPT ![k][f] = 0]
      /\ changes < MaxChanges /\ changes' = changes + 1
  BY DEF Change
<1>2. f \in Rows /\ 0 \in 0..Horizon
  BY HorizonType DEF Rows
<1>3. db' \in [Keys -> Rows] /\ changes' \in 0..MaxChanges
  BY <1>1, <1>2, TimesAssumption DEF Inv, TypeOK
<1>4. gone' \in [Keys -> [Rows -> 0..Horizon]]
  BY <1>1, <1>2 DEF Inv, TypeOK
<1>5. /\ db'[k] = f /\ \A l \in Keys : l # k => db'[l] = db[l]
      /\ gone'[k][f] = 0
      /\ \A l \in Keys, r \in Rows : <<l, r>> # <<k, f>> => gone'[l][r] = gone[l][r]
  BY <1>1, <1>2 DEF Inv, TypeOK
<1>6. \A l \in Keys, r \in Rows : gone[l][r] \in 0..Horizon
  BY DEF Inv, TypeOK
<1>7. \A l \in Keys, r \in Rows : gone'[l][r] <= gone[l][r]
  BY <1>5, <1>6, HorizonType
<1>8. CurrentIsNotGone'
  BY <1>5 DEF Inv, CurrentIsNotGone, TypeOK
<1> QED
  BY <1>3, <1>4, <1>5, <1>7, <1>8

LEMMA DbWriteInv ==
  ASSUME Inv, NEW c \in Callers, DbWrite(c)
  PROVE  Inv'
<1> DEFINE k == calls[c].key
           f == calls[c].flag
           w == [calls[c] EXCEPT !.op = "written"]
           late(d) == [calls[d] EXCEPT !.late = TRUE]
<1>1. calls[c] \in Settings /\ calls[c].op = "set"
  BY CallTypes DEF DbWrite, Inv
<1>2. k \in Keys /\ f \in Flags /\ w \in Settings /\ w.op = "written" /\ w.key = k
  BY <1>1 DEF Settings
<1>3. /\ db[k] # NoFlag /\ Change(k, f) /\ UNCHANGED cache
      /\ calls' = [d \in Callers |-> IF d = c THEN w ELSE
           IF calls[d].op = "got" /\ calls[d].key = k THEN late(d) ELSE calls[d]]
  BY DEF DbWrite
<1>4. \A d \in Callers : calls[d].op = "got" =>
        /\ calls[d] \in Answered /\ late(d) \in Answered
        /\ late(d).op = "got" /\ late(d).late /\ late(d).key = calls[d].key
        /\ late(d).flag = calls[d].flag /\ late(d).waited = calls[d].waited
  BY CallTypes DEF Inv, Answered
<1> HIDE DEF k, f, w, late
<1>5. /\ db' \in [Keys -> Rows] /\ gone' \in [Keys -> [Rows -> 0..Horizon]]
      /\ changes' \in 0..MaxChanges
      /\ \A l \in Keys : l # k => db'[l] = db[l]
      /\ \A l \in Keys, r \in Rows : gone'[l][r] <= gone[l][r]
      /\ CurrentIsNotGone'
  BY <1>2, <1>3, ChangeFacts
<1>6. TypeOK'
  <2>1. calls' \in [Callers -> Calls \cup {Idle}]
    BY <1>2, <1>3, <1>4 DEF Inv, TypeOK, Calls
  <2> QED
    BY <1>3, <1>5, <2>1 DEF Inv, TypeOK
<1>7. \A d \in Callers : calls'[d].op = "got" =>
        /\ calls[d].op = "got" /\ calls[d] \in Answered
        /\ calls'[d].key = calls[d].key /\ calls'[d].flag = calls[d].flag
        /\ calls'[d].waited = calls[d].waited
        /\ calls[d].key = k => calls'[d].late
        /\ calls[d].key # k => calls'[d].late = calls[d].late
  BY <1>2, <1>3, <1>4
<1>8. AnswersNotOld'
  <2> SUFFICES ASSUME NEW d \in Callers, calls'[d].op = "got"
               PROVE  gone'[calls[d].key][calls[d].flag] <= calls[d].waited
    BY <1>7 DEF AnswersNotOld
  <2>1. /\ calls[d].key \in Keys /\ calls[d].flag \in Rows /\ calls[d].waited \in Int
        /\ gone[calls[d].key][calls[d].flag] <= calls[d].waited
    BY <1>7, TimesAssumption DEF Inv, AnswersNotOld, Answered
  <2>2. /\ gone[calls[d].key][calls[d].flag] \in Int
        /\ gone'[calls[d].key][calls[d].flag] \in Int
    BY <1>5, <2>1, HorizonType DEF Inv, TypeOK
  <2> QED
    BY <1>5, <2>1, <2>2
<1>9. EntriesNotOld'
  <2> SUFFICES ASSUME NEW l \in Keys, cache[l] # NoEntry
               PROVE  gone'[l][cache[l].flag] + cache[l].left <= Horizon
    BY <1>3 DEF EntriesNotOld
  <2>1. cache[l].flag \in Rows /\ cache[l].left \in Int
    BY EntryTypes, TimesAssumption DEF Inv, Entries
  <2>2. gone[l][cache[l].flag] \in Int /\ gone'[l][cache[l].flag] \in Int
    BY <1>5, <2>1, HorizonType DEF Inv, TypeOK
  <2> QED
    BY <1>5, <2>1, <2>2, HorizonType DEF Inv, EntriesNotOld
<1>10. AnswersFresh'
  <2> SUFFICES ASSUME NEW d \in Callers, calls'[d].op = "got", calls[d].key # k
               PROVE  calls'[d].flag \in {db'[calls'[d].key], NoFlag} \/ calls'[d].late
    BY <1>7 DEF AnswersFresh
  <2>1. calls[d].key \in Keys
    BY <1>7 DEF Answered
  <2> QED
    BY <1>5, <1>7, <2>1 DEF Inv, AnswersFresh
<1>11. FreshUnlessOverlapped'
  <2>1. calls'[c].op = "written" /\ calls'[c].key = k
    BY <1>2, <1>3
  <2>2. \A d \in Callers : calls[d].op = "written" => calls'[d] = calls[d]
    BY <1>1, <1>3
  <2> QED
    BY <1>3, <1>5, <2>1, <2>2 DEF Inv, FreshUnlessOverlapped
<1> QED
  BY <1>5, <1>6, <1>8, <1>9, <1>10, <1>11 DEF Inv

LEMMA CreateRowInv ==
  ASSUME Inv, NEW k \in Keys, CreateRow(k)
  PROVE  Inv'
<1>1. PICK f \in Flags : Change(k, f)
  BY DEF CreateRow
<1>2. /\ db' \in [Keys -> Rows] /\ gone' \in [Keys -> [Rows -> 0..Horizon]]
      /\ changes' \in 0..MaxChanges
      /\ \A l \in Keys : l # k => db'[l] = db[l]
      /\ \A l \in Keys, r \in Rows : gone'[l][r] <= gone[l][r]
      /\ CurrentIsNotGone'
  BY <1>1, ChangeFacts
<1>3. db[k] = NoFlag /\ UNCHANGED <<cache, calls>>
  BY DEF CreateRow
<1>4. \A l \in Keys : \A r : r \in {db[l], NoFlag} => r \in {db'[l], NoFlag}
  BY <1>2, <1>3
<1>5. TypeOK'
  BY <1>2, <1>3 DEF Inv, TypeOK
<1>6. AnswersNotOld' /\ AnswersFresh'
  <2> SUFFICES ASSUME NEW d \in Callers, calls[d].op = "got"
               PROVE  /\ gone'[calls[d].key][calls[d].flag] <= calls[d].waited
                      /\ \/ calls[d].flag \in {db'[calls[d].key], NoFlag}
                         \/ calls[d].late
    BY <1>3 DEF AnswersNotOld, AnswersFresh
  <2>1. /\ calls[d].key \in Keys /\ calls[d].flag \in Rows /\ calls[d].waited \in Int
        /\ gone[calls[d].key][calls[d].flag] <= calls[d].waited
    BY CallTypes, TimesAssumption DEF Inv, AnswersNotOld, Answered
  <2>2. /\ gone[calls[d].key][calls[d].flag] \in Int
        /\ gone'[calls[d].key][calls[d].flag] \in Int
    BY <1>2, <2>1, HorizonType DEF Inv, TypeOK
  <2>3. gone'[calls[d].key][calls[d].flag] <= calls[d].waited
    BY <1>2, <2>1, <2>2
  <2> QED
    BY <1>4, <2>1, <2>3 DEF Inv, AnswersFresh
<1>7. EntriesNotOld'
  <2> SUFFICES ASSUME NEW l \in Keys, cache[l] # NoEntry
               PROVE  gone'[l][cache[l].flag] + cache[l].left <= Horizon
    BY <1>3 DEF EntriesNotOld
  <2>1. cache[l].flag \in Rows /\ cache[l].left \in Int
    BY EntryTypes, TimesAssumption DEF Inv, Entries
  <2>2. gone[l][cache[l].flag] \in Int /\ gone'[l][cache[l].flag] \in Int
    BY <1>2, <2>1, HorizonType DEF Inv, TypeOK
  <2> QED
    BY <1>2, <2>1, <2>2, HorizonType DEF Inv, EntriesNotOld
<1>8. FreshUnlessOverlapped'
  BY <1>3, <1>4 DEF Inv, FreshUnlessOverlapped
<1> QED
  BY <1>2, <1>5, <1>6, <1>7, <1>8 DEF Inv

LEMMA TickInv == Inv /\ Tick => Inv'
<1> SUFFICES ASSUME Inv, Tick PROVE Inv'
  OBVIOUS
<1> DEFINE InQuery(c) == calls[c].op \in {"get", "got"}
           older(c) == [calls[c] EXCEPT !.waited = @ + 1]
           shorter(k) == [cache[k] EXCEPT !.left = @ - 1]
<1>1. /\ \A c \in Callers : InQuery(c) => calls[c].waited < MaxLatency
      /\ calls' = [c \in Callers |-> IF InQuery(c) THEN older(c) ELSE calls[c]]
      /\ cache' = [k \in Keys |-> IF Valid(k) THEN shorter(k) ELSE cache[k]]
      /\ gone' = [k \in Keys |-> [f \in Rows |->
                    IF f = db[k] THEN 0 ELSE UpTo(gone[k][f], Horizon)]]
      /\ UNCHANGED <<db, changes>>
  <2>1. \A k \in Keys : cache[k].left > 0 <=> Valid(k)
    BY DEF Valid, NoEntry
  <2> QED
    BY <2>1 DEF Tick
<1>2. \A c \in Callers : InQuery(c) =>
        /\ older(c) \in Calls /\ older(c).op = calls[c].op
        /\ older(c).key = calls[c].key /\ older(c).waited = calls[c].waited + 1
  <2> SUFFICES ASSUME NEW c \in Callers, InQuery(c)
               PROVE  /\ older(c) \in Calls /\ older(c).op = calls[c].op
                      /\ older(c).key = calls[c].key
                      /\ older(c).waited = calls[c].waited + 1
    OBVIOUS
  <2>1. calls[c].waited < MaxLatency
    BY <1>1
  <2>2. CASE calls[c].op = "get"
    <3>1. calls[c] \in Asked
      BY <2>2, CallTypes DEF Inv
    <3>2. older(c) \in Asked
      BY <2>1, <3>1, TimesAssumption DEF Asked
    <3> QED
      BY <3>1, <3>2 DEF Asked, Calls
  <2>3. CASE calls[c].op = "got"
    <3>1. calls[c] \in Answered
      BY <2>3, CallTypes DEF Inv
    <3>2. older(c) \in Answered
      BY <2>1, <3>1, TimesAssumption DEF Answered
    <3> QED
      BY <3>1, <3>2 DEF Answered, Calls
  <2> QED
    BY <2>2, <2>3
<1>3. \A c \in Callers : calls[c].op = "got" =>
        /\ calls[c] \in Answered
        /\ older(c).flag = calls[c].flag /\ older(c).late = calls[c].late
  BY CallTypes DEF Inv, Answered
<1>4. \A k \in Keys : Valid(k) =>
        /\ shorter(k) \in Entries /\ shorter(k) # NoEntry
        /\ shorter(k).flag = cache[k].flag /\ shorter(k).late = cache[k].late
        /\ shorter(k).left = cache[k].left - 1
  <2> SUFFICES ASSUME NEW k \in Keys, Valid(k)
               PROVE  /\ shorter(k) \in Entries
                      /\ shorter(k).flag = cache[k].flag
                      /\ shorter(k).late = cache[k].late
                      /\ shorter(k).left = cache[k].left - 1
    BY EntryTypes DEF Inv
  <2>1. cache[k] \in Entries /\ cache[k].left > 0
    BY EntryTypes DEF Inv, Valid
  <2> QED
    BY <2>1, TimesAssumption DEF Entries
<1> HIDE DEF older, shorter
<1>5. \A k \in Keys, f \in Rows :
        /\ gone[k][f] \in 0..Horizon /\ gone'[k][f] \in 0..Horizon
        /\ gone'[k][f] <= gone[k][f] + 1
  BY <1>1, HorizonType DEF Inv, TypeOK, UpTo
<1>6. \A c \in Callers : /\ InQuery(c) => calls'[c] = older(c)
                         /\ ~InQuery(c) => calls'[c] = calls[c]
  BY <1>1
<1>7. \A k \in Keys : /\ Valid(k) => cache'[k] = shorter(k)
                      /\ ~Valid(k) => cache'[k] = cache[k]
  BY <1>1
<1>8. TypeOK'
  <2>1. calls' \in [Callers -> Calls \cup {Idle}]
    BY <1>1, <1>2 DEF Inv, TypeOK
  <2>2. cache' \in [Keys -> Entries \cup {NoEntry}]
    BY <1>1, <1>4 DEF Inv, TypeOK
  <2>3. gone' \in [Keys -> [Rows -> 0..Horizon]]
    <3>1. \A k \in Keys, f \in Rows :
            (IF f = db[k] THEN 0 ELSE UpTo(gone[k][f], Horizon)) \in 0..Horizon
      BY HorizonType DEF Inv, TypeOK, UpTo
    <3> QED
      BY <1>1, <3>1
  <2> QED
    BY <1>1, <2>1, <2>2, <2>3 DEF Inv, TypeOK
<1>9. CurrentIsNotGone'
  BY <1>1 DEF CurrentIsNotGone, Inv, TypeOK
<1>10. \A c \in Callers : calls'[c].op = "got" =>
         /\ calls[c].op = "got" /\ calls[c] \in Answered
         /\ calls'[c].key = calls[c].key /\ calls'[c].waited = calls[c].waited + 1
         /\ calls'[c].flag = calls[c].flag /\ calls'[c].late = calls[c].late
  BY <1>2, <1>3, <1>6
<1>11. AnswersNotOld'
  <2> SUFFICES ASSUME NEW c \in Callers, calls'[c].op = "got"
               PROVE  gone'[calls[c].key][calls[c].flag] <= calls[c].waited + 1
    BY <1>10 DEF AnswersNotOld
  <2>1. /\ calls[c].key \in Keys /\ calls[c].flag \in Rows /\ calls[c].waited \in Int
        /\ gone[calls[c].key][calls[c].flag] <= calls[c].waited
    BY <1>10, TimesAssumption DEF Inv, AnswersNotOld, Answered
  <2>2. /\ gone[calls[c].key][calls[c].flag] \in Int
        /\ gone'[calls[c].key][calls[c].flag] \in Int
        /\ gone'[calls[c].key][calls[c].flag] <= gone[calls[c].key][calls[c].flag] + 1
    BY <1>5, <2>1, HorizonType
  <2> QED
    BY <2>1, <2>2
<1>12. EntriesNotOld'
  <2> SUFFICES ASSUME NEW k \in Keys, cache'[k] # NoEntry
               PROVE  gone'[k][cache'[k].flag] + cache'[k].left <= Horizon
    BY DEF EntriesNotOld
  <2>1. /\ cache[k] # NoEntry /\ cache[k].flag \in Rows /\ cache[k].left \in 0..TTL
        /\ cache'[k].flag = cache[k].flag
    BY <1>4, <1>7, EntryTypes DEF Inv, Entries, Valid
  <2>2. /\ gone[k][cache[k].flag] \in Int /\ gone'[k][cache[k].flag] \in 0..Horizon
        /\ gone'[k][cache[k].flag] <= gone[k][cache[k].flag] + 1
    BY <1>5, <2>1, HorizonType
  <2>3. gone[k][cache[k].flag] + cache[k].left <= Horizon
    BY <2>1 DEF Inv, EntriesNotOld
  <2>4. CASE Valid(k)
    <3>1. cache'[k].left = cache[k].left - 1
      BY <1>4, <1>7, <2>4
    <3> QED
      BY <2>1, <2>2, <2>3, <3>1, HorizonType, TimesAssumption
  <2>5. CASE ~Valid(k)
    <3>1. cache'[k].left = 0
      BY <1>7, <2>1, <2>5, TimesAssumption DEF Valid
    <3> QED
      BY <2>1, <2>2, <3>1, HorizonType
  <2> QED
    BY <2>4, <2>5
<1>13. AnswersFresh'
  BY <1>1, <1>10 DEF Inv, AnswersFresh
<1>14. FreshUnlessOverlapped'
  <2> SUFFICES ASSUME NEW k \in Keys, cache'[k] # NoEntry,
                      cache'[k].flag \notin {db[k], NoFlag}, ~cache'[k].late
               PROVE  \E d \in Callers : calls'[d].op = "written" /\ calls'[d].key = k
    BY <1>1 DEF FreshUnlessOverlapped
  <2>1. /\ cache[k] # NoEntry /\ cache'[k].flag = cache[k].flag
        /\ cache'[k].late = cache[k].late
    BY <1>4, <1>7 DEF Valid
  <2>2. PICK d \in Callers : calls[d].op = "written" /\ calls[d].key = k
    BY <2>1 DEF Inv, FreshUnlessOverlapped
  <2> QED
    BY <1>6, <2>2
<1> QED
  BY <1>8, <1>9, <1>11, <1>12, <1>13, <1>14 DEF Inv

LEMMA CallerInv == \A c \in Callers : Inv /\ CallerNext(c) => Inv'
<1> SUFFICES ASSUME NEW c \in Callers, Inv, CallerNext(c) PROVE Inv'
  OBVIOUS
<1>1. ASSUME NEW k \in Keys, StartGet(c, k) PROVE Inv'
  <2> DEFINE v == [op |-> "get", key |-> k, waited |-> 0]
  <2>1. v \in Asked /\ v.op # "written"
    BY TimesAssumption DEF Asked
  <2>2. /\ calls' = [calls EXCEPT ![c] = v] /\ calls[c].op # "written"
        /\ UNCHANGED <<db, cache, changes, gone>>
    BY <1>1 DEF StartGet, Idle
  <2> HIDE DEF v
  <2> QED
    BY <2>1, <2>2, CallInv
<1>2. ASSUME NEW k \in Keys, StartSet(c, k) PROVE Inv'
  <2>1. PICK f \in Flags :
          calls' = [calls EXCEPT ![c] = [op |-> "set", key |-> k, flag |-> f]]
    BY <1>2 DEF StartSet
  <2> DEFINE v == [op |-> "set", key |-> k, flag |-> f]
  <2>2. v \in Settings /\ v.op # "written"
    BY DEF Settings
  <2>3. calls' = [calls EXCEPT ![c] = v]
    BY <2>1
  <2>4. calls[c].op # "written" /\ UNCHANGED <<db, cache, changes, gone>>
    BY <1>2 DEF StartSet, Idle
  <2> HIDE DEF v
  <2> QED
    BY <2>2, <2>3, <2>4, CallInv
<1>3. CASE FailGet(c) \/ FailSet(c)
  <2>1. Idle.op # "written"
    BY DEF Idle
  <2> QED
    BY <1>3, <2>1, CallInv DEF FailGet, FailSet
<1> QED
  BY <1>1, <1>2, <1>3, DbReadInv, FinishGetInv, DbWriteInv, FinishSetInv, FailExecutedInv
  DEF CallerNext

LEMMA NextInv == Inv /\ [Next]_vars => Inv'
<1>1. Inv /\ UNCHANGED vars => Inv'
  BY DEF vars, Inv, TypeOK, CurrentIsNotGone, AnswersNotOld, EntriesNotOld,
         AnswersFresh, FreshUnlessOverlapped
<1> QED
  BY <1>1, CallerInv, CreateRowInv, InvalidateCacheInv, TickInv DEF Next

----------------------------------------------------------------------------
\* The inductive invariant holds in every reachable state.
THEOREM Invariance == Spec => []Inv
BY InitInv, NextInv, PTL DEF Spec

\* The state always has its types.
THEOREM FlagTypes == Spec => []TypeOK
<1>1. Inv => TypeOK
  BY DEF Inv
<1> QED
  BY <1>1, Invariance, PTL

\* No answer of the cache is older than the TTL and one query.
THEOREM StalenessAlwaysBounded == Spec => []BoundedStaleness
<1>1. Inv => BoundedStaleness
  <2> SUFFICES ASSUME Inv, NEW k \in Keys, Valid(k)
               PROVE  gone[k][cache[k].flag] < Horizon
    BY DEF BoundedStaleness
  <2>1. cache[k] # NoEntry /\ cache[k].left > 0
    BY DEF Valid
  <2>2. cache[k].flag \in Rows /\ cache[k].left \in Int
    BY <2>1, EntryTypes, TimesAssumption DEF Inv, Entries
  <2>3. gone[k][cache[k].flag] \in Int
    BY <2>2, HorizonType DEF Inv, TypeOK
  <2> QED
    BY <2>1, <2>2, <2>3, HorizonType DEF Inv, EntriesNotOld
<1> QED
  BY <1>1, Invariance, PTL

\* The cache only differs from the table where an update overlapped the query
\* that filled it, is not over yet, or where a row was created.
THEOREM FreshOrOverlapped == Spec => []FreshUnlessOverlapped
<1>1. Inv => FreshUnlessOverlapped
  BY DEF Inv
<1> QED
  BY <1>1, Invariance, PTL
=============================================================================
