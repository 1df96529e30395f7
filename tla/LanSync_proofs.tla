--------------------------- MODULE LanSync_proofs ---------------------------
(***************************************************************************)
(* Proofs about LanSync, for every value of its constants: the types of    *)
(* its state, what an acknowledgement is worth, and where records come     *)
(* from.  Every record in a table of the peer, in a channel, a queue or a  *)
(* waiting replay is one its owner has a row for.  It follows that copies  *)
(* have originals and, when no process restarts and no INSERT throws, that *)
(* LanSync implements Replication.                                         *)
(***************************************************************************)
EXTENDS LanSyncProperties, TLAPS, FiniteSetTheorems, SequenceTheorems,
        FunctionTheorems, WellFoundedInduction

----------------------------------------------------------------------------
(* The operators the actions are built from.                               *)

\* A non-empty set of natural numbers has a least element.
LEMMA LeastNatural ==
  ASSUME NEW T \in SUBSET Nat, T # {}
  PROVE  \E x \in T : \A y \in T : x <= y
<1>1. PICK x \in T : \A y \in T : <<y, x>> \notin OpToRel(<, Nat)
  BY NatLessThanWellFounded, WFMin
<1>2. \A y \in T : ~(y < x)
  BY <1>1 DEF OpToRel
<1> QED
  BY <1>2

\* Concatenating, taking the tail and taking a part keep the element type.
LEMMA SeqTypes ==
  ASSUME NEW S, NEW s \in Seq(S)
  PROVE  /\ DOMAIN s = 1..Len(s) /\ Len(s) \in Nat
         /\ \A i \in DOMAIN s : s[i] \in S
         /\ \A t \in Seq(S) : s \o t \in Seq(S)
         /\ \A m \in Nat, n \in Nat : m >= 1 /\ n <= Len(s) => SubSeq(s, m, n) \in Seq(S)
         /\ s # <<>> => Head(s) \in S /\ Tail(s) \in Seq(S)
<1>1. DOMAIN s = 1..Len(s) /\ Len(s) \in Nat /\ \A i \in DOMAIN s : s[i] \in S
  BY LenProperties, ElementOfSeq
<1>2. \A t \in Seq(S) : s \o t \in Seq(S)
  BY ConcatProperties
<1>3. ASSUME NEW m \in Nat, NEW n \in Nat, m >= 1, n <= Len(s)
      PROVE  SubSeq(s, m, n) \in Seq(S)
  <2>1. \A i \in m..n : s[i] \in S
    BY <1>1, <1>3
  <2> QED
    BY <2>1, SubSeqProperties
<1>4. s # <<>> => Head(s) \in S /\ Tail(s) \in Seq(S)
  BY HeadTailProperties
<1> QED
  BY <1>1, <1>2, <1>3, <1>4

\* A function over the positions of a sequence is a sequence.
LEMMA MapIsSeq ==
  ASSUME NEW S, NEW n \in Nat, NEW f \in [1..n -> S]
  PROVE  f \in Seq(S)
BY SeqDef

\* transition() leaves the client in a state of its table.
LEMMA TransitionType ==
  ASSUME NEW n \in Nodes, cstate \in [Nodes -> ClientStates],
         unexpected \in [Nodes -> BOOLEAN],
         NEW path \in Seq(ClientStates), Transition(n, path)
  PROVE  /\ cstate' \in [Nodes -> ClientStates]
         /\ unexpected' \in [Nodes -> BOOLEAN]
<1> DEFINE states == <<cstate[n]>> \o path
<1>1. <<cstate[n]>> \in Seq(ClientStates) /\ Len(<<cstate[n]>>) = 1
  OBVIOUS
<1>2. states \in Seq(ClientStates) /\ Len(states) = 1 + Len(path) /\ Len(path) \in Nat
  BY <1>1, ConcatProperties, LenProperties
<1>3. states[Len(states)] \in ClientStates
  BY <1>2, ElementOfSeq
<1>4. cstate' = [cstate EXCEPT ![n] = states[Len(states)]]
  BY DEF Transition
<1>5. cstate' \in [Nodes -> ClientStates]
  BY <1>3, <1>4
<1>6. PICK b \in BOOLEAN : unexpected' = [unexpected EXCEPT ![n] = b]
  <2> DEFINE b == unexpected[n] \/ \E i \in 1..Len(path) : ~Valid(states[i], states[i + 1])
  <2>1. unexpected' = [unexpected EXCEPT ![n] = b]
    BY DEF Transition
  <2>2. b \in BOOLEAN
    BY Zenon
  <2> HIDE DEF b
  <2> QED
    BY <2>1, <2>2
<1> QED
  BY <1>5, <1>6

\* An ordered query result lists rows of the table.
LEMMA OrderedType ==
  ASSUME NEW rows, IsFiniteSet(rows), NEW S, rows \subseteq S, NEW q \in Ordered(rows)
  PROVE  q \in Seq(S) /\ \A i \in DOMAIN q : q[i] \in rows
<1>1. q \in [1..Cardinality(rows) -> rows]
  BY DEF Ordered
<1>2. Cardinality(rows) \in Nat
  BY FS_CardinalityType
<1>3. q \in Seq(rows)
  BY <1>1, <1>2, MapIsSeq
<1> QED
  BY <1>1, <1>3, SeqMonotonic

LEMMA RecordMsgsType ==
  ASSUME NEW q \in Seq(Records)
  PROVE  /\ RecordMsgs(q) \in Seq(RecordMsgSet)
         /\ DOMAIN RecordMsgs(q) = DOMAIN q
         /\ \A i \in DOMAIN q : RecordMsgs(q)[i] = RecordMsg(q[i])
<1>1. DOMAIN q = 1..Len(q) /\ Len(q) \in Nat /\ \A i \in DOMAIN q : q[i] \in Records
  BY SeqTypes
<1>2. RecordMsgs(q) \in [1..Len(q) -> RecordMsgSet]
  BY <1>1 DEF RecordMsgs, RecordMsg, RecordMsgSet
<1> QED
  BY <1>1, <1>2, MapIsSeq DEF RecordMsgs

\* INSERT OR IGNORE adds only records, and keeps the table finite.
LEMMA InsertAllType ==
  ASSUME NEW rows \in SUBSET Records, IsFiniteSet(rows),
         NEW q \in Seq(Records), NEW F
  PROVE  /\ InsertAll(rows, q, F) \in SUBSET Records
         /\ rows \subseteq InsertAll(rows, q, F)
         /\ IsFiniteSet(InsertAll(rows, q, F))
<1> DEFINE I == {i \in DOMAIN q \ F :
                   /\ ~HasKey(rows, Key(q[i]))
                   /\ \A j \in 1..(i - 1) : j \in F \/ Key(q[j]) # Key(q[i])}
           new == {q[i] : i \in I}
           f == [i \in I |-> q[i]]
<1>1. DOMAIN q = 1..Len(q) /\ Len(q) \in Nat /\ \A i \in DOMAIN q : q[i] \in Records
  BY SeqTypes
<1>2. InsertAll(rows, q, F) = rows \cup new
  BY DEF InsertAll
<1>3. I \subseteq 1..Len(q)
  BY <1>1
<1> HIDE DEF I
<1>4. IsFiniteSet(I)
  <2>1. IsFiniteSet(1..Len(q))
    BY <1>1, FS_Interval
  <2> QED
    BY <1>3, <2>1, FS_Subset
<1>5. f \in Surjection(I, new)
  BY Fun_IsSurj
<1>6. IsFiniteSet(new)
  BY <1>4, <1>5, FS_Surjection
<1>7. new \subseteq Records
  BY <1>1, <1>3
<1> HIDE DEF new
<1> QED
  BY <1>2, <1>6, <1>7, FS_Union

\* With no statement throwing, every record's key is stored afterwards.
LEMMA InsertAllStores ==
  ASSUME NEW rows \in SUBSET Records, NEW q \in Seq(Records), NEW i \in DOMAIN q
  PROVE  HasKey(InsertAll(rows, q, {}), Key(q[i]))
<1> DEFINE T == {j \in DOMAIN q : Key(q[j]) = Key(q[i])}
<1>1. DOMAIN q = 1..Len(q) /\ Len(q) \in Nat
  BY SeqTypes
<1>2. PICK j \in T : \A k \in T : j <= k
  <2>1. T \in SUBSET Nat /\ i \in T
    BY <1>1
  <2> QED
    BY <2>1, LeastNatural
<1>3. \A k \in 1..(j - 1) : Key(q[k]) # Key(q[j])
  BY <1>1, <1>2
<1>4. CASE HasKey(rows, Key(q[i]))
  BY <1>4 DEF InsertAll, HasKey
<1>5. CASE ~HasKey(rows, Key(q[i]))
  <2>1. q[j] \in InsertAll(rows, q, {})
    BY <1>2, <1>3, <1>5 DEF InsertAll
  <2> QED
    BY <1>2, <2>1 DEF HasKey
<1> QED
  BY <1>4, <1>5

----------------------------------------------------------------------------
(* Type correctness.                                                       *)

Types == TypeOK /\ \A n \in Nodes : IsFiniteSet(db[n])

\* What socket.write puts in flight has the right type.
LEMMA SentTypes ==
  ASSUME TypeOK
  PROVE  /\ \A c \in Sockets \cup {NoSocket} : \A ms \in Seq(Requests) :
              SentUp(up, c, ms) \in [Sockets -> Seq(Requests)]
         /\ \A c \in Sockets : \A ms \in Seq(Replies) :
              SentDown(down, c, ms) \in [Sockets -> Seq(Replies)]
<1>1. ASSUME NEW c \in Sockets \cup {NoSocket}, NEW ms \in Seq(Requests)
      PROVE  SentUp(up, c, ms) \in [Sockets -> Seq(Requests)]
  <2>1. c # NoSocket => up[c] \o ms \in Seq(Requests)
    BY <1>1, SeqTypes DEF TypeOK
  <2> QED
    BY <2>1 DEF SentUp, Deliverable, TypeOK
<1>2. ASSUME NEW c \in Sockets, NEW ms \in Seq(Replies)
      PROVE  SentDown(down, c, ms) \in [Sockets -> Seq(Replies)]
  <2>1. down[c] \o ms \in Seq(Replies)
    BY <1>2, SeqTypes DEF TypeOK
  <2> QED
    BY <2>1 DEF SentDown, TypeOK
<1> QED
  BY <1>1, <1>2

\* Storing one record keeps the tables finite sets of records.
LEMMA InsertType ==
  ASSUME Types, NEW n \in Nodes, NEW r \in Records,
         db' = [db EXCEPT ![n] = Insert(@, r)]
  PROVE  db' \in [Nodes -> SUBSET Records] /\ \A m \in Nodes : IsFiniteSet(db'[m])
<1>1. Insert(db[n], r) \in SUBSET Records /\ IsFiniteSet(Insert(db[n], r))
  <2>1. db[n] \in SUBSET Records /\ IsFiniteSet(db[n])
    BY DEF Types, TypeOK
  <2>2. IsFiniteSet(db[n] \cup {r})
    BY <2>1, FS_AddElement
  <2> QED
    BY <2>1, <2>2 DEF Insert
<1> QED
  BY <1>1 DEF Types, TypeOK

\* Sockets are pairs of a node and a number.
LEMMA SocketType ==
  ASSUME NEW c \in Sockets
  PROVE  c[1] \in Nodes /\ Peer[c[1]] \in Nodes
BY NodesAssumption DEF Sockets

\* processRecord, for one record or for a whole queue.
LEMMA ProcessType ==
  ASSUME Types, NEW c \in Sockets, NEW q \in Seq(Records),
         NEW reply \in Seq(Replies), Process(c, q, reply)
  PROVE  /\ db' \in [Nodes -> SUBSET Records]
         /\ \A m \in Nodes : IsFiniteSet(db'[m])
         /\ insertFaults' \in Nat
         /\ down' \in [Sockets -> Seq(Replies)]
<1> DEFINE n == Peer[c[1]]
           acks == [i \in DOMAIN q |-> AckMsg(Key(q[i]))]
<1>1. n \in Nodes
  BY SocketType
<1>2. PICK F \in SUBSET DOMAIN q :
        /\ Spend(Cardinality(F))
        /\ db' = [db EXCEPT ![n] = InsertAll(@, q, F)]
        /\ down' = SentDown(down, c, reply \o acks)
  BY DEF Process
<1>3. DOMAIN q = 1..Len(q) /\ Len(q) \in Nat /\ \A i \in DOMAIN q : q[i] \in Records
  BY SeqTypes
<1>4. insertFaults' \in Nat
  <2>1. IsFiniteSet(1..Len(q))
    BY <1>3, FS_Interval
  <2>2. Cardinality(F) \in Nat
    BY <1>2, <1>3, <2>1, FS_Subset, FS_CardinalityType
  <2> QED
    BY <1>2, <2>2 DEF Spend, Types, TypeOK
<1>5. /\ InsertAll(db[n], q, F) \in SUBSET Records
      /\ IsFiniteSet(InsertAll(db[n], q, F))
  <2>1. db[n] \in SUBSET Records /\ IsFiniteSet(db[n])
    BY <1>1 DEF Types, TypeOK
  <2> QED
    BY <2>1, InsertAllType
<1>6. acks \in Seq(Replies)
  <2>1. \A i \in DOMAIN q : AckMsg(Key(q[i])) \in Replies
    BY <1>3 DEF AckMsg, Key, Keys, Records, Replies
  <2>2. acks \in [1..Len(q) -> Replies]
    BY <1>3, <2>1
  <2> QED
    BY <1>3, <2>2, MapIsSeq
<1>7. reply \o acks \in Seq(Replies)
  BY <1>6, SeqTypes
<1> HIDE DEF acks
<1>8. down' \in [Sockets -> Seq(Replies)]
  BY <1>2, <1>7, SentTypes DEF Types
<1>9. db' \in [Nodes -> SUBSET Records] /\ \A m \in Nodes : IsFiniteSet(db'[m])
  BY <1>1, <1>2, <1>5 DEF Types, TypeOK
<1> QED
  BY <1>4, <1>8, <1>9

\* connectInternal.
LEMMA OpenSocketType ==
  ASSUME TypeOK, NEW n \in Nodes, OpenSocket(n)
  PROVE  /\ opened' \in [Nodes -> 0..MaxSockets]
         /\ cur' \in [Nodes -> Sockets \cup {NoSocket}]
         /\ link' \in [Sockets -> LinkStates]
         /\ cstate' \in [Nodes -> ClientStates]
         /\ unexpected' \in [Nodes -> BOOLEAN]
<1>1. <<"CONNECTING">> \in Seq(ClientStates)
  BY DEF ClientStates
<1>2. cstate' \in [Nodes -> ClientStates] /\ unexpected' \in [Nodes -> BOOLEAN]
  BY <1>1, TransitionType DEF OpenSocket, TypeOK
<1>3. opened[n] + 1 \in 1..MaxSockets
  BY BoundsAssumption DEF OpenSocket, TypeOK
<1>4. <<n, opened[n] + 1>> \in Sockets
  BY <1>3 DEF Sockets
<1>5. opened' \in [Nodes -> 0..MaxSockets]
  BY <1>3 DEF OpenSocket, TypeOK
<1>6. cur' \in [Nodes -> Sockets \cup {NoSocket}]
  BY <1>4 DEF OpenSocket, TypeOK
<1>7. link' \in [Sockets -> LinkStates]
  BY <1>4 DEF OpenSocket, TypeOK, LinkStates
<1> QED
  BY <1>2, <1>5, <1>6, <1>7

\* The replay loop, from its start or from where it waited.
LEMMA RunReplayType ==
  ASSUME TypeOK, NEW n \in Nodes, NEW s \in 1..MaxReplays,
         NEW rows \in Seq(Records), NEW path \in Seq(ClientStates),
         RunReplay(n, s, rows, path)
  PROVE  /\ up' \in [Sockets -> Seq(Requests)]
         /\ suspended' \in [Nodes -> SUBSET [slot : 1..MaxReplays, rest : Seq(Records)]]
         /\ cstate' \in [Nodes -> ClientStates]
         /\ unexpected' \in [Nodes -> BOOLEAN]
<1> DEFINE others == {w \in suspended[n] : w.slot # s}
<1>1. cur[n] \in Sockets \cup {NoSocket}
  BY DEF TypeOK
<1>2. \A q \in Seq(Records) : RecordMsgs(q) \in Seq(Requests)
  BY RecordMsgsType, SeqMonotonic DEF Requests
<1>3. others \in SUBSET [slot : 1..MaxReplays, rest : Seq(Records)]
  BY DEF TypeOK
<1>4. CASE /\ up' = SentUp(up, cur[n], RecordMsgs(rows) \o <<SyncRequest>>)
           /\ suspended' = [suspended EXCEPT ![n] = others]
           /\ Transition(n, path \o Replayed)
  <2>1. <<SyncRequest>> \in Seq(Requests)
    BY DEF Requests
  <2>2. RecordMsgs(rows) \o <<SyncRequest>> \in Seq(Requests)
    BY <1>2, <2>1, SeqTypes
  <2>3. Replayed \in Seq(ClientStates)
    BY DEF Replayed, ClientStates
  <2>4. path \o Replayed \in Seq(ClientStates)
    BY <2>3, SeqTypes
  <2>5. up' \in [Sockets -> Seq(Requests)]
    BY <1>1, <1>4, <2>2, SentTypes
  <2>6. cstate' \in [Nodes -> ClientStates] /\ unexpected' \in [Nodes -> BOOLEAN]
    BY <1>4, <2>4, TransitionType DEF TypeOK
  <2> QED
    BY <1>3, <1>4, <2>5, <2>6 DEF TypeOK
<1>5. CASE \E m \in 1..Len(rows) :
             /\ up' = SentUp(up, cur[n], RecordMsgs(SubSeq(rows, 1, m)))
             /\ suspended' = [suspended EXCEPT ![n] =
                  others \cup {[slot |-> s, rest |-> SubSeq(rows, m + 1, Len(rows))]}]
             /\ Transition(n, path)
  <2>1. PICK m \in 1..Len(rows) :
             /\ up' = SentUp(up, cur[n], RecordMsgs(SubSeq(rows, 1, m)))
             /\ suspended' = [suspended EXCEPT ![n] =
                  others \cup {[slot |-> s, rest |-> SubSeq(rows, m + 1, Len(rows))]}]
             /\ Transition(n, path)
    BY <1>5
  <2>2. Len(rows) \in Nat
    BY SeqTypes
  <2>3. /\ SubSeq(rows, 1, m) \in Seq(Records)
        /\ SubSeq(rows, m + 1, Len(rows)) \in Seq(Records)
    BY <2>2, SeqTypes
  <2>4. up' \in [Sockets -> Seq(Requests)]
    BY <1>1, <1>2, <2>1, <2>3, SentTypes
  <2>5. cstate' \in [Nodes -> ClientStates] /\ unexpected' \in [Nodes -> BOOLEAN]
    BY <2>1, TransitionType DEF TypeOK
  <2>6. suspended' \in [Nodes -> SUBSET [slot : 1..MaxReplays, rest : Seq(Records)]]
    <3> DEFINE w == [slot |-> s, rest |-> SubSeq(rows, m + 1, Len(rows))]
    <3>1. w \in [slot : 1..MaxReplays, rest : Seq(Records)]
      BY <2>3
    <3>2. suspended' = [suspended EXCEPT ![n] = others \cup {w}]
      BY <2>1
    <3> HIDE DEF others, w
    <3> QED
      BY <1>3, <3>1, <3>2 DEF TypeOK
  <2> QED
    BY <2>4, <2>5, <2>6
<1> QED
  BY <1>4, <1>5 DEF RunReplay

\* What the lines at the head of a channel carry.
LEMMA HeadTypes ==
  ASSUME TypeOK, NEW c \in Sockets
  PROVE  /\ up[c] # <<>> =>
              /\ Tail(up[c]) \in Seq(Requests)
              /\ Head(up[c]).type = "record" => Head(up[c]).record \in Records
         /\ down[c] # <<>> =>
              /\ Tail(down[c]) \in Seq(Replies)
              /\ Head(down[c]).type = "record" => Head(down[c]).record \in Records
              /\ Head(down[c]).type = "ack" => Head(down[c]).key \in Keys
<1>1. up[c] # <<>> => Head(up[c]) \in Requests /\ Tail(up[c]) \in Seq(Requests)
  BY SeqTypes DEF TypeOK
<1>2. down[c] # <<>> => Head(down[c]) \in Replies /\ Tail(down[c]) \in Seq(Replies)
  BY SeqTypes DEF TypeOK
<1>3. \A m \in Requests : m.type = "record" => m.record \in Records
  BY DEF Requests, RecordMsgSet, Hello, SyncRequest
<1>4. \A m \in Replies : m.type = "record" => m.record \in Records
  BY DEF Replies, RecordMsgSet, Ready
<1>8. \A m \in Replies : m.type = "ack" => m.key \in Keys
  BY DEF Replies, RecordMsgSet, Ready
<1>5. up[c] # <<>> /\ Head(up[c]).type = "record" => Head(up[c]).record \in Records
  BY <1>1, <1>3, Zenon
<1>6. down[c] # <<>> /\ Head(down[c]).type = "record" => Head(down[c]).record \in Records
  BY <1>2, <1>4, Zenon
<1>7. down[c] # <<>> /\ Head(down[c]).type = "ack" => Head(down[c]).key \in Keys
  BY <1>2, <1>8, Zenon
<1> QED
  BY <1>1, <1>2, <1>5, <1>6, <1>7, Zenon

LEMMA InitTypes == Init => Types
<1> SUFFICES ASSUME Init PROVE Types
  OBVIOUS
<1>1. \A S : <<>> \in Seq(S)
  OBVIOUS
<1>2. TypeOK
  BY <1>1, NodesAssumption, BoundsAssumption
  DEF Init, All, TypeOK, ClientStates, ServerStates, LinkStates
<1>3. \A n \in Nodes : IsFiniteSet(db[n])
  BY FS_EmptySet DEF Init, All
<1> QED
  BY <1>2, <1>3 DEF Types

\* The steps of a client that no socket triggers.
LEMMA ClientTypes ==
  ASSUME Types, NEW n \in Nodes, ClientNext(n)
  PROVE  Types'
<1> USE DEF Types
<1>1. CASE Connect(n)
  <2>1. OpenSocket(n)
    BY <1>1 DEF Connect
  <2> QED
    BY <1>1, <2>1, OpenSocketType DEF Connect, TypeOK, dbVars, ackVars, serverVars
<1>2. CASE Reconnect(n)
  <2>1. CASE OpenSocket(n)
    BY <1>2, <2>1, OpenSocketType
    DEF Reconnect, TypeOK, dbVars, ackVars, serverVars, harnessVars
  <2>2. CASE UNCHANGED <<cstate, unexpected, cur, opened, link>>
    BY <1>2, <2>2 DEF Reconnect, TypeOK, dbVars, ackVars, serverVars, harnessVars
  <2> QED
    BY <1>2, <2>1, <2>2 DEF Reconnect
<1>3. CASE Disconnect(n)
  <2>1. cur[n] \in Sockets
    BY <1>3 DEF Disconnect, TypeOK
  <2>2. <<"DISCONNECTED">> \in Seq(ClientStates) /\ <<>> \in Seq(Requests)
          /\ <<>> \in Seq(Replies)
    BY DEF ClientStates
  <2>3. cstate' \in [Nodes -> ClientStates] /\ unexpected' \in [Nodes -> BOOLEAN]
    BY <1>3, <2>2, TransitionType DEF Disconnect, TypeOK
  <2>4. link' \in [Sockets -> LinkStates]
    BY <1>3, <2>1 DEF Disconnect, TypeOK, LinkStates
  <2>5. up' \in [Sockets -> Seq(Requests)] /\ down' \in [Sockets -> Seq(Replies)]
    BY <1>3, <2>1, <2>2 DEF Disconnect, TypeOK
  <2>6. timer' \in [Nodes -> BOOLEAN] /\ reconnect' \in [Nodes -> BOOLEAN]
          /\ interrupts' \in Nat
    BY <1>3 DEF Disconnect, TypeOK
  <2>7. UNCHANGED <<db, insertFaults, cur, opened, suspended, stamps, pend, acked,
                    srv, queue, seq, epoch, netFaults>>
    BY <1>3 DEF Disconnect, dbVars, ackVars, serverVars
  <2> QED
    BY <2>3, <2>4, <2>5, <2>6, <2>7 DEF TypeOK
<1>4. CASE ResumeReplay(n)
  <2>1. PICK w \in suspended[n] : RunReplay(n, w.slot, w.rest, <<>>)
    BY <1>4 DEF ResumeReplay
  <2>2. w.slot \in 1..MaxReplays /\ w.rest \in Seq(Records)
    BY DEF TypeOK
  <2>3. <<>> \in Seq(ClientStates)
    OBVIOUS
  <2> QED
    BY <1>4, <2>1, <2>2, <2>3, RunReplayType
    DEF ResumeReplay, TypeOK, dbVars, ackVars, serverVars, harnessVars
<1>5. CASE WriteRecord(n)
  <2> DEFINE r == [owner |-> n, epoch |-> epoch, seq |-> seq[n] + 1]
  <2>1. r \in Records /\ Key(r) \in Keys /\ seq[n] + 1 \in 0..MaxWrites
    BY <1>5, BoundsAssumption DEF WriteRecord, Records, Keys, Key, TypeOK
  <2>2. seq' \in [Nodes -> 0..MaxWrites]
    BY <1>5, <2>1 DEF WriteRecord, TypeOK
  <2>3. <<RecordMsg(r)>> \in Seq(Requests)
    BY <2>1 DEF Requests, RecordMsgSet, RecordMsg
  <2>4. /\ db' \in [Nodes -> SUBSET Records]
        /\ \A m \in Nodes : IsFiniteSet(db'[m])
        /\ insertFaults' \in Nat
    <3>1. CASE db' = [db EXCEPT ![n] = Insert(@, r)] /\ Spend(0)
      <4>1. db' \in [Nodes -> SUBSET Records] /\ \A m \in Nodes : IsFiniteSet(db'[m])
        <5> HIDE DEF r
        <5> QED
          BY <2>1, <3>1, InsertType
      <4> QED
        BY <3>1, <4>1 DEF Spend, TypeOK
    <3>2. CASE Spend(1) /\ UNCHANGED db
      BY <3>2 DEF Spend, TypeOK
    <3> QED
      BY <1>5, <3>1, <3>2 DEF WriteRecord
  <2>5. up' \in [Sockets -> Seq(Requests)]
    <3>1. CASE up' = SentUp(up, cur[n], <<RecordMsg(r)>>)
      BY <2>3, <3>1, SentTypes DEF TypeOK
    <3>2. CASE up' = up
      BY <3>2 DEF TypeOK
    <3> QED
      BY <1>5, <3>1, <3>2 DEF WriteRecord
  <2>6. stamps' \in [Nodes -> SUBSET Keys] /\ pend' \in [Nodes -> SUBSET Records]
    <3>1. CASE /\ stamps' = [stamps EXCEPT ![n] = @ \cup {Key(r)}]
               /\ pend' = [pend EXCEPT ![n] = @ \cup {r}]
      BY <2>1, <3>1 DEF TypeOK
    <3>2. CASE UNCHANGED <<stamps, pend>>
      BY <3>2 DEF TypeOK
    <3> QED
      BY <1>5, <3>1, <3>2 DEF WriteRecord
  <2> QED
    BY <1>5, <2>2, <2>4, <2>5, <2>6
    DEF WriteRecord, TypeOK, clientVars, serverVars
<1>6. CASE AckTimeout(n)
  BY <1>6 DEF AckTimeout, TypeOK, dbVars, clientVars, wireVars, serverVars, harnessVars
<1> QED
  BY <1>1, <1>2, <1>3, <1>4, <1>5, <1>6 DEF ClientNext

\* A line the client received.
LEMMA ClientReceiveTypes ==
  ASSUME Types, NEW c \in Sockets, ClientReceive(c)
  PROVE  Types'
<1> DEFINE n == c[1]
<1>1. n \in Nodes
  BY SocketType
<1>2. down[c] # <<>> /\ down' = [down EXCEPT ![c] = Tail(@)]
        /\ UNCHANGED <<cur, opened, timer, link, serverVars, harnessVars>>
  BY DEF ClientReceive
<1>3. down' \in [Sockets -> Seq(Replies)]
  BY <1>2, HeadTypes DEF Types, TypeOK
<1>4. /\ up' \in [Sockets -> Seq(Requests)]
      /\ suspended' \in [Nodes -> SUBSET [slot : 1..MaxReplays, rest : Seq(Records)]]
      /\ cstate' \in [Nodes -> ClientStates] /\ unexpected' \in [Nodes -> BOOLEAN]
      /\ stamps' \in [Nodes -> SUBSET Keys] /\ pend' \in [Nodes -> SUBSET Records]
      /\ acked' \in [Nodes -> SUBSET Records]
      /\ db' \in [Nodes -> SUBSET Records] /\ insertFaults' \in Nat
      /\ \A m \in Nodes : IsFiniteSet(db'[m])
  <2>1. CASE ClientReady(c)
    <3>1. CASE \E s \in 1..MaxReplays : \E rows \in Ordered({r \in db[n] : r.owner = n}) :
                 RunReplay(n, s, rows, <<"READY_RECEIVED", "REPLAY_IN_PROGRESS">>)
      <4>1. PICK s \in 1..MaxReplays, rows \in Ordered({r \in db[n] : r.owner = n}) :
              RunReplay(n, s, rows, <<"READY_RECEIVED", "REPLAY_IN_PROGRESS">>)
        BY <3>1
      <4>2. IsFiniteSet({r \in db[n] : r.owner = n})
        BY <1>1, FS_Subset DEF Types
      <4>3. {r \in db[n] : r.owner = n} \subseteq Records
        BY <1>1 DEF Types, TypeOK
      <4>4. rows \in Seq(Records)
        BY <4>2, <4>3, OrderedType
      <4>5. <<"READY_RECEIVED", "REPLAY_IN_PROGRESS">> \in Seq(ClientStates)
        BY DEF ClientStates
      <4>6. /\ up' \in [Sockets -> Seq(Requests)]
            /\ suspended' \in [Nodes -> SUBSET [slot : 1..MaxReplays, rest : Seq(Records)]]
            /\ cstate' \in [Nodes -> ClientStates] /\ unexpected' \in [Nodes -> BOOLEAN]
        <5> HIDE DEF n
        <5> QED
          BY <1>1, <4>1, <4>4, <4>5, RunReplayType DEF Types
      <4> QED
        BY <2>1, <4>6 DEF ClientReady, Types, TypeOK, dbVars, ackVars
    <3>2. CASE UNCHANGED <<cstate, unexpected, suspended, up>>
      BY <2>1, <3>2 DEF ClientReady, Types, TypeOK, dbVars, ackVars
    <3> QED
      BY <2>1, <3>1, <3>2 DEF ClientReady
  <2>2. CASE ClientAck(c)
    <3> DEFINE k == Head(down[c]).key
               resolved == {r \in pend[n] : Key(r) = k /\ k \in stamps[n]}
    <3>1. /\ stamps' = [stamps EXCEPT ![n] = @ \ {k}]
          /\ pend' = [pend EXCEPT ![n] = @ \ resolved]
          /\ acked' = [acked EXCEPT ![n] = @ \cup resolved]
          /\ UNCHANGED <<db, insertFaults, cstate, unexpected, suspended, up>>
      BY <2>2 DEF ClientAck, dbVars
    <3>2. resolved \subseteq pend[n]
      OBVIOUS
    <3> HIDE DEF k, resolved, n
    <3>3. resolved \subseteq Records
      BY <1>1, <3>2 DEF Types, TypeOK
    <3>4. /\ stamps' \in [Nodes -> SUBSET Keys] /\ pend' \in [Nodes -> SUBSET Records]
          /\ acked' \in [Nodes -> SUBSET Records]
      BY <1>1, <3>1, <3>3 DEF Types, TypeOK
    <3> QED
      BY <3>1, <3>4 DEF Types, TypeOK
  <2>3. CASE ClientRecord(c)
    <3> DEFINE r == Head(down[c]).record
    <3>1. r \in Records
      BY <1>2, <2>3, HeadTypes DEF ClientRecord, Types
    <3>2. \/ db' = [db EXCEPT ![n] = Insert(@, r)] /\ Spend(0)
          \/ Spend(1) /\ UNCHANGED db
      BY <2>3 DEF ClientRecord
    <3>3. UNCHANGED <<stamps, pend, acked, cstate, unexpected, suspended, up>>
      BY <2>3 DEF ClientRecord, ackVars
    <3> HIDE DEF r, n
    <3>4. db' \in [Nodes -> SUBSET Records] /\ \A m \in Nodes : IsFiniteSet(db'[m])
      <4>1. CASE db' = [db EXCEPT ![n] = Insert(@, r)]
        BY <1>1, <3>1, <4>1, InsertType
      <4>2. CASE UNCHANGED db
        BY <4>2 DEF Types, TypeOK
      <4> QED
        BY <3>2, <4>1, <4>2
    <3>5. insertFaults' \in Nat
      BY <3>2 DEF Spend, Types, TypeOK
    <3> QED
      BY <3>3, <3>4, <3>5 DEF Types, TypeOK
  <2> QED
    BY <2>1, <2>2, <2>3 DEF ClientReceive
<1> QED
  BY <1>2, <1>3, <1>4 DEF Types, TypeOK, serverVars, harnessVars

\* A line the server received.
LEMMA ServerReceiveTypes ==
  ASSUME Types, NEW c \in Sockets, ServerReceive(c)
  PROVE  Types'
<1>1. up[c] # <<>> /\ up' = [up EXCEPT ![c] = Tail(@)]
        /\ UNCHANGED <<clientVars, ackVars, link, harnessVars>>
  BY DEF ServerReceive
<1>2. up' \in [Sockets -> Seq(Requests)]
  BY <1>1, HeadTypes DEF Types, TypeOK
<1>3. <<>> \in Seq(Replies) /\ <<>> \in Seq(Records) /\ <<Ready>> \in Seq(Replies)
  BY DEF Replies
<1>4. /\ db' \in [Nodes -> SUBSET Records] /\ insertFaults' \in Nat
      /\ \A m \in Nodes : IsFiniteSet(db'[m])
      /\ down' \in [Sockets -> Seq(Replies)]
      /\ srv' \in [Sockets -> ServerStates] /\ queue' \in [Sockets -> Seq(Records)]
  <2>1. CASE ServerHello(c)
    <3>1. queue[c] \in Seq(Records)
      BY DEF Types, TypeOK
    <3>2. Process(c, queue[c], <<Ready>>)
      BY <2>1 DEF ServerHello
    <3>3. /\ db' \in [Nodes -> SUBSET Records] /\ insertFaults' \in Nat
          /\ \A m \in Nodes : IsFiniteSet(db'[m])
          /\ down' \in [Sockets -> Seq(Replies)]
      BY <1>3, <3>1, <3>2, ProcessType
    <3> QED
      BY <1>3, <2>1, <3>3 DEF ServerHello, ServerStates, Types, TypeOK
  <2>2. CASE ServerRecord(c)
    <3> DEFINE r == Head(up[c]).record
    <3>1. r \in Records
      BY <1>1, <2>2, HeadTypes DEF ServerRecord, Types
    <3>2. CASE Process(c, <<r>>, <<>>) /\ UNCHANGED queue
      <4>1. <<r>> \in Seq(Records)
        BY <3>1
      <4>2. /\ db' \in [Nodes -> SUBSET Records] /\ insertFaults' \in Nat
            /\ \A m \in Nodes : IsFiniteSet(db'[m])
            /\ down' \in [Sockets -> Seq(Replies)]
        <5> HIDE DEF r
        <5> QED
          BY <1>3, <3>2, <4>1, ProcessType
      <4> QED
        BY <2>2, <3>2, <4>2 DEF ServerRecord, Types, TypeOK
    <3>3. CASE queue' = [queue EXCEPT ![c] = Append(@, r)] /\ UNCHANGED <<dbVars, down>>
      <4>1. Append(queue[c], r) \in Seq(Records)
        BY <3>1, AppendProperties DEF Types, TypeOK
      <4>2. queue' \in [Sockets -> Seq(Records)]
        BY <3>3, <4>1 DEF Types, TypeOK
      <4> QED
        BY <2>2, <3>3, <4>2 DEF ServerRecord, Types, TypeOK, dbVars
    <3> QED
      BY <2>2, <3>2, <3>3 DEF ServerRecord
  <2>3. CASE ServerSyncRequest(c)
    <3>1. CASE UNCHANGED down
      BY <2>3, <3>1 DEF ServerSyncRequest, Types, TypeOK, dbVars, serverVars
    <3>2. CASE ~UNCHANGED down
      <4> DEFINE stored == {r \in db[Peer[c[1]]] : r.seq > Head(up[c]).since}
      <4>1. PICK rows \in Ordered(stored) :
              down' = SentDown(down, c, RecordMsgs(SubSeq(rows, 1, Min2(Len(rows), SyncLimit))))
        BY <2>3, <3>2 DEF ServerSyncRequest
      <4>2. stored \subseteq Records /\ IsFiniteSet(stored)
        BY SocketType, FS_Subset DEF Types, TypeOK
      <4> HIDE DEF stored
      <4>3. rows \in Seq(Records)
        BY <4>2, OrderedType
      <4>4. Min2(Len(rows), SyncLimit) \in Nat /\ Min2(Len(rows), SyncLimit) <= Len(rows)
        BY <4>3, SeqTypes, BoundsAssumption DEF Min2
      <4>5. SubSeq(rows, 1, Min2(Len(rows), SyncLimit)) \in Seq(Records)
        BY <4>3, <4>4, SeqTypes
      <4>6. RecordMsgs(SubSeq(rows, 1, Min2(Len(rows), SyncLimit))) \in Seq(Replies)
        <5>1. \A q \in Seq(Records) : RecordMsgs(q) \in Seq(Replies)
          BY RecordMsgsType, SeqMonotonic DEF Replies
        <5> QED
          BY <4>5, <5>1
      <4>7. down' \in [Sockets -> Seq(Replies)]
        BY <4>1, <4>6, SentTypes DEF Types
      <4> QED
        BY <2>3, <4>7 DEF ServerSyncRequest, Types, TypeOK, dbVars, serverVars
    <3> QED
      BY <3>1, <3>2
  <2> QED
    BY <2>1, <2>2, <2>3 DEF ServerReceive
<1> QED
  BY <1>1, <1>2, <1>4 DEF Types, TypeOK, clientVars, ackVars, harnessVars

\* The steps of a socket.
LEMMA SocketTypes ==
  ASSUME Types, NEW c \in Sockets, SocketNext(c)
  PROVE  Types'
<1> DEFINE n == c[1]
<1>1. n \in Nodes /\ cur[n] \in Sockets \cup {NoSocket}
  BY SocketType DEF Types, TypeOK
<1>2. /\ <<>> \in Seq(Requests) /\ <<>> \in Seq(Replies) /\ <<>> \in Seq(Records)
      /\ <<Hello>> \in Seq(Requests)
  BY DEF Requests
<1>3. CASE Connected(c)
  <2>1. <<"CONNECTED", "HELLO_SENT">> \in Seq(ClientStates)
    BY DEF ClientStates
  <2>2. cstate' \in [Nodes -> ClientStates] /\ unexpected' \in [Nodes -> BOOLEAN]
    BY <1>1, <1>3, <2>1, TransitionType DEF Connected, Types, TypeOK
  <2>3. up' \in [Sockets -> Seq(Requests)]
    <3>1. up' = SentUp(up, cur[n], <<Hello>>)
      BY <1>3 DEF Connected
    <3> QED
      BY <1>1, <1>2, <3>1, SentTypes DEF Types
  <2>4. link' \in [Sockets -> LinkStates] /\ srv' \in [Sockets -> ServerStates]
    BY <1>3 DEF Connected, Types, TypeOK, LinkStates, ServerStates
  <2> QED
    BY <1>3, <2>2, <2>3, <2>4
    DEF Connected, Types, TypeOK, dbVars, ackVars, harnessVars
<1>4. CASE NetFault(c)
  BY <1>2, <1>4
  DEF NetFault, Types, TypeOK, LinkStates, dbVars, clientVars, ackVars, serverVars
<1>5. CASE SocketClosed(c)
  <2>1. <<"DISCONNECTED">> \in Seq(ClientStates)
    BY DEF ClientStates
  <2>2. cstate' \in [Nodes -> ClientStates] /\ unexpected' \in [Nodes -> BOOLEAN]
    BY <1>1, <1>5, <2>1, TransitionType DEF SocketClosed, Types, TypeOK
  <2>3. /\ link' \in [Sockets -> LinkStates] /\ down' \in [Sockets -> Seq(Replies)]
        /\ timer' \in [Nodes -> BOOLEAN]
    BY <1>2, <1>5 DEF SocketClosed, Types, TypeOK, LinkStates
  <2> QED
    BY <1>5, <2>2, <2>3
    DEF SocketClosed, Types, TypeOK, dbVars, ackVars, serverVars, harnessVars
<1>6. CASE ClientReceive(c)
  BY <1>6, ClientReceiveTypes
<1>7. CASE ServerReceive(c)
  BY <1>7, ServerReceiveTypes
<1>8. CASE ServerClosed(c)
  BY <1>2, <1>8
  DEF ServerClosed, Types, TypeOK, ServerStates, dbVars, clientVars, ackVars, harnessVars
<1> QED
  BY <1>3, <1>4, <1>5, <1>6, <1>7, <1>8 DEF SocketNext

LEMMA RestartTypes ==
  ASSUME Types, Restart
  PROVE  Types'
<1>1. \A S : <<>> \in Seq(S)
  OBVIOUS
<1>2. epoch' \in 0..MaxRestarts
  BY BoundsAssumption DEF Restart, Types, TypeOK
<1>3. UNCHANGED <<db, insertFaults, acked, interrupts, netFaults>>
  BY DEF Restart, dbVars
<1>4. /\ seq' \in [Nodes -> 0..MaxWrites] /\ opened' \in [Nodes -> 0..MaxSockets]
      /\ cstate' \in [Nodes -> ClientStates] /\ unexpected' \in [Nodes -> BOOLEAN]
      /\ timer' \in [Nodes -> BOOLEAN] /\ reconnect' \in [Nodes -> BOOLEAN]
      /\ cur' \in [Nodes -> Sockets \cup {NoSocket}]
  BY BoundsAssumption DEF Restart, All, ClientStates
<1>5. /\ suspended' \in [Nodes -> SUBSET [slot : 1..MaxReplays, rest : Seq(Records)]]
      /\ stamps' \in [Nodes -> SUBSET Keys] /\ pend' \in [Nodes -> SUBSET Records]
  BY DEF Restart, All
<1>6. /\ link' \in [Sockets -> LinkStates] /\ srv' \in [Sockets -> ServerStates]
      /\ up' \in [Sockets -> Seq(Requests)] /\ down' \in [Sockets -> Seq(Replies)]
      /\ queue' \in [Sockets -> Seq(Records)]
  BY <1>1 DEF Restart, All, LinkStates, ServerStates
<1> QED
  BY <1>2, <1>3, <1>4, <1>5, <1>6 DEF Types, TypeOK

LEMMA StutterTypes == Types /\ UNCHANGED vars => Types'
BY DEF Types, TypeOK, vars, dbVars, clientVars, ackVars, wireVars, serverVars, harnessVars

LEMMA NextTypes == Types /\ [Next]_vars => Types'
BY ClientTypes, SocketTypes, RestartTypes, StutterTypes DEF Next

\* Whatever the network, the database and the callbacks do, the state keeps
\* its types, and the tables stay finite.
THEOREM TypesCorrect == Spec => []Types
<1> QED
  BY InitTypes, NextTypes, PTL DEF Spec

\* The types alone, as the runs check them.
THEOREM TypeCorrect == Spec => []TypeOK
<1>1. Types => TypeOK
  BY DEF Types
<1> QED
  BY <1>1, TypesCorrect, PTL

----------------------------------------------------------------------------
(* Acknowledgements are true.  AckedKeyIsStored is inductive: an ack enters *)
(* a channel only in processRecord, when the key is stored; tables never   *)
(* shrink; and acked only grows by what an ack in the channel names.       *)

\* A table only grows.
LEMMA DbGrows ==
  ASSUME Types, Next
  PROVE  \A n \in Nodes : db[n] \subseteq db'[n]
<1>1. ASSUME NEW n \in Nodes, ClientNext(n)
      PROVE  \A m \in Nodes : db[m] \subseteq db'[m]
  <2>1. CASE WriteRecord(n)
    <3>1. \/ \E r : db' = [db EXCEPT ![n] = Insert(@, r)]
          \/ db' = db
      BY <2>1 DEF WriteRecord
    <3> QED
      BY <3>1 DEF Insert, Types, TypeOK
  <2>2. CASE ~WriteRecord(n)
    BY <1>1, <2>2 DEF ClientNext, Connect, Reconnect, Disconnect, ResumeReplay, AckTimeout, dbVars
  <2> QED
    BY <2>1, <2>2
<1>2. ASSUME NEW c \in Sockets, SocketNext(c)
      PROVE  \A m \in Nodes : db[m] \subseteq db'[m]
  <2>1. ASSUME NEW q, NEW reply, Process(c, q, reply)
        PROVE  \A m \in Nodes : db[m] \subseteq db'[m]
    <3>1. PICK F : db' = [db EXCEPT ![Peer[c[1]]] = InsertAll(@, q, F)]
      BY <2>1 DEF Process
    <3>2. db[Peer[c[1]]] \subseteq InsertAll(db[Peer[c[1]]], q, F)
      BY DEF InsertAll
    <3> QED
      BY <3>1, <3>2 DEF Types, TypeOK
  <2>2. CASE ServerReceive(c)
    <3>1. \/ \E q, reply : Process(c, q, reply)
          \/ db' = db
      BY <2>2 DEF ServerReceive, ServerHello, ServerRecord, ServerSyncRequest, dbVars
    <3> QED
      BY <2>1, <3>1
  <2>3. CASE ClientReceive(c)
    <3>1. \/ \E r : db' = [db EXCEPT ![c[1]] = Insert(@, r)]
          \/ db' = db
      BY <2>3 DEF ClientReceive, ClientReady, ClientAck, ClientRecord, dbVars
    <3>2. \A rows, r : rows \subseteq Insert(rows, r)
      BY DEF Insert
    <3>3. c[1] \in Nodes /\ db \in [Nodes -> SUBSET Records]
      BY SocketType DEF Types, TypeOK
    <3> QED
      BY <3>1, <3>2, <3>3
  <2>4. CASE Connected(c) \/ NetFault(c) \/ SocketClosed(c) \/ ServerClosed(c)
    BY <2>4 DEF Connected, NetFault, SocketClosed, ServerClosed, dbVars
  <2> QED
    BY <1>2, <2>2, <2>3, <2>4 DEF SocketNext
<1>3. Restart => \A m \in Nodes : db[m] \subseteq db'[m]
  BY DEF Restart, dbVars
<1> QED
  BY <1>1, <1>2, <1>3 DEF Next

\* A row, once stored, answers for its key for ever.
LEMMA KeysStay ==
  ASSUME Types, Next, NEW n \in Nodes, NEW k, HasKey(db[n], k)
  PROVE  HasKey(db'[n], k)
BY DbGrows DEF HasKey

\* The count of INSERT statements that threw never decreases.
LEMMA FaultsGrow ==
  ASSUME Types, Next
  PROVE  insertFaults' >= insertFaults
<1> USE DEF Types, TypeOK
<1>1. ASSUME NEW n \in Nodes, ClientNext(n)
      PROVE  insertFaults' >= insertFaults
  BY <1>1 DEF ClientNext, Connect, Reconnect, Disconnect, ResumeReplay, WriteRecord,
              AckTimeout, dbVars, Spend
<1>2. ASSUME NEW c \in Sockets, SocketNext(c)
      PROVE  insertFaults' >= insertFaults
  <2>1. ASSUME NEW q \in Seq(Records), NEW reply, Process(c, q, reply)
        PROVE  insertFaults' >= insertFaults
    <3>1. PICK F \in SUBSET DOMAIN q : Spend(Cardinality(F))
      BY <2>1 DEF Process
    <3>2. IsFiniteSet(DOMAIN q)
      BY SeqTypes, FS_Interval
    <3>3. Cardinality(F) \in Nat
      BY <3>2, FS_Subset, FS_CardinalityType
    <3> QED
      BY <3>1, <3>3 DEF Spend
  <2>2. CASE ServerReceive(c)
    <3>1. CASE ServerHello(c)
      BY <2>1, <3>1 DEF ServerHello
    <3>2. CASE ServerRecord(c)
      <4>1. <<Head(up[c]).record>> \in Seq(Records)
        BY <2>2, <3>2, HeadTypes DEF ServerReceive, ServerRecord
      <4>2. CASE Process(c, <<Head(up[c]).record>>, <<>>)
        BY <2>1, <4>1, <4>2
      <4>3. CASE insertFaults' = insertFaults
        BY <4>3
      <4> QED
        BY <3>2, <4>2, <4>3 DEF ServerRecord, dbVars
    <3>3. CASE ServerSyncRequest(c)
      BY <3>3 DEF ServerSyncRequest, dbVars
    <3> QED
      BY <2>2, <3>1, <3>2, <3>3 DEF ServerReceive
  <2>3. CASE ClientReceive(c)
    BY <2>3 DEF ClientReceive, ClientReady, ClientAck, ClientRecord, dbVars, Spend
  <2>4. CASE Connected(c) \/ NetFault(c) \/ SocketClosed(c) \/ ServerClosed(c)
    BY <2>4 DEF Connected, NetFault, SocketClosed, ServerClosed, dbVars
  <2> QED
    BY <1>2, <2>2, <2>3, <2>4 DEF SocketNext
<1>3. Restart => insertFaults' >= insertFaults
  BY DEF Restart, dbVars
<1> QED
  BY <1>1, <1>2, <1>3 DEF Next

\* The acks among the lines q name keys stored in rows.
AcksIn(q, rows) == \A m \in Contents(q) : m.type = "ack" => HasKey(rows, m.key)

LEMMA AcksInParts ==
  ASSUME NEW rows, NEW s \in Seq(Replies), AcksIn(s, rows)
  PROVE  /\ \A t \in Seq(Replies) : AcksIn(t, rows) => AcksIn(s \o t, rows)
         /\ s # <<>> => AcksIn(Tail(s), rows)
<1>1. ASSUME NEW t \in Seq(Replies), AcksIn(t, rows)
      PROVE  AcksIn(s \o t, rows)
  <2>1. Contents(s \o t) \subseteq Contents(s) \cup Contents(t)
    BY ConcatProperties, LenProperties DEF Contents
  <2> QED
    BY <1>1, <2>1 DEF AcksIn
<1>2. ASSUME s # <<>>
      PROVE  AcksIn(Tail(s), rows)
  <2>1. Contents(Tail(s)) \subseteq Contents(s)
    BY <1>2, HeadTailProperties, LenProperties DEF Contents
  <2> QED
    BY <2>1 DEF AcksIn
<1> QED
  BY <1>1, <1>2

\* What processRecord sends back is true when no statement throws.
LEMMA ProcessAcks ==
  ASSUME Types, insertFaults' = 0, insertFaults = 0, NEW c \in Sockets,
         NEW q \in Seq(Records), NEW reply \in Seq(Replies),
         AcksIn(reply, db'[Peer[c[1]]]), Process(c, q, reply)
  PROVE  \E ms \in Seq(Replies) : /\ down' = SentDown(down, c, ms)
                                  /\ AcksIn(ms, db'[Peer[c[1]]])
<1> DEFINE n == Peer[c[1]]
           acks == [i \in DOMAIN q |-> AckMsg(Key(q[i]))]
<1>1. n \in Nodes
  BY SocketType
<1>2. PICK F \in SUBSET DOMAIN q :
        /\ Spend(Cardinality(F))
        /\ db' = [db EXCEPT ![n] = InsertAll(@, q, F)]
        /\ down' = SentDown(down, c, reply \o acks)
  BY DEF Process
<1>3. DOMAIN q = 1..Len(q) /\ Len(q) \in Nat /\ \A i \in DOMAIN q : q[i] \in Records
  BY SeqTypes
<1>4. F = {}
  <2>1. IsFiniteSet(DOMAIN q)
    BY <1>3, FS_Interval
  <2>2. IsFiniteSet(F) /\ Cardinality(F) \in Nat
    BY <2>1, FS_Subset, FS_CardinalityType
  <2>3. Cardinality(F) = 0
    BY <1>2, <2>2 DEF Spend
  <2> QED
    BY <2>2, <2>3, FS_EmptySet
<1>5. \A i \in DOMAIN q : HasKey(db'[n], Key(q[i]))
  <2>1. db'[n] = InsertAll(db[n], q, {}) /\ db[n] \in SUBSET Records
    BY <1>1, <1>2, <1>4 DEF Types, TypeOK
  <2> QED
    BY <2>1, InsertAllStores
<1>6. acks \in Seq(Replies)
  <2>1. \A i \in DOMAIN q : AckMsg(Key(q[i])) \in Replies
    BY <1>3 DEF AckMsg, Key, Keys, Records, Replies
  <2>2. acks \in [1..Len(q) -> Replies]
    BY <1>3, <2>1
  <2> QED
    BY <1>3, <2>2, MapIsSeq
<1>7. AcksIn(acks, db'[n])
  BY <1>5 DEF AcksIn, Contents, AckMsg
<1> HIDE DEF acks
<1>8. reply \o acks \in Seq(Replies) /\ AcksIn(reply \o acks, db'[n])
  BY <1>6, <1>7, AcksInParts, SeqTypes
<1> QED
  BY <1>2, <1>8

\* Acknowledgements in flight stay true.
LEMMA AcksInFlight ==
  ASSUME Types, AckedKeyIsStored, insertFaults' = 0, insertFaults = 0, Next,
         NEW d \in Sockets
  PROVE  AcksIn(down'[d], db'[Peer[d[1]]])
<1> DEFINE Goal == AcksIn(down'[d], db'[Peer[d[1]]])
<1>1. AcksIn(down[d], db'[Peer[d[1]]])
  BY SocketType, KeysStay DEF AckedKeyIsStored, AcksIn
<1>2. AcksIn(<<>>, db'[Peer[d[1]]])
  BY DEF AcksIn, Contents
<1>3. down \in [Sockets -> Seq(Replies)]
  BY DEF Types, TypeOK
<1>4. CASE UNCHANGED down
  BY <1>1, <1>4
<1>5. ASSUME NEW c \in Sockets, down' = [down EXCEPT ![c] = <<>>]
      PROVE  Goal
  BY <1>1, <1>2, <1>3, <1>5
<1>6. ASSUME NEW c \in Sockets, NEW ms \in Seq(Replies),
             AcksIn(ms, db'[Peer[c[1]]]), down' = SentDown(down, c, ms)
      PROVE  Goal
  <2>1. CASE d = c /\ link[c] = "open"
    <3>1. down'[d] = down[d] \o ms
      BY <1>3, <1>6, <2>1 DEF SentDown
    <3>2. down[d] \in Seq(Replies) /\ AcksIn(ms, db'[Peer[d[1]]])
      BY <1>3, <1>6, <2>1
    <3>3. AcksIn(down[d] \o ms, db'[Peer[d[1]]])
      BY <1>1, <3>2, AcksInParts
    <3> QED
      BY <3>1, <3>3
  <2>2. CASE ~(d = c /\ link[c] = "open")
    BY <1>1, <1>3, <1>6, <2>2 DEF SentDown
  <2> QED
    BY <2>1, <2>2
<1>7. ASSUME NEW n \in Nodes, ClientNext(n)
      PROVE  Goal
  <2>1. CASE Disconnect(n)
    <3>1. cur[n] \in Sockets /\ down' = [down EXCEPT ![cur[n]] = <<>>]
      BY <2>1 DEF Disconnect, Types, TypeOK
    <3> QED
      BY <1>5, <3>1
  <2>2. CASE ~Disconnect(n)
    BY <1>4, <1>7, <2>2
    DEF ClientNext, Connect, Reconnect, ResumeReplay, WriteRecord, AckTimeout, wireVars
  <2> QED
    BY <2>1, <2>2
<1>8. ASSUME NEW c \in Sockets, ClientReceive(c)
      PROVE  Goal
  <2>1. down[c] # <<>> /\ down' = [down EXCEPT ![c] = Tail(@)]
    BY <1>8 DEF ClientReceive
  <2>2. CASE d = c
    BY <1>1, <1>3, <2>1, <2>2, AcksInParts
  <2>3. CASE d # c
    BY <1>1, <1>3, <2>1, <2>3
  <2> QED
    BY <2>2, <2>3
<1>9. ASSUME NEW c \in Sockets, ServerReceive(c)
      PROVE  Goal
  <2>1. /\ <<>> \in Seq(Replies) /\ <<Ready>> \in Seq(Replies)
        /\ queue[c] \in Seq(Records)
    BY DEF Replies, Types, TypeOK
  <2>2. /\ AcksIn(<<>>, db'[Peer[c[1]]]) /\ AcksIn(<<Ready>>, db'[Peer[c[1]]])
    BY DEF AcksIn, Contents, Ready
  <2>3. ASSUME NEW q \in Seq(Records), NEW reply \in Seq(Replies),
               AcksIn(reply, db'[Peer[c[1]]]), Process(c, q, reply)
        PROVE  Goal
    <3>1. \E ms \in Seq(Replies) : /\ down' = SentDown(down, c, ms)
                                   /\ AcksIn(ms, db'[Peer[c[1]]])
      BY <2>3, ProcessAcks
    <3> QED
      BY <1>6, <3>1
  <2>4. CASE ServerHello(c)
    <3>1. Process(c, queue[c], <<Ready>>)
      BY <2>4 DEF ServerHello
    <3> QED
      BY <2>1, <2>2, <2>3, <3>1
  <2>5. CASE ServerRecord(c)
    <3>1. Head(up[c]).record \in Records
      BY <1>9, <2>5, HeadTypes DEF ServerReceive, ServerRecord, Types
    <3>2. <<Head(up[c]).record>> \in Seq(Records)
      BY <3>1
    <3>3. CASE Process(c, <<Head(up[c]).record>>, <<>>)
      BY <2>1, <2>2, <2>3, <3>2, <3>3
    <3> QED
      BY <1>4, <2>5, <3>3 DEF ServerRecord
  <2>6. CASE ServerSyncRequest(c)
    <3>1. CASE UNCHANGED down
      BY <1>4, <3>1
    <3>2. CASE ~UNCHANGED down
      <4> DEFINE stored == {r \in db[Peer[c[1]]] : r.seq > Head(up[c]).since}
      <4>1. PICK rows \in Ordered(stored) :
              down' = SentDown(down, c, RecordMsgs(SubSeq(rows, 1, Min2(Len(rows), SyncLimit))))
        BY <2>6, <3>2 DEF ServerSyncRequest
      <4>2. stored \subseteq Records /\ IsFiniteSet(stored)
        BY SocketType, FS_Subset DEF Types, TypeOK
      <4> HIDE DEF stored
      <4>3. rows \in Seq(Records)
        BY <4>2, OrderedType
      <4>4. Min2(Len(rows), SyncLimit) \in Nat /\ Min2(Len(rows), SyncLimit) <= Len(rows)
        BY <4>3, SeqTypes, BoundsAssumption DEF Min2
      <4> DEFINE part == SubSeq(rows, 1, Min2(Len(rows), SyncLimit))
      <4>5. part \in Seq(Records) /\ down' = SentDown(down, c, RecordMsgs(part))
        BY <4>1, <4>3, <4>4, SeqTypes
      <4> HIDE DEF part
      <4>6. RecordMsgs(part) \in Seq(Replies)
        BY <4>5, RecordMsgsType, SeqMonotonic DEF Replies
      <4>7. \A i \in DOMAIN RecordMsgs(part) : RecordMsgs(part)[i].type = "record"
        BY DEF RecordMsgs, RecordMsg
      <4>8. AcksIn(RecordMsgs(part), db'[Peer[c[1]]])
        BY <4>7 DEF AcksIn, Contents
      <4> QED
        BY <1>6, <4>5, <4>6, <4>8
    <3> QED
      BY <3>1, <3>2
  <2> QED
    BY <1>9, <2>4, <2>5, <2>6 DEF ServerReceive
<1>10. ASSUME NEW c \in Sockets, SocketNext(c)
       PROVE  Goal
  <2>1. CASE SocketClosed(c)
    BY <1>5, <2>1 DEF SocketClosed
  <2>2. CASE Connected(c) \/ NetFault(c) \/ ServerClosed(c)
    BY <1>4, <2>2 DEF Connected, NetFault, ServerClosed
  <2> QED
    BY <1>8, <1>9, <1>10, <2>1, <2>2 DEF SocketNext
<1>11. CASE Restart
  <2>1. down'[d] = <<>>
    BY <1>11 DEF Restart, All
  <2> QED
    BY <1>2, <2>1
<1> QED
  BY <1>7, <1>10, <1>11 DEF Next

\* What has been acknowledged to the writer stays stored.
LEMMA AckedStays ==
  ASSUME Types, AckedKeyIsStored, insertFaults = 0, Next,
         NEW n \in Nodes, NEW r \in acked'[n]
  PROVE  HasKey(db'[Peer[n]], Key(r))
<1>1. Peer[n] \in Nodes
  BY NodesAssumption
<1>2. CASE r \in acked[n]
  <2>1. HasKey(db[Peer[n]], Key(r))
    BY <1>2 DEF AckedKeyIsStored
  <2> QED
    BY <1>1, <2>1, KeysStay
<1>3. ASSUME NEW c \in Sockets, ClientReceive(c), ClientAck(c), r \notin acked[n]
      PROVE  HasKey(db'[Peer[n]], Key(r))
  <2> DEFINE k == Head(down[c]).key
             resolved == {x \in pend[c[1]] : Key(x) = k /\ k \in stamps[c[1]]}
  <2>1. acked' = [acked EXCEPT ![c[1]] = @ \cup resolved]
    BY <1>3 DEF ClientAck
  <2>2. n = c[1] /\ Key(r) = k
    BY <1>3, <2>1 DEF Types, TypeOK
  <2>3. Head(down[c]) \in Contents(down[c]) /\ Head(down[c]).type = "ack"
    <3>1. down[c] # <<>> /\ down[c] \in Seq(Replies) /\ Head(down[c]).type = "ack"
      BY <1>3 DEF ClientReceive, ClientAck, Types, TypeOK
    <3> QED
      BY <3>1, HeadTailProperties, LenProperties, EmptySeq DEF Contents
  <2>4. HasKey(db[Peer[n]], k)
    BY <2>2, <2>3 DEF AckedKeyIsStored
  <2> QED
    BY <1>1, <2>2, <2>4, KeysStay
<1>4. CASE UNCHANGED acked
  BY <1>2, <1>4
<1>5. \/ UNCHANGED acked
      \/ \E c \in Sockets : ClientReceive(c) /\ ClientAck(c)
  <2>1. ASSUME NEW m \in Nodes, ClientNext(m)
        PROVE  UNCHANGED acked
    BY <2>1 DEF ClientNext, Connect, Reconnect, Disconnect, ResumeReplay, WriteRecord,
                AckTimeout, ackVars
  <2>2. ASSUME NEW c \in Sockets, SocketNext(c)
        PROVE  UNCHANGED acked \/ (ClientReceive(c) /\ ClientAck(c))
    <3>1. CASE Connected(c) \/ NetFault(c) \/ SocketClosed(c)
      BY <3>1 DEF Connected, NetFault, SocketClosed, ackVars
    <3>2. CASE ServerClosed(c) \/ ServerReceive(c)
      BY <3>2 DEF ServerClosed, ServerReceive, ackVars
    <3>3. CASE ClientReceive(c)
      BY <3>3 DEF ClientReceive, ClientReady, ClientRecord, ackVars
    <3> QED
      BY <2>2, <3>1, <3>2, <3>3 DEF SocketNext
  <2>3. Restart => UNCHANGED acked
    BY DEF Restart
  <2> QED
    BY <2>1, <2>2, <2>3 DEF Next
<1> QED
  BY <1>2, <1>3, <1>4, <1>5

\* AckedKeyIsStored is inductive relative to the types.
LEMMA AckedKeyStep == Types /\ AckedKeyIsStored /\ [Next]_vars => AckedKeyIsStored'
<1> SUFFICES ASSUME Types, AckedKeyIsStored, [Next]_vars, insertFaults' = 0
             PROVE  /\ \A n \in Nodes : \A r \in acked'[n] : HasKey(db'[Peer[n]], Key(r))
                    /\ \A c \in Sockets : \A m \in Contents(down'[c]) :
                         m.type = "ack" => HasKey(db'[Peer[c[1]]], m.key)
  BY DEF AckedKeyIsStored
<1>1. CASE Next
  <2>1. insertFaults = 0
    BY <1>1, FaultsGrow DEF Types, TypeOK
  <2> QED
    BY <1>1, <2>1, AckedStays, AcksInFlight DEF AcksIn
<1>2. CASE UNCHANGED vars
  BY <1>2 DEF AckedKeyIsStored, vars, dbVars, ackVars, wireVars
<1> QED
  BY <1>1, <1>2

\* No acknowledgement is ever false while no INSERT throws: whatever is lost,
\* replayed, reordered between sockets or cut by a restart, the peer holds a
\* row for each idempotency key that was acknowledged.
THEOREM AckedKeyStored == Spec => []AckedKeyIsStored
<1>1. Init => AckedKeyIsStored
  BY DEF Init, All, AckedKeyIsStored, Contents
<1> QED
  BY <1>1, AckedKeyStep, TypesCorrect, PTL DEF Spec

----------------------------------------------------------------------------
(* The invariant.  Its parts take the tables as a parameter D: in a step,  *)
(* what was there before is first restated for the tables after it.        *)

\* The owner of r has a row for r's idempotency key.
Kept(D, r) == HasKey(D[r.owner], Key(r))

\* The records R were written at n, and n keeps them.
From(D, n, R) == \A r \in R : r.owner = n /\ Kept(D, r)

\* The records among the lines ms were written at n, and n keeps them.
LinesFrom(D, n, ms) ==
  \A m \in Contents(ms) : m.type = "record" => m.record.owner = n /\ Kept(D, m.record)

\* The records among the lines ms, whoever wrote them, are kept.
LinesKept(D, ms) == \A m \in Contents(ms) : m.type = "record" => Kept(D, m.record)

TablesKept(D)    == \A n \in Nodes : \A r \in D[n] : Kept(D, r)
PendingOwn(D)    == \A n \in Nodes : From(D, n, pend[n])
ReplaysOwn(D)    == \A n \in Nodes : \A w \in suspended[n] : From(D, n, Contents(w.rest))
RequestsOwn(D)   == \A c \in Sockets : LinesFrom(D, c[1], up[c])
QueuesOwn(D)     == \A c \in Sockets : From(D, c[1], Contents(queue[c]))
RepliesKept(D)   == \A c \in Sockets : LinesKept(D, down[c])
\* What the `socket' variable of a client names is a socket of that client.
CurrentOwn       == \A n \in Nodes : cur[n] # NoSocket => cur[n][1] = n

Provenance ==
  /\ TablesKept(db) /\ PendingOwn(db) /\ ReplaysOwn(db) /\ RequestsOwn(db)
  /\ QueuesOwn(db) /\ RepliesKept(db) /\ CurrentOwn


----------------------------------------------------------------------------
(* Sequences of records and of lines.                                      *)

\* What is said of all elements holds of a concatenation, a tail, a part.
LEMMA ContentsParts ==
  ASSUME NEW S, NEW s \in Seq(S)
  PROVE  /\ \A t \in Seq(S) : Contents(s \o t) \subseteq Contents(s) \cup Contents(t)
         /\ s # <<>> => Head(s) \in Contents(s) /\ Contents(Tail(s)) \subseteq Contents(s)
         /\ \A m \in Nat, n \in Nat :
              m >= 1 /\ n <= Len(s) => Contents(SubSeq(s, m, n)) \subseteq Contents(s)
         /\ \A x \in S : Contents(Append(s, x)) \subseteq Contents(s) \cup {x}
<1>1. DOMAIN s = 1..Len(s) /\ Len(s) \in Nat
  BY SeqTypes
<1>2. \A t \in Seq(S) : Contents(s \o t) \subseteq Contents(s) \cup Contents(t)
  BY ConcatProperties, LenProperties DEF Contents
<1>3. s # <<>> => Head(s) \in Contents(s) /\ Contents(Tail(s)) \subseteq Contents(s)
  BY HeadTailProperties, LenProperties, EmptySeq DEF Contents
<1>4. ASSUME NEW m \in Nat, NEW n \in Nat, m >= 1, n <= Len(s)
      PROVE  Contents(SubSeq(s, m, n)) \subseteq Contents(s)
  <2>1. \A i \in m..n : s[i] \in S
    BY <1>1, <1>4, SeqTypes
  <2>2. /\ DOMAIN SubSeq(s, m, n) = 1..Len(SubSeq(s, m, n))
        /\ Len(SubSeq(s, m, n)) = (IF m <= n THEN n - m + 1 ELSE 0)
        /\ \A i \in 1..(n - m + 1) : SubSeq(s, m, n)[i] = s[m + i - 1]
    BY <2>1, SubSeqProperties, LenProperties
  <2> QED
    BY <1>1, <1>4, <2>2 DEF Contents
<1>5. \A x \in S : Contents(Append(s, x)) \subseteq Contents(s) \cup {x}
  BY AppendProperties, LenProperties DEF Contents
<1> QED
  BY <1>2, <1>3, <1>4, <1>5

\* The lines that carry the records q.
LEMMA RecordMsgsContents ==
  ASSUME NEW q \in Seq(Records), NEW m \in Contents(RecordMsgs(q))
  PROVE  m.type = "record" /\ m.record \in Contents(q)
<1>1. PICK i \in DOMAIN q : m = RecordMsg(q[i])
  BY RecordMsgsType DEF Contents
<1> QED
  BY <1>1 DEF Contents, RecordMsg

\* An ordered query result has the rows of the table, no others.
LEMMA OrderedContents ==
  ASSUME NEW rows, IsFiniteSet(rows), NEW q \in Ordered(rows)
  PROVE  Contents(q) \subseteq rows
BY OrderedType DEF Contents

\* Only records that are in the list come into a table.
LEMMA InsertedContents ==
  ASSUME NEW rows, NEW q, NEW F
  PROVE  InsertAll(rows, q, F) \subseteq rows \cup Contents(q)
BY DEF InsertAll, Contents

----------------------------------------------------------------------------
(* What holds of the old state holds for the tables after a step too.      *)

LEMMA KeptStays ==
  ASSUME Types, Next, NEW r \in Records, Kept(db, r)
  PROVE  Kept(db', r)
<1>1. r.owner \in Nodes
  BY NodesAssumption DEF Records
<1> QED
  BY <1>1, KeysStay DEF Kept

LEMMA FromStays ==
  ASSUME Types, Next, NEW n, NEW R \in SUBSET Records, From(db, n, R)
  PROVE  From(db', n, R)
BY KeptStays DEF From

LEMMA LinesStay ==
  ASSUME Types, Next
  PROVE  /\ \A n : \A ms \in Seq(Requests) : LinesFrom(db, n, ms) => LinesFrom(db', n, ms)
         /\ \A ms \in Seq(Replies) : LinesKept(db, ms) => LinesKept(db', ms)
<1>1. ASSUME NEW ms \in Seq(Requests), NEW m \in Contents(ms), m.type = "record"
      PROVE  m.record \in Records
  <2>1. m \in Requests
    BY SeqTypes DEF Contents
  <2> QED
    BY <1>1, <2>1 DEF Requests, RecordMsgSet, Hello, SyncRequest
<1>2. ASSUME NEW ms \in Seq(Replies), NEW m \in Contents(ms), m.type = "record"
      PROVE  m.record \in Records
  <2>1. m \in Replies
    BY SeqTypes DEF Contents
  <2> QED
    BY <1>2, <2>1 DEF Replies, RecordMsgSet, Ready
<1>3. \A n : \A ms \in Seq(Requests) : LinesFrom(db, n, ms) => LinesFrom(db', n, ms)
  BY <1>1, KeptStays DEF LinesFrom
<1>4. \A ms \in Seq(Replies) : LinesKept(db, ms) => LinesKept(db', ms)
  BY <1>2, KeptStays DEF LinesKept
<1> QED
  BY <1>3, <1>4

LEMMA Restated ==
  ASSUME Types, Provenance, Next
  PROVE  /\ \A n \in Nodes : \A r \in db[n] : Kept(db', r)
         /\ PendingOwn(db') /\ ReplaysOwn(db') /\ RequestsOwn(db')
         /\ QueuesOwn(db') /\ RepliesKept(db')
<1> USE DEF Types, TypeOK, Provenance
<1>1. \A n \in Nodes : \A r \in db[n] : Kept(db', r)
  BY KeptStays DEF TablesKept
<1>2. PendingOwn(db')
  BY FromStays DEF PendingOwn
<1>3. ReplaysOwn(db')
  <2>1. ASSUME NEW n \in Nodes, NEW w \in suspended[n]
        PROVE  From(db', n, Contents(w.rest))
    <3>1. w.rest \in Seq(Records)
      OBVIOUS
    <3>2. Contents(w.rest) \in SUBSET Records
      BY <3>1, SeqTypes DEF Contents
    <3> QED
      BY <3>2, FromStays DEF ReplaysOwn
  <2> QED
    BY <2>1 DEF ReplaysOwn
<1>4. RequestsOwn(db')
  BY LinesStay DEF RequestsOwn
<1>5. QueuesOwn(db')
  <2>1. \A c \in Sockets : Contents(queue[c]) \in SUBSET Records
    BY SeqTypes DEF Contents
  <2> QED
    BY <2>1, FromStays DEF QueuesOwn
<1>6. RepliesKept(db')
  BY LinesStay DEF RepliesKept
<1> QED
  BY <1>1, <1>2, <1>3, <1>4, <1>5, <1>6

----------------------------------------------------------------------------
(* What the operators the actions are built from put where.                *)

\* socket.write, on a socket of client n.
LEMMA SentUpOwn ==
  ASSUME Types, RequestsOwn(db'), NEW n \in Nodes, NEW c \in Sockets \cup {NoSocket},
         c # NoSocket => c[1] = n, NEW ms \in Seq(Requests), LinesFrom(db', n, ms),
         up' = SentUp(up, c, ms)
  PROVE  RequestsOwn(db)'
<1>1. CASE up' = up
  BY <1>1 DEF RequestsOwn, LinesFrom
<1>2. CASE c \in Sockets /\ c # NoSocket /\ up' = [up EXCEPT ![c] = @ \o ms]
  <2>1. up \in [Sockets -> Seq(Requests)]
    BY DEF Types, TypeOK
  <2>2. Contents(up[c] \o ms) \subseteq Contents(up[c]) \cup Contents(ms)
    BY <1>2, <2>1, ContentsParts
  <2> QED
    BY <1>2, <2>1, <2>2 DEF RequestsOwn, LinesFrom
<1> QED
  BY <1>1, <1>2 DEF SentUp, Deliverable

\* The lines waiting for one socket are fewer than they were.
LEMMA LessUpOwn ==
  ASSUME Types, RequestsOwn(db'), NEW c \in Sockets, NEW ms,
         Contents(ms) \subseteq Contents(up[c]), up' = [up EXCEPT ![c] = ms]
  PROVE  RequestsOwn(db)'
BY DEF RequestsOwn, LinesFrom, Types, TypeOK

\* What the server writes to a socket.
LEMMA SentDownKept ==
  ASSUME Types, RepliesKept(db'), NEW c \in Sockets, NEW ms \in Seq(Replies),
         LinesKept(db', ms), down' = SentDown(down, c, ms)
  PROVE  RepliesKept(db)'
<1>1. CASE down' = down
  BY <1>1 DEF RepliesKept, LinesKept
<1>2. CASE down' = [down EXCEPT ![c] = @ \o ms]
  <2>1. down \in [Sockets -> Seq(Replies)]
    BY DEF Types, TypeOK
  <2>2. Contents(down[c] \o ms) \subseteq Contents(down[c]) \cup Contents(ms)
    BY <2>1, ContentsParts
  <2> QED
    BY <1>2, <2>1, <2>2 DEF RepliesKept, LinesKept
<1> QED
  BY <1>1, <1>2 DEF SentDown

\* The lines waiting for a client are fewer than they were.
LEMMA LessDownKept ==
  ASSUME Types, RepliesKept(db'), NEW c \in Sockets, NEW ms,
         Contents(ms) \subseteq Contents(down[c]), down' = [down EXCEPT ![c] = ms]
  PROVE  RepliesKept(db)'
BY DEF RepliesKept, LinesKept, Types, TypeOK

\* Records of n that n keeps come into no table without being kept.
LEMMA StoredKept ==
  ASSUME \A n \in Nodes : \A r \in db[n] : Kept(db', r),
         NEW R, \A r \in R : Kept(db', r), \A n \in Nodes : db'[n] \subseteq db[n] \cup R
  PROVE  TablesKept(db)'
BY DEF TablesKept

\* Lines made of records of n.
LEMMA LinesOfRecords ==
  ASSUME NEW D, NEW n, NEW q \in Seq(Records)
  PROVE  /\ From(D, n, Contents(q)) => LinesFrom(D, n, RecordMsgs(q))
         /\ (\A r \in Contents(q) : Kept(D, r)) => LinesKept(D, RecordMsgs(q))
<1>1. \A m \in Contents(RecordMsgs(q)) : m.record \in Contents(q)
  BY RecordMsgsContents
<1> QED
  BY <1>1 DEF From, LinesFrom, LinesKept

\* A part of the state that a step leaves alone.
LEMMA Unmoved ==
  ASSUME Types, Provenance, Next
  PROVE  /\ UNCHANGED db => TablesKept(db)'
         /\ UNCHANGED pend => PendingOwn(db)'
         /\ UNCHANGED suspended => ReplaysOwn(db)'
         /\ UNCHANGED up => RequestsOwn(db)'
         /\ UNCHANGED queue => QueuesOwn(db)'
         /\ UNCHANGED down => RepliesKept(db)'
         /\ UNCHANGED cur => CurrentOwn'
<1>1. UNCHANGED db => TablesKept(db)'
  BY Restated DEF TablesKept
<1>2. UNCHANGED pend => PendingOwn(db)'
  BY Restated DEF PendingOwn
<1>3. UNCHANGED suspended => ReplaysOwn(db)'
  BY Restated DEF ReplaysOwn
<1>4. UNCHANGED up => RequestsOwn(db)'
  BY Restated DEF RequestsOwn
<1>5. UNCHANGED queue => QueuesOwn(db)'
  BY Restated DEF QueuesOwn
<1>6. UNCHANGED down => RepliesKept(db)'
  BY Restated DEF RepliesKept
<1>7. UNCHANGED cur => CurrentOwn'
  BY DEF Provenance, CurrentOwn
<1> QED
  BY <1>1, <1>2, <1>3, <1>4, <1>5, <1>6, <1>7

\* processRecord, for one record or for a whole queue.
LEMMA ProcessKept ==
  ASSUME Types, Provenance, Next, NEW c \in Sockets, NEW q \in Seq(Records),
         From(db', c[1], Contents(q)), NEW reply \in Seq(Replies),
         LinesKept(db', reply), Process(c, q, reply)
  PROVE  TablesKept(db)' /\ RepliesKept(db)'
<1> DEFINE acks == [i \in DOMAIN q |-> AckMsg(Key(q[i]))]
<1>1. PICK F \in SUBSET DOMAIN q :
        /\ db' = [db EXCEPT ![Peer[c[1]]] = InsertAll(@, q, F)]
        /\ down' = SentDown(down, c, reply \o acks)
  BY DEF Process
<1>2. TablesKept(db)'
  <2>1. InsertAll(db[Peer[c[1]]], q, F) \subseteq db[Peer[c[1]]] \cup Contents(q)
    BY InsertedContents
  <2>2. \A n \in Nodes : db'[n] \subseteq db[n] \cup Contents(q)
    BY <1>1, <2>1 DEF Types, TypeOK
  <2>3. \A r \in Contents(q) : Kept(db', r)
    BY DEF From
  <2> QED
    BY <2>2, <2>3, Restated, StoredKept
<1>3. acks \in Seq(Replies)
  <2>1. DOMAIN q = 1..Len(q) /\ Len(q) \in Nat /\ \A i \in DOMAIN q : q[i] \in Records
    BY SeqTypes
  <2>2. \A i \in DOMAIN q : AckMsg(Key(q[i])) \in Replies
    BY <2>1 DEF AckMsg, Key, Keys, Records, Replies
  <2>3. acks \in [1..Len(q) -> Replies]
    BY <2>1, <2>2
  <2> QED
    BY <2>1, <2>3, MapIsSeq
<1>4. \A m \in Contents(acks) : m.type = "ack"
  BY DEF Contents, AckMsg
<1> HIDE DEF acks
<1>5. reply \o acks \in Seq(Replies) /\ LinesKept(db', reply \o acks)
  <2>1. Contents(reply \o acks) \subseteq Contents(reply) \cup Contents(acks)
    BY <1>3, ContentsParts
  <2> QED
    BY <1>3, <1>4, <2>1, SeqTypes DEF LinesKept
<1>6. RepliesKept(db)'
  BY <1>1, <1>5, Restated, SentDownKept
<1> QED
  BY <1>2, <1>6

\* The replay loop writes, and keeps for later, what it was given.
LEMMA RunReplayOwn ==
  ASSUME Types, Provenance, Next, NEW n \in Nodes, NEW s, NEW path,
         NEW rows \in Seq(Records), From(db', n, Contents(rows)),
         RunReplay(n, s, rows, path)
  PROVE  RequestsOwn(db)' /\ ReplaysOwn(db)'
<1> DEFINE others == {w \in suspended[n] : w.slot # s}
<1>1. cur[n] \in Sockets \cup {NoSocket} /\ (cur[n] # NoSocket => cur[n][1] = n)
  BY DEF Types, TypeOK, Provenance, CurrentOwn
<1>2. \A q \in Seq(Records) : RecordMsgs(q) \in Seq(Requests)
  BY RecordMsgsType, SeqMonotonic DEF Requests
<1>3. suspended \in [Nodes -> SUBSET [slot : 1..MaxReplays, rest : Seq(Records)]]
  BY DEF Types, TypeOK
<1>4. CASE /\ up' = SentUp(up, cur[n], RecordMsgs(rows) \o <<SyncRequest>>)
           /\ suspended' = [suspended EXCEPT ![n] = others]
  <2>1. <<SyncRequest>> \in Seq(Requests) /\ LinesFrom(db', n, <<SyncRequest>>)
    BY DEF Requests, SyncRequest, LinesFrom, Contents
  <2>2. /\ RecordMsgs(rows) \o <<SyncRequest>> \in Seq(Requests)
        /\ LinesFrom(db', n, RecordMsgs(rows) \o <<SyncRequest>>)
    <3>1. /\ RecordMsgs(rows) \in Seq(Requests)
          /\ LinesFrom(db', n, RecordMsgs(rows))
      BY <1>2, LinesOfRecords
    <3>2. Contents(RecordMsgs(rows) \o <<SyncRequest>>)
            \subseteq Contents(RecordMsgs(rows)) \cup Contents(<<SyncRequest>>)
      BY <2>1, <3>1, ContentsParts
    <3> QED
      BY <2>1, <3>1, <3>2, SeqTypes DEF LinesFrom
  <2>3. RequestsOwn(db)'
    BY <1>1, <1>4, <2>2, Restated, SentUpOwn
  <2>4. ReplaysOwn(db)'
    BY <1>3, <1>4, Restated DEF ReplaysOwn
  <2> QED
    BY <2>3, <2>4
<1>5. ASSUME NEW m \in 1..Len(rows),
             up' = SentUp(up, cur[n], RecordMsgs(SubSeq(rows, 1, m))),
             suspended' = [suspended EXCEPT ![n] =
               others \cup {[slot |-> s, rest |-> SubSeq(rows, m + 1, Len(rows))]}]
      PROVE  RequestsOwn(db)' /\ ReplaysOwn(db)'
  <2>1. Len(rows) \in Nat
    BY SeqTypes
  <2>2. /\ SubSeq(rows, 1, m) \in Seq(Records)
        /\ Contents(SubSeq(rows, 1, m)) \subseteq Contents(rows)
        /\ Contents(SubSeq(rows, m + 1, Len(rows))) \subseteq Contents(rows)
    BY <2>1, SeqTypes, ContentsParts
  <2>3. LinesFrom(db', n, RecordMsgs(SubSeq(rows, 1, m)))
    <3>1. From(db', n, Contents(SubSeq(rows, 1, m)))
      BY <2>2 DEF From
    <3> QED
      BY <2>2, <3>1, LinesOfRecords
  <2>4. RequestsOwn(db)'
    BY <1>1, <1>2, <1>5, <2>2, <2>3, Restated, SentUpOwn
  <2>5. ReplaysOwn(db)'
    <3> DEFINE w == [slot |-> s, rest |-> SubSeq(rows, m + 1, Len(rows))]
    <3>1. From(db', n, Contents(w.rest))
      BY <2>2 DEF From
    <3>2. suspended' = [suspended EXCEPT ![n] = others \cup {w}]
      BY <1>5
    <3>3. others \subseteq suspended[n]
      OBVIOUS
    <3> HIDE DEF w, others
    <3> QED
      BY <1>3, <3>1, <3>2, <3>3, Restated DEF ReplaysOwn
  <2> QED
    BY <2>4, <2>5
<1> QED
  BY <1>4, <1>5 DEF RunReplay

----------------------------------------------------------------------------
(* Every step keeps the invariant.                                         *)

\* connectInternal.
LEMMA OpenSocketOwn ==
  ASSUME Types, Provenance, NEW n \in Nodes, OpenSocket(n)
  PROVE  CurrentOwn'
BY DEF OpenSocket, Provenance, CurrentOwn, Types, TypeOK

\* write(): the record is stored before it is sent.
LEMMA WriteRecordOwn ==
  ASSUME Types, Provenance, Next, NEW n \in Nodes, WriteRecord(n)
  PROVE  TablesKept(db)' /\ PendingOwn(db)' /\ RequestsOwn(db)'
<1> DEFINE r == [owner |-> n, epoch |-> epoch, seq |-> seq[n] + 1]
<1>1. r \in Records /\ r.owner = n
  BY BoundsAssumption DEF WriteRecord, Records, Types, TypeOK
<1>2. \/ /\ db' = [db EXCEPT ![n] = Insert(@, r)]
         /\ \/ /\ cur[n] # NoSocket
               /\ pend' = [pend EXCEPT ![n] = @ \cup {r}]
               /\ up' = SentUp(up, cur[n], <<RecordMsg(r)>>)
            \/ UNCHANGED <<pend, up>>
      \/ UNCHANGED <<db, pend, up>>
  BY DEF WriteRecord
<1> HIDE DEF r
<1>3. CASE UNCHANGED <<db, pend, up>>
  BY <1>3, Unmoved
<1>4. CASE db' = [db EXCEPT ![n] = Insert(@, r)]
  <2>1. Kept(db', r)
    BY <1>1, <1>4 DEF Kept, Insert, HasKey, Types, TypeOK
  <2>2. TablesKept(db)'
    <3>1. \A m \in Nodes : db'[m] \subseteq db[m] \cup {r}
      BY <1>4 DEF Insert, Types, TypeOK
    <3> QED
      BY <2>1, <3>1, Restated, StoredKept
  <2>3. CASE UNCHANGED <<pend, up>>
    BY <2>2, <2>3, Unmoved
  <2>4. CASE /\ cur[n] # NoSocket
             /\ pend' = [pend EXCEPT ![n] = @ \cup {r}]
             /\ up' = SentUp(up, cur[n], <<RecordMsg(r)>>)
    <3>1. PendingOwn(db)'
      BY <1>1, <2>1, <2>4, Restated DEF PendingOwn, From, Types, TypeOK
    <3>2. <<RecordMsg(r)>> \in Seq(Requests) /\ LinesFrom(db', n, <<RecordMsg(r)>>)
      BY <1>1, <2>1 DEF Requests, RecordMsgSet, RecordMsg, LinesFrom, Contents
    <3>3. cur[n] \in Sockets /\ cur[n][1] = n
      BY <2>4 DEF Types, TypeOK, Provenance, CurrentOwn
    <3>4. RequestsOwn(db)'
      BY <2>4, <3>2, <3>3, Restated, SentUpOwn
    <3> QED
      BY <2>2, <3>1, <3>4
  <2> QED
    BY <1>2, <1>3, <2>3, <2>4
<1> QED
  BY <1>2, <1>3, <1>4

LEMMA ClientOwn ==
  ASSUME Types, Provenance, Next, NEW n \in Nodes, ClientNext(n)
  PROVE  Provenance'
<1>1. CASE Connect(n)
  <2>1. CurrentOwn'
    BY <1>1, OpenSocketOwn DEF Connect
  <2>2. UNCHANGED <<db, pend, suspended, up, queue, down>>
    BY <1>1 DEF Connect, dbVars, ackVars, serverVars
  <2> QED
    BY <2>1, <2>2, Unmoved DEF Provenance
<1>2. CASE Reconnect(n)
  <2>1. CurrentOwn'
    BY <1>2, OpenSocketOwn, Unmoved DEF Reconnect
  <2>2. UNCHANGED <<db, pend, suspended, up, queue, down>>
    BY <1>2 DEF Reconnect, dbVars, ackVars, serverVars
  <2> QED
    BY <2>1, <2>2, Unmoved DEF Provenance
<1>3. CASE Disconnect(n)
  <2>1. cur[n] \in Sockets
    BY <1>3 DEF Disconnect, Types, TypeOK
  <2>2. /\ up' = IF link[cur[n]] = "connecting" THEN [up EXCEPT ![cur[n]] = <<>>] ELSE up
        /\ down' = [down EXCEPT ![cur[n]] = <<>>]
        /\ UNCHANGED <<db, pend, suspended, queue, cur>>
    BY <1>3 DEF Disconnect, dbVars, ackVars, serverVars
  <2>3. Contents(<<>>) = {}
    BY DEF Contents
  <2>4. RequestsOwn(db)' /\ RepliesKept(db)'
    BY <2>1, <2>2, <2>3, Restated, Unmoved, LessUpOwn, LessDownKept
  <2> QED
    BY <2>2, <2>4, Unmoved DEF Provenance
<1>4. CASE ResumeReplay(n)
  <2>1. PICK w \in suspended[n] : RunReplay(n, w.slot, w.rest, <<>>)
    BY <1>4 DEF ResumeReplay
  <2>2. w.rest \in Seq(Records) /\ From(db', n, Contents(w.rest))
    BY Restated DEF ReplaysOwn, Types, TypeOK
  <2>3. RequestsOwn(db)' /\ ReplaysOwn(db)'
    BY <2>1, <2>2, RunReplayOwn
  <2>4. UNCHANGED <<db, pend, queue, down, cur>>
    BY <1>4 DEF ResumeReplay, dbVars, ackVars, serverVars
  <2> QED
    BY <2>3, <2>4, Unmoved DEF Provenance
<1>5. CASE WriteRecord(n)
  <2>1. TablesKept(db)' /\ PendingOwn(db)' /\ RequestsOwn(db)'
    BY <1>5, WriteRecordOwn
  <2>2. UNCHANGED <<suspended, queue, down, cur>>
    BY <1>5 DEF WriteRecord, clientVars, serverVars
  <2> QED
    BY <2>1, <2>2, Unmoved DEF Provenance
<1>6. CASE AckTimeout(n)
  <2>1. PICK r \in pend[n] : pend' = [pend EXCEPT ![n] = @ \ {r}]
    BY <1>6 DEF AckTimeout
  <2>2. PendingOwn(db)'
    BY <2>1, Restated DEF PendingOwn, From, Types, TypeOK
  <2>3. UNCHANGED <<db, suspended, up, queue, down, cur>>
    BY <1>6 DEF AckTimeout, dbVars, clientVars, wireVars, serverVars
  <2> QED
    BY <2>2, <2>3, Unmoved DEF Provenance
<1> QED
  BY <1>1, <1>2, <1>3, <1>4, <1>5, <1>6 DEF ClientNext

LEMMA ClientReceiveOwn ==
  ASSUME Types, Provenance, Next, NEW c \in Sockets, ClientReceive(c)
  PROVE  Provenance'
<1> DEFINE n == c[1]
<1>1. n \in Nodes
  BY SocketType
<1>2. down[c] # <<>> /\ down' = [down EXCEPT ![c] = Tail(@)] /\ UNCHANGED <<cur, queue>>
  BY DEF ClientReceive, serverVars
<1>3. down[c] \in Seq(Replies)
  BY DEF Types, TypeOK
<1>4. Head(down[c]) \in Contents(down[c]) /\ Contents(Tail(down[c])) \subseteq Contents(down[c])
  BY <1>2, <1>3, ContentsParts
<1>5. RepliesKept(db)'
  BY <1>2, <1>4, Restated, LessDownKept
<1>6. CASE ClientReady(c)
  <2>1. CASE UNCHANGED <<suspended, up>>
    BY <1>2, <1>5, <1>6, <2>1, Unmoved DEF ClientReady, Provenance, dbVars, ackVars
  <2>2. CASE ~UNCHANGED <<suspended, up>>
    <3> DEFINE own == {r \in db[n] : r.owner = n}
    <3>1. PICK s \in 1..MaxReplays, rows \in Ordered(own) :
            RunReplay(n, s, rows, <<"READY_RECEIVED", "REPLAY_IN_PROGRESS">>)
      BY <1>6, <2>2 DEF ClientReady
    <3>2. own \in SUBSET Records /\ IsFiniteSet(own) /\ From(db', n, own)
      BY <1>1, FS_Subset, Restated DEF Types, TypeOK, From
    <3> HIDE DEF own, n
    <3>3. rows \in Seq(Records) /\ Contents(rows) \subseteq own
      BY <3>2, OrderedType, OrderedContents
    <3>4. From(db', n, Contents(rows))
      BY <3>2, <3>3 DEF From
    <3>5. RequestsOwn(db)' /\ ReplaysOwn(db)'
      BY <1>1, <3>1, <3>3, <3>4, RunReplayOwn
    <3>6. UNCHANGED <<db, pend>>
      BY <1>6 DEF ClientReady, dbVars, ackVars
    <3> QED
      BY <1>2, <1>5, <3>5, <3>6, Unmoved DEF Provenance
  <2> QED
    BY <2>1, <2>2
<1>7. CASE ClientAck(c)
  <2>1. \A m \in Nodes : pend'[m] \subseteq pend[m]
    BY <1>7 DEF ClientAck, Types, TypeOK
  <2>2. PendingOwn(db)'
    BY <2>1, Restated DEF PendingOwn, From
  <2>3. UNCHANGED <<db, suspended, up>>
    BY <1>7 DEF ClientAck, dbVars
  <2> QED
    BY <1>2, <1>5, <2>2, <2>3, Unmoved DEF Provenance
<1>8. CASE ClientRecord(c)
  <2> DEFINE r == Head(down[c]).record
  <2>1. Kept(db', r)
    BY <1>4, <1>8, Restated DEF ClientRecord, RepliesKept, LinesKept
  <2>2. \A m \in Nodes : db'[m] \subseteq db[m] \cup {r}
    <3>1. db' = [db EXCEPT ![n] = Insert(@, r)] \/ UNCHANGED db
      BY <1>8 DEF ClientRecord
    <3> HIDE DEF r, n
    <3> QED
      BY <3>1 DEF Insert, Types, TypeOK
  <2>3. TablesKept(db)'
    BY <2>1, <2>2, Restated, StoredKept
  <2>4. UNCHANGED <<pend, suspended, up>>
    BY <1>8 DEF ClientRecord, ackVars
  <2> QED
    BY <1>2, <1>5, <2>3, <2>4, Unmoved DEF Provenance
<1> QED
  BY <1>6, <1>7, <1>8 DEF ClientReceive

LEMMA ServerReceiveOwn ==
  ASSUME Types, Provenance, Next, NEW c \in Sockets, ServerReceive(c)
  PROVE  Provenance'
<1>1. /\ up[c] # <<>> /\ up' = [up EXCEPT ![c] = Tail(@)]
      /\ UNCHANGED <<cur, pend, suspended>>
  BY DEF ServerReceive, clientVars, ackVars
<1>2. up[c] \in Seq(Requests) /\ queue[c] \in Seq(Records)
  BY DEF Types, TypeOK
<1>3. Head(up[c]) \in Contents(up[c]) /\ Contents(Tail(up[c])) \subseteq Contents(up[c])
  BY <1>1, <1>2, ContentsParts
<1>4. RequestsOwn(db)'
  BY <1>1, <1>3, Restated, LessUpOwn
<1>5. Contents(<<>>) = {}
  BY DEF Contents
<1>6. /\ <<>> \in Seq(Replies) /\ LinesKept(db', <<>>)
      /\ <<Ready>> \in Seq(Replies) /\ LinesKept(db', <<Ready>>)
  BY DEF Replies, Ready, LinesKept, Contents
<1>7. CASE ServerHello(c)
  <2>1. From(db', c[1], Contents(queue[c]))
    BY Restated DEF QueuesOwn
  <2>2. Process(c, queue[c], <<Ready>>) /\ queue' = [queue EXCEPT ![c] = <<>>]
    BY <1>7 DEF ServerHello
  <2>3. TablesKept(db)' /\ RepliesKept(db)'
    BY <1>2, <1>6, <2>1, <2>2, ProcessKept
  <2>4. QueuesOwn(db)'
    BY <1>5, <2>2, Restated DEF QueuesOwn, From, Types, TypeOK
  <2> QED
    BY <1>1, <1>4, <2>3, <2>4, Unmoved DEF Provenance
<1>8. CASE ServerRecord(c)
  <2> DEFINE r == Head(up[c]).record
  <2>1. r \in Records
    BY <1>1, <1>8, HeadTypes DEF ServerRecord, Types
  <2>2. r.owner = c[1] /\ Kept(db', r)
    BY <1>3, <1>8, Restated DEF ServerRecord, RequestsOwn, LinesFrom
  <2>3. CASE Process(c, <<r>>, <<>>) /\ UNCHANGED queue
    <3> HIDE DEF r
    <3>1. <<r>> \in Seq(Records) /\ From(db', c[1], Contents(<<r>>))
      BY <2>1, <2>2 DEF From, Contents
    <3>2. TablesKept(db)' /\ RepliesKept(db)'
      BY <1>6, <2>3, <3>1, ProcessKept
    <3> QED
      BY <1>1, <1>4, <2>3, <3>2, Unmoved DEF Provenance
  <2>4. CASE queue' = [queue EXCEPT ![c] = Append(@, r)] /\ UNCHANGED <<dbVars, down>>
    <3> HIDE DEF r
    <3>1. Contents(Append(queue[c], r)) \subseteq Contents(queue[c]) \cup {r}
      BY <1>2, <2>1, ContentsParts
    <3>2. queue'[c] = Append(queue[c], r) /\ \A d \in Sockets : d # c => queue'[d] = queue[d]
      BY <2>4 DEF Types, TypeOK
    <3>3. From(db', c[1], Contents(queue'[c]))
      <4>1. From(db', c[1], Contents(queue[c]))
        BY Restated DEF QueuesOwn
      <4> QED
        BY <2>2, <3>1, <3>2, <4>1 DEF From
    <3>4. ASSUME NEW d \in Sockets, d # c
          PROVE  From(db', d[1], Contents(queue'[d]))
      BY <3>2, <3>4, Restated DEF QueuesOwn
    <3>5. QueuesOwn(db)'
      BY <3>3, <3>4 DEF QueuesOwn
    <3> QED
      BY <1>1, <1>4, <2>4, <3>5, Unmoved DEF Provenance, dbVars
  <2> QED
    BY <1>8, <2>3, <2>4 DEF ServerRecord
<1>9. CASE ServerSyncRequest(c)
  <2>1. UNCHANGED <<db, queue>>
    BY <1>9 DEF ServerSyncRequest, dbVars, serverVars
  <2>2. CASE UNCHANGED down
    BY <1>1, <1>4, <2>1, <2>2, Unmoved DEF Provenance
  <2>3. CASE ~UNCHANGED down
    <3> DEFINE stored == {r \in db[Peer[c[1]]] : r.seq > Head(up[c]).since}
    <3>1. PICK rows \in Ordered(stored) :
            down' = SentDown(down, c, RecordMsgs(SubSeq(rows, 1, Min2(Len(rows), SyncLimit))))
      BY <1>9, <2>3 DEF ServerSyncRequest
    <3>2. stored \subseteq Records /\ IsFiniteSet(stored) /\ \A r \in stored : Kept(db', r)
      BY SocketType, FS_Subset, Restated DEF Types, TypeOK
    <3> HIDE DEF stored
    <3>3. rows \in Seq(Records) /\ Contents(rows) \subseteq stored
      BY <3>2, OrderedType, OrderedContents
    <3>4. Min2(Len(rows), SyncLimit) \in Nat /\ Min2(Len(rows), SyncLimit) <= Len(rows)
      BY <3>3, SeqTypes, BoundsAssumption DEF Min2
    <3> DEFINE part == SubSeq(rows, 1, Min2(Len(rows), SyncLimit))
    <3>5. part \in Seq(Records) /\ Contents(part) \subseteq stored
      BY <3>3, <3>4, SeqTypes, ContentsParts
    <3>6. down' = SentDown(down, c, RecordMsgs(part))
      BY <3>1
    <3> HIDE DEF part
    <3>7. RecordMsgs(part) \in Seq(Replies)
      BY <3>5, RecordMsgsType, SeqMonotonic DEF Replies
    <3>8. LinesKept(db', RecordMsgs(part))
      BY <3>2, <3>5, LinesOfRecords
    <3>9. RepliesKept(db)'
      BY <3>6, <3>7, <3>8, Restated, SentDownKept
    <3> QED
      BY <1>1, <1>4, <2>1, <3>9, Unmoved DEF Provenance
  <2> QED
    BY <2>2, <2>3
<1> QED
  BY <1>7, <1>8, <1>9 DEF ServerReceive

LEMMA SocketOwn ==
  ASSUME Types, Provenance, Next, NEW c \in Sockets, SocketNext(c)
  PROVE  Provenance'
<1>1. Contents(<<>>) = {}
  BY DEF Contents
<1>2. CASE Connected(c)
  <2> DEFINE n == c[1]
  <2>1. n \in Nodes /\ cur[n] \in Sockets \cup {NoSocket} /\ (cur[n] # NoSocket => cur[n][1] = n)
    BY SocketType DEF Types, TypeOK, Provenance, CurrentOwn
  <2>2. up' = SentUp(up, cur[n], <<Hello>>)
    BY <1>2 DEF Connected
  <2> HIDE DEF n
  <2>3. <<Hello>> \in Seq(Requests) /\ LinesFrom(db', n, <<Hello>>)
    BY DEF Requests, Hello, LinesFrom, Contents
  <2>4. RequestsOwn(db)'
    BY <2>1, <2>2, <2>3, Restated, SentUpOwn
  <2>5. UNCHANGED <<db, pend, suspended, queue, down, cur>>
    BY <1>2 DEF Connected, dbVars, ackVars
  <2> QED
    BY <2>4, <2>5, Unmoved DEF Provenance
<1>3. CASE NetFault(c)
  <2>1. RequestsOwn(db)'
    BY <1>1, <1>3, Restated, Unmoved, LessUpOwn DEF NetFault
  <2>2. UNCHANGED <<db, pend, suspended, queue, down, cur>>
    BY <1>3 DEF NetFault, dbVars, clientVars, ackVars, serverVars
  <2> QED
    BY <2>1, <2>2, Unmoved DEF Provenance
<1>4. CASE SocketClosed(c)
  <2>1. RepliesKept(db)'
    BY <1>1, <1>4, Restated, LessDownKept DEF SocketClosed
  <2>2. UNCHANGED <<db, pend, suspended, up, queue, cur>>
    BY <1>4 DEF SocketClosed, dbVars, ackVars, serverVars
  <2> QED
    BY <2>1, <2>2, Unmoved DEF Provenance
<1>5. CASE ClientReceive(c)
  BY <1>5, ClientReceiveOwn
<1>6. CASE ServerReceive(c)
  BY <1>6, ServerReceiveOwn
<1>7. CASE ServerClosed(c)
  <2>1. RequestsOwn(db)'
    BY <1>1, <1>7, Restated, LessUpOwn DEF ServerClosed
  <2>2. QueuesOwn(db)'
    BY <1>1, <1>7, Restated DEF ServerClosed, QueuesOwn, From, Types, TypeOK
  <2>3. UNCHANGED <<db, pend, suspended, down, cur>>
    BY <1>7 DEF ServerClosed, dbVars, clientVars, ackVars
  <2> QED
    BY <2>1, <2>2, <2>3, Unmoved DEF Provenance
<1> QED
  BY <1>2, <1>3, <1>4, <1>5, <1>6, <1>7 DEF SocketNext

\* With empty channels, queues and replays there is nothing but the tables.
LEMMA RestartOwn ==
  ASSUME Types, Provenance, Next, Restart
  PROVE  Provenance'
<1>1. Contents(<<>>) = {}
  BY DEF Contents
<1>2. TablesKept(db)'
  BY Unmoved DEF Restart, dbVars
<1>3. PendingOwn(db)' /\ ReplaysOwn(db)' /\ CurrentOwn'
  BY DEF Restart, All, PendingOwn, ReplaysOwn, CurrentOwn, From
<1>4. RequestsOwn(db)' /\ QueuesOwn(db)' /\ RepliesKept(db)'
  BY <1>1 DEF Restart, All, RequestsOwn, QueuesOwn, RepliesKept, From, LinesFrom, LinesKept
<1> QED
  BY <1>2, <1>3, <1>4 DEF Provenance

LEMMA InitOwn == Init => Provenance
<1> SUFFICES ASSUME Init PROVE Provenance
  OBVIOUS
<1>1. Contents(<<>>) = {}
  BY DEF Contents
<1>2. TablesKept(db) /\ PendingOwn(db) /\ ReplaysOwn(db) /\ CurrentOwn
  BY DEF Init, All, TablesKept, PendingOwn, ReplaysOwn, CurrentOwn, From
<1>3. RequestsOwn(db) /\ QueuesOwn(db) /\ RepliesKept(db)
  BY <1>1 DEF Init, All, RequestsOwn, QueuesOwn, RepliesKept, From, LinesFrom, LinesKept
<1> QED
  BY <1>2, <1>3 DEF Provenance

LEMMA NextOwn == Types /\ Provenance /\ [Next]_vars => Provenance'
<1> SUFFICES ASSUME Types, Provenance, [Next]_vars PROVE Provenance'
  OBVIOUS
<1>1. CASE Next
  BY <1>1, ClientOwn, SocketOwn, RestartOwn DEF Next
<1>2. CASE UNCHANGED vars
  <2>1. UNCHANGED <<db, pend, suspended, up, queue, down, cur>>
    BY <1>2 DEF vars, dbVars, clientVars, ackVars, wireVars, serverVars
  <2> QED
    BY <2>1 DEF Provenance, TablesKept, PendingOwn, ReplaysOwn, RequestsOwn, QueuesOwn,
                RepliesKept, CurrentOwn
<1> QED
  BY <1>1, <1>2

LEMMA ProvenanceAlways == Spec => []Provenance
BY InitOwn, NextOwn, TypesCorrect, PTL DEF Spec

\* Whatever is lost, repeated, refused or restarted, and although records
\* travel through queues, waiting replays and pulls, a node that has a copy
\* has it of a key whose owner still has a row.
THEOREM OwnerAlwaysHoldsKey == Spec => []OwnerHoldsKey
<1>1. Provenance => OwnerHoldsKey
  BY DEF Provenance, TablesKept, Kept, OwnerHoldsKey
<1> QED
  BY <1>1, ProvenanceAlways, PTL

----------------------------------------------------------------------------
(* Without restarts and INSERT errors a key stands for one record, so that *)
(* to keep a key is to keep the record.                                    *)

LEMMA OneRecordPerKey ==
  ASSUME MaxRestarts = 0, NEW x \in Records, NEW y \in Records, Key(x) = Key(y)
  PROVE  x = y
<1>1. x.owner = y.owner /\ x.seq = y.seq
  BY DEF Key
<1>2. x.epoch = 0 /\ y.epoch = 0
  BY DEF Records
<1> QED
  BY <1>1, <1>2 DEF Records

LEMMA KeptIsStored ==
  ASSUME MaxRestarts = 0, Types, NEW r \in Records, Kept(db, r)
  PROVE  r.owner \in Nodes /\ r \in db[r.owner]
<1>1. r.owner \in Nodes
  BY NodesAssumption DEF Records
<1>2. PICK x \in db[r.owner] : Key(x) = Key(r)
  BY DEF Kept, HasKey
<1> QED
  BY <1>1, <1>2, OneRecordPerKey DEF Types, TypeOK

\* Every INSERT that throws is counted against the bound.
FaultsWithin == insertFaults <= MaxInsertFaults

LEMMA FaultsBounded == Types /\ FaultsWithin /\ [Next]_vars => FaultsWithin'
<1> SUFFICES ASSUME Types, FaultsWithin, [Next]_vars PROVE FaultsWithin'
  OBVIOUS
<1> USE DEF FaultsWithin
<1> DEFINE Counted == UNCHANGED insertFaults \/ \E f : Spend(f)
<1>1. ASSUME NEW n \in Nodes, ClientNext(n)
      PROVE  Counted
  BY <1>1 DEF ClientNext, Connect, Reconnect, Disconnect, ResumeReplay, WriteRecord,
              AckTimeout, dbVars
<1>2. ASSUME NEW c \in Sockets, SocketNext(c)
      PROVE  Counted
  <2>1. CASE ServerReceive(c)
    BY <2>1 DEF ServerReceive, ServerHello, ServerRecord, ServerSyncRequest, Process, dbVars
  <2>2. CASE ClientReceive(c)
    BY <2>2 DEF ClientReceive, ClientReady, ClientAck, ClientRecord, dbVars
  <2>3. CASE Connected(c) \/ NetFault(c) \/ SocketClosed(c) \/ ServerClosed(c)
    BY <2>3 DEF Connected, NetFault, SocketClosed, ServerClosed, dbVars
  <2> QED
    BY <1>2, <2>1, <2>2, <2>3 DEF SocketNext
<1>3. Restart \/ UNCHANGED vars => Counted
  BY DEF Restart, vars, dbVars
<1>4. Counted
  BY <1>1, <1>2, <1>3 DEF Next
<1> QED
  BY <1>4 DEF Spend

LEMMA NoFaults ==
  ASSUME MaxInsertFaults = 0
  PROVE  Spec => [](insertFaults = 0)
<1>1. Init => FaultsWithin
  BY BoundsAssumption DEF Init, FaultsWithin
<1>2. Types /\ FaultsWithin => insertFaults = 0
  BY DEF Types, TypeOK, FaultsWithin
<1> QED
  BY <1>1, <1>2, FaultsBounded, TypesCorrect, PTL DEF Spec

LEMMA AckedIsStored ==
  ASSUME MaxRestarts = 0, Types, AckedKeyIsStored, insertFaults = 0
  PROVE  AckedRecordIsStored
<1>1. ASSUME NEW n \in Nodes, NEW r \in acked[n]
      PROVE  r \in db[Peer[n]]
  <2>1. Peer[n] \in Nodes /\ r \in Records
    BY NodesAssumption DEF Types, TypeOK
  <2>2. PICK x \in db[Peer[n]] : Key(x) = Key(r)
    BY DEF AckedKeyIsStored, HasKey
  <2> QED
    BY <2>1, <2>2, OneRecordPerKey DEF Types, TypeOK
<1> QED
  BY <1>1 DEF AckedRecordIsStored

\* In one lifetime of the process in which no INSERT throws, the record whose
\* write was reported as acknowledged is in the peer's table, whatever happens
\* to the connections.
THEOREM AckedRecordStored ==
  MaxRestarts = 0 /\ MaxInsertFaults = 0 => (Spec => []AckedRecordIsStored)
<1> SUFFICES ASSUME MaxRestarts = 0, MaxInsertFaults = 0
             PROVE  Spec => []AckedRecordIsStored
  OBVIOUS
<1> QED
  BY AckedIsStored, NoFaults, TypesCorrect, AckedKeyStored, PTL

----------------------------------------------------------------------------
(* LanSync implements Replication, in such a lifetime.                     *)

\* A server that processes records of a client copies them from its node.
LEMMA ProcessCopies ==
  ASSUME MaxRestarts = 0, Types, NEW c \in Sockets, NEW q \in Seq(Records),
         From(db, c[1], Contents(q)), NEW reply, Process(c, q, reply), UNCHANGED acked
  PROVE  Abstract!Next
<1> DEFINE m == c[1]
           n == Peer[c[1]]
<1>1. m \in Nodes /\ n \in Nodes
  BY SocketType
<1>2. PICK F : db' = [db EXCEPT ![n] = InsertAll(@, q, F)]
  BY DEF Process
<1> DEFINE R == InsertAll(db[n], q, F) \ db[n]
<1>3. InsertAll(db[n], q, F) = db[n] \cup R
  BY DEF InsertAll
<1>4. R \subseteq Contents(q)
  BY InsertedContents
<1>5. Contents(q) \subseteq db[m]
  <2>1. \A r \in Contents(q) : r \in Records /\ r.owner = m /\ Kept(db, r)
    BY SeqTypes DEF Contents, From
  <2> QED
    BY <2>1, KeptIsStored
<1>6. R \in SUBSET db[m] /\ db' = [db EXCEPT ![n] = @ \cup R]
  BY <1>2, <1>3, <1>4, <1>5
<1> HIDE DEF R, m, n
<1>7. Abstract!Copy(m, n)
  BY <1>6 DEF Abstract!Copy
<1> QED
  BY <1>1, <1>7 DEF Abstract!Next

LEMMA ClientImplements ==
  ASSUME MaxRestarts = 0, Types, NEW n \in Nodes, ClientNext(n)
  PROVE  Abstract!Next \/ UNCHANGED <<db, acked>>
<1>1. CASE WriteRecord(n)
  <2> DEFINE r == [owner |-> n, epoch |-> epoch, seq |-> seq[n] + 1]
  <2>1. r \in Records /\ r.owner = n
    BY <1>1, BoundsAssumption DEF WriteRecord, Records, Types, TypeOK
  <2>2. UNCHANGED acked /\ (db' = [db EXCEPT ![n] = Insert(@, r)] \/ UNCHANGED db)
    BY <1>1 DEF WriteRecord
  <2> HIDE DEF r
  <2>3. CASE db' = [db EXCEPT ![n] = @ \cup {r}]
    BY <2>1, <2>2, <2>3 DEF Abstract!Write, Abstract!Next
  <2>4. CASE UNCHANGED db
    BY <2>2, <2>4
  <2>5. db' = [db EXCEPT ![n] = @ \cup {r}] \/ UNCHANGED db
    BY <2>2 DEF Insert, Types, TypeOK
  <2> QED
    BY <2>3, <2>4, <2>5
<1>2. CASE ~WriteRecord(n)
  BY <1>2 DEF ClientNext, Connect, Reconnect, Disconnect, ResumeReplay, AckTimeout,
              dbVars, ackVars
<1> QED
  BY <1>1, <1>2

LEMMA ClientReceiveImplements ==
  ASSUME MaxRestarts = 0, Types, Provenance, AckedKeyIsStored, insertFaults = 0,
         NEW c \in Sockets, ClientReceive(c)
  PROVE  Abstract!Next \/ UNCHANGED <<db, acked>>
<1> DEFINE n == c[1]
<1>1. n \in Nodes /\ Peer[n] \in Nodes
  BY SocketType
<1>2. down[c] # <<>> /\ down[c] \in Seq(Replies)
  BY DEF ClientReceive, Types, TypeOK
<1>3. Head(down[c]) \in Contents(down[c])
  BY <1>2, ContentsParts
<1>4. CASE ClientReady(c)
  BY <1>4 DEF ClientReady, dbVars, ackVars
<1>5. CASE ClientAck(c)
  <2> DEFINE k == Head(down[c]).key
             R == {r \in pend[n] : Key(r) = k /\ k \in stamps[n]}
  <2>1. acked' = [acked EXCEPT ![n] = @ \cup R] /\ UNCHANGED db
    BY <1>5 DEF ClientAck, dbVars
  <2>2. HasKey(db[Peer[n]], k)
    BY <1>3, <1>5 DEF ClientAck, AckedKeyIsStored
  <2>3. ASSUME NEW r \in R
        PROVE  r \in db[n] /\ r \in db[Peer[n]]
    <3>1. r \in Records /\ r.owner = n /\ Kept(db, r) /\ Key(r) = k
      BY <1>1 DEF Types, TypeOK, Provenance, PendingOwn, From
    <3>2. r \in db[n]
      BY <3>1, KeptIsStored
    <3>3. PICK x \in db[Peer[n]] : Key(x) = Key(r)
      BY <2>2, <3>1 DEF HasKey
    <3>4. x \in Records
      BY <1>1 DEF Types, TypeOK
    <3> QED
      BY <3>1, <3>2, <3>3, <3>4, OneRecordPerKey
  <2>4. R \in SUBSET (db[n] \cap db[Peer[n]])
    BY <2>3
  <2> HIDE DEF R, k, n
  <2>5. Abstract!Confirm(n)
    BY <2>1, <2>4 DEF Abstract!Confirm
  <2> QED
    BY <1>1, <2>5 DEF Abstract!Next
<1>6. CASE ClientRecord(c)
  <2> DEFINE r == Head(down[c]).record
  <2>1. r \in Records /\ Kept(db, r)
    BY <1>2, <1>3, <1>6, HeadTypes
    DEF ClientRecord, Types, Provenance, RepliesKept, LinesKept
  <2>2. UNCHANGED acked /\ (db' = [db EXCEPT ![n] = Insert(@, r)] \/ UNCHANGED db)
    BY <1>6 DEF ClientRecord, ackVars
  <2> HIDE DEF r, n
  <2>3. r.owner \in Nodes /\ {r} \in SUBSET db[r.owner]
    BY <2>1, KeptIsStored
  <2>4. CASE db' = [db EXCEPT ![n] = @ \cup {r}]
    <3>1. Abstract!Copy(r.owner, n)
      BY <2>2, <2>3, <2>4 DEF Abstract!Copy
    <3> QED
      BY <1>1, <2>3, <3>1 DEF Abstract!Next
  <2>5. CASE UNCHANGED db
    BY <2>2, <2>5
  <2>6. db' = [db EXCEPT ![n] = @ \cup {r}] \/ UNCHANGED db
    BY <2>2 DEF Insert, Types, TypeOK
  <2> QED
    BY <2>4, <2>5, <2>6
<1> QED
  BY <1>4, <1>5, <1>6 DEF ClientReceive

LEMMA ServerReceiveImplements ==
  ASSUME MaxRestarts = 0, Types, Provenance, NEW c \in Sockets, ServerReceive(c)
  PROVE  Abstract!Next \/ UNCHANGED <<db, acked>>
<1>1. up[c] # <<>> /\ UNCHANGED acked
  BY DEF ServerReceive, ackVars
<1>2. CASE ServerHello(c)
  <2>1. queue[c] \in Seq(Records) /\ From(db, c[1], Contents(queue[c]))
    BY DEF Types, TypeOK, Provenance, QueuesOwn
  <2>2. Process(c, queue[c], <<Ready>>)
    BY <1>2 DEF ServerHello
  <2> QED
    BY <1>1, <2>1, <2>2, ProcessCopies
<1>3. CASE ServerRecord(c)
  <2> DEFINE r == Head(up[c]).record
  <2>1. r \in Records
    BY <1>1, <1>3, HeadTypes DEF ServerRecord, Types
  <2>2. Head(up[c]) \in Contents(up[c])
    <3>1. up[c] \in Seq(Requests)
      BY DEF Types, TypeOK
    <3> QED
      BY <1>1, <3>1, ContentsParts
  <2>3. r.owner = c[1] /\ Kept(db, r)
    BY <1>3, <2>2 DEF ServerRecord, Provenance, RequestsOwn, LinesFrom
  <2>4. Process(c, <<r>>, <<>>) \/ UNCHANGED db
    BY <1>3 DEF ServerRecord, dbVars
  <2> HIDE DEF r
  <2>5. <<r>> \in Seq(Records) /\ From(db, c[1], Contents(<<r>>))
    BY <2>1, <2>3 DEF From, Contents
  <2> QED
    BY <1>1, <2>4, <2>5, ProcessCopies
<1>4. CASE ServerSyncRequest(c)
  BY <1>1, <1>4 DEF ServerSyncRequest, dbVars
<1> QED
  BY <1>2, <1>3, <1>4 DEF ServerReceive

LEMMA StepImplements ==
  ASSUME MaxRestarts = 0, Types, Provenance, AckedKeyIsStored, insertFaults = 0,
         [Next]_vars
  PROVE  [Abstract!Next]_<<db, acked>>
<1>1. ASSUME NEW c \in Sockets, SocketNext(c)
      PROVE  Abstract!Next \/ UNCHANGED <<db, acked>>
  <2>1. CASE Connected(c) \/ NetFault(c) \/ SocketClosed(c) \/ ServerClosed(c)
    BY <2>1 DEF Connected, NetFault, SocketClosed, ServerClosed, dbVars, ackVars
  <2> QED
    BY <1>1, <2>1, ClientReceiveImplements, ServerReceiveImplements DEF SocketNext
<1>2. ~Restart
  BY DEF Restart, Types, TypeOK
<1>3. UNCHANGED vars => UNCHANGED <<db, acked>>
  BY DEF vars, dbVars, ackVars
<1> QED
  BY <1>1, <1>2, <1>3, ClientImplements DEF Next

\* In a lifetime of the process in which no INSERT throws, the clients, sockets,
\* queues, replays and faults of the protocol amount to stores that grow by
\* what is written and by copies of it, and to confirmations of what both
\* stores have.
THEOREM Implements ==
  MaxRestarts = 0 /\ MaxInsertFaults = 0 => (Spec => ImplementsReplication)
<1> SUFFICES ASSUME MaxRestarts = 0, MaxInsertFaults = 0
             PROVE  Spec => ImplementsReplication
  OBVIOUS
<1>1. Init => Abstract!Init
  BY DEF Init, All, Abstract!Init
<1>2. Types /\ Provenance /\ AckedKeyIsStored /\ insertFaults = 0 /\ [Next]_vars
        => [Abstract!Next]_<<db, acked>>
  BY StepImplements
<1> QED
  BY <1>1, <1>2, TypesCorrect, ProvenanceAlways, AckedKeyStored, NoFaults, PTL
  DEF Spec, ImplementsReplication, Abstract!Spec, Abstract!vars

=============================================================================
