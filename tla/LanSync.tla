------------------------------ MODULE LanSync ------------------------------
(***************************************************************************)
(* The SPIKE-01 LAN synchronisation protocol: every node keeps one SQLite  *)
(* table sync_records, a TCP server (sync-server.ts) and one client        *)
(* (sync-client.ts) connected to the peer's server.  The harness           *)
(* (harness.ts) writes records, interrupts the network and reconnects.     *)
(*                                                                         *)
(* JavaScript runs a callback to completion, so one action is one callback *)
(* (timer, socket event, one line of received data, one call).  The only   *)
(* await that another callback can interleave with is the wait for 'drain' *)
(* in replayQueuedRecords: a replay stopped there is in `suspended'.       *)
(*                                                                         *)
(* A socket is a pair <<n, k>>: the k-th socket the client of node n opens *)
(* (to the server of Peer[n]).  Sockets may overlap: connectInternal does  *)
(* not close the previous one, and its callbacks stay registered.          *)
(***************************************************************************)
EXTENDS Integers, Sequences, FiniteSets

CONSTANTS
  Nodes,            \* the nodes
  Peer,             \* Peer[n]: the node whose server the client of n calls
  Clients,          \* the nodes whose client the harness connects
  Writers,          \* the nodes the harness writes records at
  MaxWrites,        \* bound: records a writer writes per process lifetime
  MaxInterrupts,    \* bound: network interruptions the harness makes
  MaxNetFaults,     \* bound: connections lost, or refused, by the network
  MaxInsertFaults,  \* bound: INSERT statements that throw
  MaxRestarts,      \* bound: times the process is started again
  MaxSockets,       \* bound: sockets one client opens per process lifetime
  MaxReplays,       \* bound: replays of one client suspended at once
  SyncLimit,        \* LIMIT of the sync_request query
  Backpressure      \* may socket.write return false on a live socket?

ASSUME NodesAssumption ==
  Peer \in [Nodes -> Nodes] /\ Clients \subseteq Nodes /\ Writers \subseteq Nodes
ASSUME BoundsAssumption ==
  /\ MaxWrites \in Nat /\ MaxInterrupts \in Nat /\ MaxNetFaults \in Nat
  /\ MaxInsertFaults \in Nat /\ MaxRestarts \in Nat
  /\ MaxSockets \in Nat /\ MaxReplays \in Nat /\ SyncLimit \in Nat
  /\ Backpressure \in BOOLEAN

VARIABLES
  db,          \* db[n]: the rows of sync_records at n
  seq,         \* seq[n]: the harness's `sequence' counter
  epoch,       \* how often the process was started again
  cstate,      \* cstate[n]: `state' of the client
  unexpected,  \* unexpected[n]: is unexpectedTransitions non-empty?
  cur,         \* cur[n]: the `socket' variable of the client
  opened,      \* opened[n]: sockets opened so far
  timer,       \* timer[n]: is reconnectTimer set?
  suspended,   \* suspended[n]: replays waiting for 'drain' (or 5 s)
  stamps,      \* stamps[n]: the keys in writeTimestamps
  pend,        \* pend[n]: the records whose resolver is in pendingAcks
  acked,       \* acked[n]: records whose writeRecord resolved acked: true
  reconnect,   \* reconnect[n]: the harness is about to call connect()
  link,        \* link[c]: the client's end of socket c
  up, down,    \* up[c], down[c]: lines in flight to the server, to the client
  srv,         \* srv[c]: `state' of the server's connection
  queue,       \* queue[c]: pendingQueue of the server's connection
  interrupts, netFaults, insertFaults   \* what the bounds have used up

dbVars     == <<db, insertFaults>>
clientVars == <<cstate, unexpected, cur, opened, timer, suspended>>
ackVars    == <<stamps, pend, acked>>
wireVars   == <<link, up, down>>
serverVars == <<srv, queue>>
harnessVars == <<seq, epoch, reconnect, interrupts, netFaults>>
vars == <<dbVars, clientVars, ackVars, wireVars, serverVars, harnessVars>>

Sockets  == Nodes \X (1..MaxSockets)
NoSocket == <<>>
\* A record: its owner, epoch and seq stand for its id, a fresh UUID.
Records  == [owner : Writers, epoch : 0..MaxRestarts, seq : 1..MaxWrites]
Key(r)   == <<r.owner, r.seq>>   \* idempotencyKey
Keys     == Writers \X (1..MaxWrites)

Hello         == [type |-> "hello"]
Ready         == [type |-> "ready"]
RecordMsg(r)  == [type |-> "record", record |-> r]
AckMsg(k)     == [type |-> "ack", key |-> k]
SyncRequest   == [type |-> "sync_request", since |-> 0]  \* peerLastSequence
RecordMsgSet == [type : {"record"}, record : Records]
Requests == {Hello, SyncRequest} \cup RecordMsgSet
Replies  == {Ready} \cup [type : {"ack"}, key : Keys] \cup RecordMsgSet

ClientStates == {"DISCONNECTED", "CONNECTING", "CONNECTED", "HELLO_SENT",
                 "READY_RECEIVED", "REPLAY_IN_PROGRESS", "REPLAY_COMPLETE",
                 "SYNCHRONIZED", "NORMAL_OPERATION"}
ServerStates == {"DISCONNECTED", "CONNECTED", "SYNCHRONIZED"}
LinkStates   == {"unused", "connecting", "open",
                 "broken",      \* lost, the client has not noticed yet
                 "destroyed",   \* destroyed, its 'close' event is due
                 "closed"}

----------------------------------------------------------------------------
(* The client's state machine: transition() records a step that its table  *)
(* does not list, and takes it all the same.                               *)

ValidTransitions ==
  {<<"DISCONNECTED", "CONNECTING">>, <<"CONNECTING", "CONNECTED">>,
   <<"CONNECTED", "HELLO_SENT">>, <<"HELLO_SENT", "READY_RECEIVED">>,
   <<"READY_RECEIVED", "REPLAY_IN_PROGRESS">>,
   <<"REPLAY_IN_PROGRESS", "REPLAY_COMPLETE">>,
   <<"REPLAY_COMPLETE", "SYNCHRONIZED">>,
   <<"SYNCHRONIZED", "NORMAL_OPERATION">>,
   <<"NORMAL_OPERATION", "CONNECTING">>}
Valid(from, to) == to = "DISCONNECTED" \/ <<from, to>> \in ValidTransitions

Transition(n, path) ==
  LET states == <<cstate[n]>> \o path
  IN  /\ cstate' = [cstate EXCEPT ![n] = states[Len(states)]]
      /\ unexpected' = [unexpected EXCEPT ![n] =
           @ \/ \E i \in 1..Len(path) : ~Valid(states[i], states[i + 1])]

(* The table: INSERT OR IGNORE with id the primary key, idempotencyKey     *)
(* unique.  Distinct records of one owner with one seq have distinct ids.  *)

HasKey(rows, k) == \E x \in rows : Key(x) = k
Insert(rows, r) == IF HasKey(rows, Key(r)) THEN rows ELSE rows \cup {r}

\* Inserting the records of q in order, those at the indices F throwing.
InsertAll(rows, q, F) ==
  rows \cup {q[i] : i \in {i \in DOMAIN q \ F :
                 /\ ~HasKey(rows, Key(q[i]))
                 /\ \A j \in 1..(i - 1) : j \in F \/ Key(q[j]) # Key(q[i])}}

Spend(f) == insertFaults + f <= MaxInsertFaults
            /\ insertFaults' = insertFaults + f

\* Mutant: no ORDER BY.
OrderedNot(rows) ==
  {q \in [1..Cardinality(rows) -> rows] :
     \A i, j \in DOMAIN q : i # j => q[i] # q[j]}

\* The results of SELECT ... ORDER BY sequenceNumber: ties in any order.
Ordered(rows) ==
  {q \in [1..Cardinality(rows) -> rows] :
     /\ \A i, j \in DOMAIN q : i # j => q[i] # q[j]
     /\ \A i, j \in DOMAIN q : i < j => q[i].seq <= q[j].seq}

Min2(a, b) == IF a < b THEN a ELSE b
RecordMsgs(q) == [i \in DOMAIN q |-> RecordMsg(q[i])]

(* Sockets.  What is written to a socket that is gone is lost; a destroyed *)
(* one also makes socket.write return false.                               *)

Deliverable(c) == c # NoSocket /\ link[c] \in {"connecting", "open"}
Accepts(c)     == c # NoSocket /\ link[c] \in {"connecting", "open", "broken"}
SentUp(u, c, ms)   == IF Deliverable(c) THEN [u EXCEPT ![c] = @ \o ms] ELSE u
SentDown(d, c, ms) == IF link[c] = "open" THEN [d EXCEPT ![c] = @ \o ms] ELSE d

----------------------------------------------------------------------------
(* Client: connecting and losing the connection.                           *)

\* connectInternal: `socket' now names a new socket; the old one is kept.
OpenSocket(n) ==
  /\ opened[n] < MaxSockets
  /\ opened' = [opened EXCEPT ![n] = @ + 1]
  /\ cur' = [cur EXCEPT ![n] = <<n, opened[n] + 1>>]
  /\ link' = [link EXCEPT ![<<n, opened[n] + 1>>] = "connecting"]
  /\ Transition(n, <<"CONNECTING">>)

\* The harness calls connect(): at the start, and some time after it called
\* disconnect(), when the 'close' event of the destroyed socket is over.
Connect(n) ==
  /\ reconnect[n]
  /\ \A c \in Sockets : c[1] = n => link[c] # "destroyed"
  /\ reconnect' = [reconnect EXCEPT ![n] = FALSE]
  /\ OpenSocket(n)
  /\ UNCHANGED <<dbVars, timer, suspended, ackVars, up, down, serverVars,
                 seq, epoch, interrupts, netFaults>>

\* The timer of scheduleReconnect fires.
Reconnect(n) ==
  /\ timer[n]
  /\ timer' = [timer EXCEPT ![n] = FALSE]
  /\ \/ cstate[n] = "DISCONNECTED" /\ OpenSocket(n)
     \/ cstate[n] # "DISCONNECTED" /\ UNCHANGED <<cstate, unexpected, cur,
                                                  opened, link>>
  /\ UNCHANGED <<dbVars, suspended, ackVars, up, down, serverVars, harnessVars>>

\* Mutant: the transition to CONNECTED is forgotten.
ConnectedSilently(c) ==
  LET n == c[1] IN
  /\ link[c] = "connecting"
  /\ link' = [link EXCEPT ![c] = "open"]
  /\ srv' = [srv EXCEPT ![c] = "CONNECTED"]
  /\ up' = SentUp(up, cur[n], <<Hello>>)
  /\ Transition(n, <<"HELLO_SENT">>)
  /\ UNCHANGED <<dbVars, cur, opened, timer, suspended, ackVars, down, queue,
                 harnessVars>>

\* The connect callback of socket c: it says hello on the socket that the
\* variable names now.  The server's connection handler starts with c.
Connected(c) ==
  LET n == c[1] IN
  /\ link[c] = "connecting"
  /\ link' = [link EXCEPT ![c] = "open"]
  /\ srv' = [srv EXCEPT ![c] = "CONNECTED"]
  /\ up' = SentUp(up, cur[n], <<Hello>>)
  /\ Transition(n, <<"CONNECTED", "HELLO_SENT">>)
  /\ UNCHANGED <<dbVars, cur, opened, timer, suspended, ackVars, down, queue,
                 harnessVars>>

\* The network refuses or loses a connection.
NetFault(c) ==
  /\ netFaults < MaxNetFaults
  /\ netFaults' = netFaults + 1
  /\ link[c] \in {"connecting", "open"}
  /\ link' = [link EXCEPT ![c] = "broken"]
  /\ up' = IF link[c] = "connecting" THEN [up EXCEPT ![c] = <<>>] ELSE up
  /\ UNCHANGED <<dbVars, clientVars, ackVars, down, serverVars, seq, epoch,
                 reconnect, interrupts>>

\* Mutants: the handlers do not schedule a reconnect; do not set the state.
SocketClosedForGood(c) ==
  /\ link[c] \in {"broken", "destroyed"}
  /\ link' = [link EXCEPT ![c] = "closed"]
  /\ down' = [down EXCEPT ![c] = <<>>]
  /\ Transition(c[1], <<"DISCONNECTED">>)
  /\ UNCHANGED <<dbVars, cur, opened, timer, suspended, ackVars, up,
                 serverVars, harnessVars>>
SocketClosedUnseen(c) ==
  /\ link[c] \in {"broken", "destroyed"}
  /\ link' = [link EXCEPT ![c] = "closed"]
  /\ down' = [down EXCEPT ![c] = <<>>]
  /\ timer' = [timer EXCEPT ![c[1]] = TRUE]
  /\ UNCHANGED <<dbVars, cstate, unexpected, cur, opened, suspended, ackVars,
                 up, serverVars, harnessVars>>

\* The 'error' and 'close' events of socket c, whatever socket is current.
SocketClosed(c) ==
  LET n == c[1] IN
  /\ link[c] \in {"broken", "destroyed"}
  /\ link' = [link EXCEPT ![c] = "closed"]
  /\ down' = [down EXCEPT ![c] = <<>>]
  /\ Transition(n, <<"DISCONNECTED">>)
  /\ timer' = [timer EXCEPT ![n] = TRUE]
  /\ UNCHANGED <<dbVars, cur, opened, suspended, ackVars, up, serverVars,
                 harnessVars>>

\* The harness interrupts the network: disconnect() now, connect() later.
Disconnect(n) ==
  LET c == cur[n] IN
  /\ interrupts < MaxInterrupts
  /\ ~reconnect[n] /\ c # NoSocket
  /\ interrupts' = interrupts + 1
  /\ reconnect' = [reconnect EXCEPT ![n] = TRUE]
  /\ timer' = [timer EXCEPT ![n] = FALSE]
  /\ link' = [link EXCEPT ![c] = IF @ = "closed" THEN @ ELSE "destroyed"]
  /\ up' = IF link[c] = "connecting" THEN [up EXCEPT ![c] = <<>>] ELSE up
  /\ down' = [down EXCEPT ![c] = <<>>]
  /\ Transition(n, <<"DISCONNECTED">>)
  /\ UNCHANGED <<dbVars, cur, opened, suspended, ackVars, serverVars, seq,
                 epoch, netFaults>>

----------------------------------------------------------------------------
(* Client: replay.                                                         *)

Replayed == <<"REPLAY_COMPLETE", "SYNCHRONIZED", "NORMAL_OPERATION">>

\* Mutant: no replay (the code before the fix the README tells of).
RunReplayNot(n, s, rows, path) ==
  /\ up' = SentUp(up, cur[n], <<SyncRequest>>)
  /\ Transition(n, path \o Replayed)
  /\ UNCHANGED suspended

\* Slot s runs the replay loop over rows, having taken the states `path' so
\* far: either it writes them all, asks for the peer's records and declares
\* NORMAL_OPERATION, or the write of row m returns false and it waits.
RunReplay(n, s, rows, path) ==
  LET others == {w \in suspended[n] : w.slot # s} IN
  \/ /\ rows # <<>> => Accepts(cur[n])
     /\ up' = SentUp(up, cur[n], RecordMsgs(rows) \o <<SyncRequest>>)
     /\ suspended' = [suspended EXCEPT ![n] = others]
     /\ Transition(n, path \o Replayed)
  \/ \E m \in 1..Len(rows) :
       /\ IF Accepts(cur[n]) THEN Backpressure ELSE m = 1
       /\ up' = SentUp(up, cur[n], RecordMsgs(SubSeq(rows, 1, m)))
       /\ suspended' = [suspended EXCEPT ![n] =
            others \cup {[slot |-> s, rest |-> SubSeq(rows, m + 1, Len(rows))]}]
       /\ Transition(n, path)

\* 'ready': the client replays the records of its own that are stored now.
ClientReady(c) ==
  LET n == c[1] IN
  /\ Head(down[c]) = Ready
  /\ \/ /\ cstate[n] = "HELLO_SENT"
        /\ \E s \in 1..MaxReplays :
           \E rows \in Ordered({r \in db[n] : r.owner = n}) :
             /\ \A w \in suspended[n] : w.slot # s
             /\ \A t \in 1..(s - 1) : \E w \in suspended[n] : w.slot = t
             /\ RunReplay(n, s, rows, <<"READY_RECEIVED", "REPLAY_IN_PROGRESS">>)
     \/ cstate[n] # "HELLO_SENT" /\ UNCHANGED <<cstate, unexpected, suspended, up>>
  /\ UNCHANGED <<dbVars, ackVars>>

\* 'drain', or 5 seconds: the replay goes on, on whatever socket is current
\* and in whatever state the client is by now.
ResumeReplay(n) ==
  /\ \E w \in suspended[n] : RunReplay(n, w.slot, w.rest, <<>>)
  /\ UNCHANGED <<dbVars, cur, opened, timer, ackVars, link, down, serverVars,
                 harnessVars>>

(* Client: the other lines it receives, and writing.                       *)

ClientAck(c) ==
  LET n == c[1]
      k == Head(down[c]).key
      resolved == {r \in pend[n] : Key(r) = k /\ k \in stamps[n]} IN
  /\ Head(down[c]).type = "ack"
  /\ stamps' = [stamps EXCEPT ![n] = @ \ {k}]
  /\ pend' = [pend EXCEPT ![n] = @ \ resolved]
  /\ acked' = [acked EXCEPT ![n] = @ \cup resolved]
  /\ UNCHANGED <<dbVars, cstate, unexpected, suspended, up>>

\* A record pulled from the peer; an INSERT that throws is swallowed.
ClientRecord(c) ==
  LET n == c[1] IN
  /\ Head(down[c]).type = "record"
  /\ \/ db' = [db EXCEPT ![n] = Insert(@, Head(down[c]).record)] /\ Spend(0)
     \/ Spend(1) /\ UNCHANGED db
  /\ UNCHANGED <<ackVars, cstate, unexpected, suspended, up>>

ClientReceive(c) ==
  /\ link[c] \in {"open", "broken"} /\ down[c] # <<>>
  /\ ClientReady(c) \/ ClientAck(c) \/ ClientRecord(c)
  /\ down' = [down EXCEPT ![c] = Tail(@)]
  /\ UNCHANGED <<cur, opened, timer, link, serverVars, harnessVars>>

\* Mutant: the record is sent before it is stored.
WriteRecordSendFirst(n) ==
  LET r == [owner |-> n, epoch |-> epoch, seq |-> seq[n] + 1] IN
  /\ n \in Writers /\ seq[n] < MaxWrites
  /\ seq' = [seq EXCEPT ![n] = @ + 1]
  /\ IF cstate[n] = "NORMAL_OPERATION"
       THEN up' = SentUp(up, cur[n], <<RecordMsg(r)>>) ELSE UNCHANGED up
  /\ \/ db' = [db EXCEPT ![n] = Insert(@, r)] /\ Spend(0)
     \/ Spend(1) /\ UNCHANGED db
  /\ UNCHANGED <<clientVars, ackVars, link, down, serverVars, epoch,
                 reconnect, interrupts, netFaults>>

\* The harness's write(): a new record, stored here first, then sent if the
\* client thinks it is connected.  An INSERT that throws ends the call.
WriteRecord(n) ==
  LET r == [owner |-> n, epoch |-> epoch, seq |-> seq[n] + 1] IN
  /\ n \in Writers /\ seq[n] < MaxWrites
  /\ seq' = [seq EXCEPT ![n] = @ + 1]
  /\ \/ /\ db' = [db EXCEPT ![n] = Insert(@, r)] /\ Spend(0)
        /\ \/ /\ cstate[n] = "NORMAL_OPERATION" /\ cur[n] # NoSocket
              /\ stamps' = [stamps EXCEPT ![n] = @ \cup {Key(r)}]
              /\ pend' = [pend EXCEPT ![n] = @ \cup {r}]
              /\ up' = SentUp(up, cur[n], <<RecordMsg(r)>>)
           \/ /\ cstate[n] # "NORMAL_OPERATION" \/ cur[n] = NoSocket
              /\ UNCHANGED <<stamps, pend, up>>
     \/ Spend(1) /\ UNCHANGED <<db, stamps, pend, up>>
  /\ UNCHANGED <<clientVars, acked, link, down, serverVars, epoch, reconnect,
                 interrupts, netFaults>>

\* The 5 s timeout of a write: its promise resolves acked: false, and the
\* time stamp stays.
AckTimeout(n) ==
  /\ \E r \in pend[n] : pend' = [pend EXCEPT ![n] = @ \ {r}]
  /\ UNCHANGED <<dbVars, clientVars, stamps, acked, wireVars, serverVars,
                 harnessVars>>

----------------------------------------------------------------------------
(* Server: one connection handler per socket.                              *)

\* Mutant: acknowledged without being stored.
ProcessNot(c, q, reply) ==
  /\ down' = SentDown(down, c,
                      reply \o [i \in DOMAIN q |-> AckMsg(Key(q[i]))])
  /\ UNCHANGED dbVars

\* processRecord for each record of q: stored or not, it is acknowledged.
Process(c, q, reply) ==
  \E F \in SUBSET DOMAIN q :
    /\ Spend(Cardinality(F))
    /\ db' = [db EXCEPT ![Peer[c[1]]] = InsertAll(@, q, F)]
    /\ down' = SentDown(down, c,
                        reply \o [i \in DOMAIN q |-> AckMsg(Key(q[i]))])

\* Mutant: the last transition of the handshake is forgotten.
ServerHelloUnfinished(c) ==
  /\ Head(up[c]) = Hello
  /\ srv' = [srv EXCEPT ![c] = "READY_SENT"]
  /\ Process(c, <<>>, <<Ready>>)
  /\ UNCHANGED queue

\* hello: ready is sent, then the records that came too early are processed.
ServerHello(c) ==
  /\ Head(up[c]) = Hello
  /\ srv' = [srv EXCEPT ![c] = "SYNCHRONIZED"]
  /\ queue' = [queue EXCEPT ![c] = <<>>]
  /\ Process(c, queue[c], <<Ready>>)

\* Mutant: a record that came too early is acknowledged when it is queued.
ServerRecordEarlyAck(c) ==
  LET r == Head(up[c]).record IN
  /\ Head(up[c]).type = "record"
  /\ \/ srv[c] = "SYNCHRONIZED" /\ Process(c, <<r>>, <<>>) /\ UNCHANGED queue
     \/ /\ srv[c] # "SYNCHRONIZED"
        /\ queue' = [queue EXCEPT ![c] = Append(@, r)]
        /\ down' = SentDown(down, c, <<AckMsg(Key(r))>>)
        /\ UNCHANGED dbVars
  /\ UNCHANGED srv

ServerRecord(c) ==
  LET r == Head(up[c]).record IN
  /\ Head(up[c]).type = "record"
  /\ \/ srv[c] = "SYNCHRONIZED" /\ Process(c, <<r>>, <<>>) /\ UNCHANGED queue
     \/ /\ srv[c] # "SYNCHRONIZED"
        /\ queue' = [queue EXCEPT ![c] = Append(@, r)]
        /\ UNCHANGED <<dbVars, down>>
  /\ UNCHANGED srv

\* sync_request: the first SyncLimit rows, whoever wrote them; ignored
\* before hello.  (sync_complete follows; the client does not react to it.)
ServerSyncRequest(c) ==
  /\ Head(up[c]).type = "sync_request"
  /\ \/ /\ srv[c] = "SYNCHRONIZED"
        /\ \E rows \in Ordered({r \in db[Peer[c[1]]] : r.seq > Head(up[c]).since}) :
             down' = SentDown(down, c, RecordMsgs(
                       SubSeq(rows, 1, Min2(Len(rows), SyncLimit))))
     \/ srv[c] # "SYNCHRONIZED" /\ UNCHANGED down
  /\ UNCHANGED <<dbVars, serverVars>>

ServerReceive(c) ==
  /\ srv[c] # "DISCONNECTED" /\ up[c] # <<>>
  /\ ServerHello(c) \/ ServerRecord(c) \/ ServerSyncRequest(c)
  /\ up' = [up EXCEPT ![c] = Tail(@)]
  /\ UNCHANGED <<clientVars, ackVars, link, harnessVars>>

\* The server's 'error' or 'close' event: what it had not read is lost.
ServerClosed(c) ==
  /\ srv[c] # "DISCONNECTED" /\ link[c] \in {"broken", "destroyed", "closed"}
  /\ srv' = [srv EXCEPT ![c] = "DISCONNECTED"]
  /\ up' = [up EXCEPT ![c] = <<>>]
  /\ queue' = [queue EXCEPT ![c] = <<>>]
  /\ UNCHANGED <<dbVars, clientVars, ackVars, link, down, harnessVars>>

----------------------------------------------------------------------------
All(S, v) == [x \in S |-> v]

Init ==
  /\ db = All(Nodes, {}) /\ acked = All(Nodes, {}) /\ suspended = All(Nodes, {})
  /\ stamps = All(Nodes, {}) /\ pend = All(Nodes, {})
  /\ seq = All(Nodes, 0) /\ opened = All(Nodes, 0) /\ interrupts = 0
  /\ epoch = 0 /\ netFaults = 0 /\ insertFaults = 0
  /\ cstate = All(Nodes, "DISCONNECTED") /\ unexpected = All(Nodes, FALSE)
  /\ cur = All(Nodes, NoSocket) /\ timer = All(Nodes, FALSE)
  /\ reconnect = [n \in Nodes |-> n \in Clients]
  /\ link = All(Sockets, "unused") /\ srv = All(Sockets, "DISCONNECTED")
  /\ up = All(Sockets, <<>>) /\ down = All(Sockets, <<>>)
  /\ queue = All(Sockets, <<>>)

\* The process ends and is started again over the same database files; its
\* sequence counters start at 0 again.
Restart ==
  /\ epoch < MaxRestarts
  /\ epoch' = epoch + 1
  /\ suspended' = All(Nodes, {}) /\ stamps' = All(Nodes, {}) /\ pend' = All(Nodes, {})
  /\ seq' = All(Nodes, 0) /\ opened' = All(Nodes, 0)
  /\ cstate' = All(Nodes, "DISCONNECTED") /\ unexpected' = All(Nodes, FALSE)
  /\ cur' = All(Nodes, NoSocket) /\ timer' = All(Nodes, FALSE)
  /\ reconnect' = [n \in Nodes |-> n \in Clients]
  /\ link' = All(Sockets, "unused") /\ srv' = All(Sockets, "DISCONNECTED")
  /\ up' = All(Sockets, <<>>) /\ down' = All(Sockets, <<>>)
  /\ queue' = All(Sockets, <<>>)
  /\ UNCHANGED <<dbVars, acked, interrupts, netFaults>>

ClientNext(n) == \/ Connect(n) \/ Reconnect(n) \/ Disconnect(n)
                 \/ ResumeReplay(n) \/ WriteRecord(n) \/ AckTimeout(n)
SocketNext(c) == \/ Connected(c) \/ NetFault(c) \/ SocketClosed(c)
                 \/ ClientReceive(c) \/ ServerReceive(c) \/ ServerClosed(c)
Next == \/ \E n \in Nodes : ClientNext(n)
        \/ \E c \in Sockets : SocketNext(c)
        \/ Restart

Spec == Init /\ [][Next]_vars

\* Timers fire, sockets deliver their events, connection attempts succeed
\* unless a (bounded) fault refuses them.  Nothing obliges the harness to
\* write, to interrupt or to restart.
Fairness ==
  /\ \A n \in Nodes : /\ WF_vars(Connect(n)) /\ WF_vars(Reconnect(n))
                      /\ WF_vars(ResumeReplay(n)) /\ WF_vars(AckTimeout(n))
  /\ \A c \in Sockets : /\ WF_vars(Connected(c)) /\ WF_vars(SocketClosed(c))
                        /\ WF_vars(ClientReceive(c)) /\ WF_vars(ServerReceive(c))
                        /\ WF_vars(ServerClosed(c))
FairSpec == Spec /\ Fairness
=============================================================================
