------------------------- MODULE LanSyncProperties -------------------------
(* What the synchronisation protocol of module LanSync is meant to ensure. *)
EXTENDS LanSync

\* The types of the state (the interfaces of sync-client.ts, sync-server.ts).
TypeOK ==
  /\ db \in [Nodes -> SUBSET Records] /\ seq \in [Nodes -> 0..MaxWrites]
  /\ epoch \in 0..MaxRestarts
  /\ cstate \in [Nodes -> ClientStates] /\ unexpected \in [Nodes -> BOOLEAN]
  /\ opened \in [Nodes -> 0..MaxSockets] /\ timer \in [Nodes -> BOOLEAN]
  /\ cur \in [Nodes -> Sockets \cup {NoSocket}]
  /\ suspended \in [Nodes -> SUBSET [slot : 1..MaxReplays, rest : Seq(Records)]]
  /\ stamps \in [Nodes -> SUBSET Keys] /\ pend \in [Nodes -> SUBSET Records]
  /\ acked \in [Nodes -> SUBSET Records] /\ reconnect \in [Nodes -> BOOLEAN]
  /\ link \in [Sockets -> LinkStates] /\ srv \in [Sockets -> ServerStates]
  /\ up \in [Sockets -> Seq(Requests)] /\ down \in [Sockets -> Seq(Replies)]
  /\ queue \in [Sockets -> Seq(Records)]
  /\ interrupts \in Nat /\ netFaults \in Nat /\ insertFaults \in Nat

Own(n)       == {r \in db[n] : r.owner = n}
Contents(q)  == {q[i] : i \in DOMAIN q}
\* The records on their way to the server over socket c.
UnderWay(c)  == {m.record : m \in {m \in Contents(up[c]) : m.type = "record"}}
                  \cup Contents(queue[c])

----------------------------------------------------------------------------
(* Acknowledgements.                                                       *)

\* Every acknowledgement, received or still in flight, is true: the peer's
\* table holds a row with the idempotency key, as long as no INSERT has thrown
\* (processRecord acknowledges from its catch block too).
AckedKeyIsStored ==
  insertFaults = 0 =>
    /\ \A n \in Nodes : \A r \in acked[n] : HasKey(db[Peer[n]], Key(r))
    /\ \A c \in Sockets : \A m \in Contents(down[c]) :
         m.type = "ack" => HasKey(db[Peer[c[1]]], m.key)

\* A write that was acknowledged is in the peer's table: not only its key, but
\* the acknowledged record itself.
AckedRecordIsStored == \A n \in Nodes : acked[n] \subseteq db[Peer[n]]

\* A record is at a node that did not write it only if its owner still has a
\* row for the same key: writeRecord stores first, and only stored rows are
\* replayed or pulled.
OwnerHoldsKey ==
  \A n \in Nodes : \A r \in db[n] : HasKey(db[r.owner], Key(r))

\* Two nodes never hold different records under one idempotency key, so
\* that the harness's comparison of key sets compares the data.
SameKeySameRecord ==
  \A m, n \in Nodes : \A x \in db[m], y \in db[n] : Key(x) = Key(y) => x = y

----------------------------------------------------------------------------
(* Nothing is lost.                                                        *)

\* While a client reports NORMAL_OPERATION over a live socket, each record it
\* wrote is at the peer or on its way there over that very socket.
NothingLeftBehind ==
  \A n \in Nodes :
    cstate[n] = "NORMAL_OPERATION" /\ Deliverable(cur[n]) =>
      \A r \in Own(n) : \/ HasKey(db[Peer[n]], Key(r))
                        \/ \E x \in UnderWay(cur[n]) : Key(x) = Key(r)

\* The peer's copy of a node's records has no gaps: with a record it has all
\* the records its owner holds that were written before it.
NoGaps ==
  \A n \in Nodes : \A r \in db[Peer[n]] : r.owner = n =>
    \A x \in Own(n) : x.seq < r.seq => HasKey(db[Peer[n]], Key(x))

\* isConnected(), i.e. NORMAL_OPERATION, means that the current socket is not
\* known to be gone (the loss of a socket may go unnoticed for a while).  Only
\* without interruptions and backpressure: callbacks of overlapping sockets
\* break it.
NormalMeansSocket ==
  \A n \in Nodes : cstate[n] = "NORMAL_OPERATION" => Accepts(cur[n])

\* The client only takes transitions its table lists as valid.  Overlapping
\* sockets, which an interruption can lead to, break it (MCLanSync_unlisted).
NoUnexpectedTransition == \A n \in Nodes : ~unexpected[n]

----------------------------------------------------------------------------
(* Liveness, under FairSpec.                                               *)

\* Every client ends up connected for good once the faults are over.
Reconnects ==
  \A n \in Clients :
    <>[](cstate[n] = "NORMAL_OPERATION" /\ cur[n] # NoSocket
           /\ link[cur[n]] = "open" /\ srv[cur[n]] = "SYNCHRONIZED")

\* Every record stored where it was written ends up at the peer.
Converges ==
  \A n \in Clients : <>[](\A r \in Own(n) : HasKey(db[Peer[n]], Key(r)))

----------------------------------------------------------------------------
\* Without restarts and INSERT errors the protocol implements Replication.
Abstract == INSTANCE Replication WITH
  store <- db, confirmed <- acked, Owner <- LAMBDA r : r.owner
ImplementsReplication == Abstract!Spec
=============================================================================
