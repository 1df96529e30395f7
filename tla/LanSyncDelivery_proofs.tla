----------------------- MODULE LanSyncDelivery_proofs -----------------------
(***************************************************************************)
(* Proofs about LanSync: what reaches the peer, and in which order.        *)
(*                                                                         *)
(* The first part is about one client and its sockets: when the harness    *)
(* does not interrupt the network, a client has at most one socket that is *)
(* not closed, its state says which, and no replay ever has to wait.  The  *)
(* second part is about records, for any number of sockets: as long as no  *)
(* replay had to wait and no INSERT threw, nothing is left behind, nothing *)
(* is overtaken, and a key means the same record everywhere.               *)
(***************************************************************************)
EXTENDS LanSync_proofs

----------------------------------------------------------------------------
(* One socket per client.                                                  *)

\* Where the current socket is, by the state of the client.
StateFits(n) ==
  \/ cstate[n] = "DISCONNECTED" /\ (opened[n] > 0 => link[cur[n]] = "closed")
  \/ /\ cstate[n] = "CONNECTING" /\ opened[n] > 0
     /\ link[cur[n]] \in {"connecting", "broken"}
  \/ /\ cstate[n] \in {"HELLO_SENT", "NORMAL_OPERATION"} /\ opened[n] > 0
     /\ link[cur[n]] \in {"open", "broken"}

\* The client has opened its sockets one after the other, each after the one
\* before was closed, and is about to open another only when the last is closed.
OneSocket(n) ==
  /\ \A k \in 1..MaxSockets : /\ k > opened[n] => link[<<n, k>>] = "unused"
                              /\ k < opened[n] => link[<<n, k>>] = "closed"
  /\ cur[n] = IF opened[n] = 0 THEN NoSocket ELSE <<n, opened[n]>>
  /\ StateFits(n)
  /\ reconnect[n] => opened[n] = 0
  /\ timer[n] => opened[n] > 0 /\ cstate[n] = "DISCONNECTED"
  /\ suspended[n] = {} /\ ~unexpected[n]

Orderly == \A n \in Nodes : OneSocket(n)

\* transition() along a path of listed steps ends where the path ends, and
\* records nothing.
LEMMA ValidPath ==
  ASSUME Types, NEW n \in Nodes, NEW path \in Seq(ClientStates), path # <<>>,
         Transition(n, path), Valid(cstate[n], path[1]),
         \A i \in 1..(Len(path) - 1) : Valid(path[i], path[i + 1])
  PROVE  cstate' = [cstate EXCEPT ![n] = path[Len(path)]] /\ UNCHANGED unexpected
<1> DEFINE states == <<cstate[n]>> \o path
<1>1. cstate[n] \in ClientStates /\ unexpected \in [Nodes -> BOOLEAN]
  BY DEF Types, TypeOK
<1>2. /\ <<cstate[n]>> \in Seq(ClientStates) /\ Len(<<cstate[n]>>) = 1
      /\ Len(path) \in Nat \ {0}
  BY <1>1, LenProperties, EmptySeq
<1>3. /\ Len(states) = 1 + Len(path) /\ states[1] = cstate[n]
      /\ \A i \in 1..Len(path) : states[i + 1] = path[i]
  BY <1>1, <1>2, ConcatProperties
<1>4. \A i \in 1..Len(path) : Valid(states[i], states[i + 1])
  <2> SUFFICES ASSUME NEW i \in 1..Len(path) PROVE Valid(states[i], states[i + 1])
    OBVIOUS
  <2>1. CASE i = 1
    BY <1>2, <1>3, <2>1
  <2>2. CASE i > 1
    <3>1. i - 1 \in 1..(Len(path) - 1) /\ i - 1 \in 1..Len(path)
      BY <1>2, <2>2
    <3>2. states[i] = path[i - 1] /\ states[i + 1] = path[i]
      BY <1>3, <3>1
    <3> QED
      BY <3>1, <3>2
  <2> QED
    BY <1>2, <2>1, <2>2
<1>5. cstate' = [cstate EXCEPT ![n] = states[Len(states)]]
  BY DEF Transition
<1>6. unexpected' = [unexpected EXCEPT ![n] = @ \/ FALSE]
  <2>1. unexpected' = [unexpected EXCEPT ![n] =
           unexpected[n] \/ \E i \in 1..Len(path) : ~Valid(states[i], states[i + 1])]
    BY DEF Transition
  <2>2. (\E i \in 1..Len(path) : ~Valid(states[i], states[i + 1])) = FALSE
    BY <1>4
  <2> QED
    BY <2>1, <2>2
<1>7. UNCHANGED unexpected
  BY <1>1, <1>6
<1>8. states[Len(states)] = path[Len(path)]
  <2>1. Len(path) \in 1..Len(path) /\ Len(states) = Len(path) + 1
    BY <1>2, <1>3
  <2> HIDE DEF states
  <2> QED
    BY <1>3, <2>1
<1> QED
  BY <1>5, <1>7, <1>8

\* The steps of other clients, and of their sockets, leave this client alone.
LEMMA OneSocketFrame ==
  ASSUME Types, NEW n \in Nodes, OneSocket(n),
         cstate'[n] = cstate[n], opened'[n] = opened[n], cur'[n] = cur[n],
         reconnect'[n] = reconnect[n], timer'[n] = timer[n],
         suspended'[n] = suspended[n], unexpected'[n] = unexpected[n],
         \A k \in 1..MaxSockets : link'[<<n, k>>] = link[<<n, k>>]
  PROVE  OneSocket(n)'
<1>1. opened[n] \in 0..MaxSockets /\ MaxSockets \in Nat
  BY BoundsAssumption DEF Types, TypeOK
<1>2. opened[n] > 0 => cur[n] = <<n, opened[n]>> /\ link'[cur[n]] = link[cur[n]]
  BY <1>1 DEF OneSocket
<1>3. StateFits(n)'
  BY <1>1, <1>2 DEF OneSocket, StateFits
<1> QED
  BY <1>3 DEF OneSocket

\* connectInternal, when there is no socket or the last one is closed.
LEMMA OneSocketOpened ==
  ASSUME Types, NEW n \in Nodes, OneSocket(n), OpenSocket(n),
         cstate[n] = "DISCONNECTED", ~reconnect'[n], ~timer'[n],
         UNCHANGED suspended
  PROVE  OneSocket(n)'
<1> DEFINE c == <<n, opened[n] + 1>>
<1>1. opened[n] \in 0..MaxSockets /\ opened[n] < MaxSockets /\ MaxSockets \in Nat
  BY BoundsAssumption DEF OpenSocket, Types, TypeOK
<1>2. /\ opened'[n] = opened[n] + 1 /\ cur'[n] = c
      /\ link' = [link EXCEPT ![c] = "connecting"]
  BY DEF OpenSocket, Types, TypeOK
<1>3. c \in Sockets /\ link \in [Sockets -> LinkStates]
  BY <1>1 DEF Sockets, Types, TypeOK
<1>4. cstate'[n] = "CONNECTING" /\ UNCHANGED unexpected
  <2> DEFINE path == <<"CONNECTING">>
  <2>1. path \in Seq(ClientStates) /\ path # <<>> /\ Len(path) = 1 /\ path[1] = "CONNECTING"
    BY DEF ClientStates
  <2>2. Valid("DISCONNECTED", "CONNECTING")
    BY DEF Valid, ValidTransitions
  <2>3. Transition(n, path) /\ cstate \in [Nodes -> ClientStates]
    BY DEF OpenSocket, Types, TypeOK
  <2> HIDE DEF path
  <2>4. cstate' = [cstate EXCEPT ![n] = path[Len(path)]] /\ UNCHANGED unexpected
    BY <2>1, <2>2, <2>3, ValidPath
  <2> QED
    BY <2>1, <2>3, <2>4
<1>5. ASSUME NEW k \in 1..MaxSockets
      PROVE  /\ k > opened'[n] => link'[<<n, k>>] = "unused"
             /\ k < opened'[n] => link'[<<n, k>>] = "closed"
  <2>1. <<n, k>> \in Sockets
    BY DEF Sockets
  <2>2. k # opened[n] + 1 => link'[<<n, k>>] = link[<<n, k>>]
    BY <1>2, <1>3, <2>1
  <2>3. CASE k > opened'[n]
    BY <1>1, <1>2, <2>2, <2>3 DEF OneSocket
  <2>4. CASE k < opened'[n] /\ k = opened[n]
    <3>1. cur[n] = <<n, k>> /\ opened[n] > 0
      BY <2>4 DEF OneSocket
    <3>2. link[<<n, k>>] = "closed"
      BY <3>1 DEF OneSocket, StateFits
    <3> QED
      BY <1>1, <1>2, <2>2, <2>4, <3>2
  <2>5. CASE k < opened'[n] /\ k # opened[n]
    BY <1>1, <1>2, <2>2, <2>5 DEF OneSocket
  <2> QED
    BY <1>1, <1>2, <2>3, <2>4, <2>5
<1>6. link'[cur'[n]] = "connecting" /\ opened'[n] > 0
  BY <1>1, <1>2, <1>3
<1>7. StateFits(n)'
  BY <1>4, <1>6 DEF StateFits
<1> QED
  BY <1>1, <1>2, <1>4, <1>5, <1>6, <1>7 DEF OneSocket

\* What is assumed of the configuration: the harness does not interrupt, and a
\* live socket takes what is written to it.
Calm == MaxInterrupts = 0 /\ ~Backpressure

\* The replay of a client that has just been told 'ready'.
LEMMA ReplayAtOnce ==
  ASSUME Calm, Types, NEW n \in Nodes, OneSocket(n), cstate[n] = "HELLO_SENT",
         NEW s \in 1..MaxReplays, NEW rows \in Seq(Records),
         RunReplay(n, s, rows, <<"READY_RECEIVED", "REPLAY_IN_PROGRESS">>)
  PROVE  /\ cstate' = [cstate EXCEPT ![n] = "NORMAL_OPERATION"]
         /\ UNCHANGED <<unexpected, suspended>>
<1> DEFINE path == <<"READY_RECEIVED", "REPLAY_IN_PROGRESS">>
           all  == <<"READY_RECEIVED", "REPLAY_IN_PROGRESS", "REPLAY_COMPLETE",
                     "SYNCHRONIZED", "NORMAL_OPERATION">>
<1>1. Accepts(cur[n])
  BY DEF OneSocket, StateFits, Accepts, NoSocket
<1>2. /\ suspended' = [suspended EXCEPT ![n] = {w \in suspended[n] : w.slot # s}]
      /\ Transition(n, path \o Replayed)
  BY <1>1 DEF RunReplay, Calm
<1>3. path \o Replayed = all
  <2> DEFINE end == <<"REPLAY_COMPLETE", "SYNCHRONIZED", "NORMAL_OPERATION">>
  <2>1. /\ path \in Seq(ClientStates) /\ Len(path) = 2
        /\ path[1] = "READY_RECEIVED" /\ path[2] = "REPLAY_IN_PROGRESS"
    BY DEF ClientStates
  <2>2. /\ end \in Seq(ClientStates) /\ Len(end) = 3 /\ end[1] = "REPLAY_COMPLETE"
        /\ end[2] = "SYNCHRONIZED" /\ end[3] = "NORMAL_OPERATION"
    BY DEF ClientStates
  <2>3. /\ all \in Seq(ClientStates) /\ Len(all) = 5
        /\ all[1] = "READY_RECEIVED" /\ all[2] = "REPLAY_IN_PROGRESS"
        /\ all[3] = "REPLAY_COMPLETE" /\ all[4] = "SYNCHRONIZED"
        /\ all[5] = "NORMAL_OPERATION"
    BY DEF ClientStates
  <2> HIDE DEF path, end, all
  <2>4. /\ path \o end \in Seq(ClientStates) /\ Len(path \o end) = Len(path) + Len(end)
        /\ \A i \in 1..(Len(path) + Len(end)) :
             (path \o end)[i] = IF i <= Len(path) THEN path[i] ELSE end[i - Len(path)]
    BY <2>1, <2>2, ConcatProperties
  <2>5. ASSUME NEW i \in 1..5
        PROVE  (path \o end)[i] = all[i]
    <3>1. i = 1 \/ i = 2 \/ i = 3 \/ i = 4 \/ i = 5
      OBVIOUS
    <3> QED
      BY <2>1, <2>2, <2>3, <2>4, <3>1
  <2>6. Len(path \o end) = Len(all) /\ \A i \in 1..Len(path \o end) : (path \o end)[i] = all[i]
    BY <2>1, <2>2, <2>3, <2>4, <2>5
  <2>7. path \o end = all
    BY <2>3, <2>4, <2>6, SeqEqual
  <2> QED
    BY <2>7 DEF Replayed, end
<1>4. UNCHANGED suspended
  BY <1>2 DEF OneSocket, Types, TypeOK
<1>5. /\ all \in Seq(ClientStates) /\ all # <<>> /\ Len(all) = 5
      /\ all[1] = "READY_RECEIVED" /\ all[2] = "REPLAY_IN_PROGRESS"
      /\ all[3] = "REPLAY_COMPLETE" /\ all[4] = "SYNCHRONIZED"
      /\ all[5] = "NORMAL_OPERATION"
  BY DEF ClientStates
<1>6. Transition(n, all)
  BY <1>2, <1>3
<1> HIDE DEF all, path
<1>7. \A i \in 1..(Len(all) - 1) : Valid(all[i], all[i + 1])
  <2> SUFFICES ASSUME NEW i \in 1..4 PROVE Valid(all[i], all[i + 1])
    BY <1>5
  <2>1. i = 1 \/ i = 2 \/ i = 3 \/ i = 4
    OBVIOUS
  <2> QED
    BY <1>5, <2>1 DEF Valid, ValidTransitions
<1>8. Valid(cstate[n], all[1])
  BY <1>5 DEF Valid, ValidTransitions
<1>9. cstate' = [cstate EXCEPT ![n] = all[Len(all)]] /\ UNCHANGED unexpected
  BY <1>5, <1>6, <1>7, <1>8, ValidPath
<1> QED
  BY <1>4, <1>5, <1>9

LEMMA ClientOrderly ==
  ASSUME Calm, Types, Orderly, NEW m \in Nodes, ClientNext(m), NEW n \in Nodes
  PROVE  OneSocket(n)'
<1> USE DEF Types, TypeOK
<1>1. OneSocket(n) /\ OneSocket(m)
  BY DEF Orderly
<1>2. ASSUME OpenSocket(m), m # n
      PROVE  /\ cstate'[n] = cstate[n] /\ opened'[n] = opened[n] /\ cur'[n] = cur[n]
             /\ unexpected'[n] = unexpected[n]
             /\ \A k \in 1..MaxSockets : link'[<<n, k>>] = link[<<n, k>>]
  BY <1>2 DEF OpenSocket, Transition
<1>3. CASE Connect(m)
  <2>1. reconnect[m] /\ OpenSocket(m) /\ reconnect' = [reconnect EXCEPT ![m] = FALSE]
          /\ UNCHANGED <<timer, suspended>>
    BY <1>3 DEF Connect
  <2>2. CASE m = n
    <3>1. opened[n] = 0 /\ ~timer[n]
      BY <1>1, <2>1, <2>2 DEF OneSocket
    <3>2. cstate[n] = "DISCONNECTED"
      BY <1>1, <3>1 DEF OneSocket, StateFits
    <3> QED
      BY <1>1, <2>1, <2>2, <3>1, <3>2, OneSocketOpened
  <2>3. CASE m # n
    <3>1. /\ cstate'[n] = cstate[n] /\ opened'[n] = opened[n] /\ cur'[n] = cur[n]
          /\ unexpected'[n] = unexpected[n]
          /\ \A k \in 1..MaxSockets : link'[<<n, k>>] = link[<<n, k>>]
      BY <1>2, <2>1, <2>3
    <3>2. reconnect'[n] = reconnect[n] /\ timer'[n] = timer[n] /\ suspended'[n] = suspended[n]
      BY <2>1, <2>3
    <3> QED
      BY <1>1, <3>1, <3>2, OneSocketFrame
  <2> QED
    BY <2>2, <2>3
<1>4. CASE Reconnect(m)
  <2>1. timer[m] /\ timer' = [timer EXCEPT ![m] = FALSE] /\ UNCHANGED <<suspended, reconnect>>
    BY <1>4 DEF Reconnect, harnessVars
  <2>2. cstate[m] = "DISCONNECTED" /\ opened[m] > 0
    BY <1>1, <2>1 DEF OneSocket
  <2>3. OpenSocket(m)
    BY <1>4, <2>2 DEF Reconnect
  <2>4. CASE m = n
    <3>1. ~reconnect'[n] /\ ~timer'[n]
      BY <1>1, <2>1, <2>2, <2>4 DEF OneSocket
    <3> QED
      BY <1>1, <2>1, <2>2, <2>3, <2>4, <3>1, OneSocketOpened
  <2>5. CASE m # n
    <3>1. /\ cstate'[n] = cstate[n] /\ opened'[n] = opened[n] /\ cur'[n] = cur[n]
          /\ unexpected'[n] = unexpected[n]
          /\ \A k \in 1..MaxSockets : link'[<<n, k>>] = link[<<n, k>>]
      BY <1>2, <2>3, <2>5
    <3>2. reconnect'[n] = reconnect[n] /\ timer'[n] = timer[n] /\ suspended'[n] = suspended[n]
      BY <2>1, <2>5
    <3> QED
      BY <1>1, <3>1, <3>2, OneSocketFrame
  <2> QED
    BY <2>4, <2>5
<1>5. ~Disconnect(m)
  BY DEF Disconnect, Calm
<1>6. ~ResumeReplay(m)
  BY <1>1 DEF ResumeReplay, OneSocket
<1>7. CASE WriteRecord(m) \/ AckTimeout(m)
  <2>1. UNCHANGED <<cstate, opened, cur, reconnect, timer, suspended, unexpected, link>>
    BY <1>7 DEF WriteRecord, AckTimeout, clientVars, wireVars, harnessVars
  <2> QED
    BY <1>1, <2>1, OneSocketFrame
<1> QED
  BY <1>3, <1>4, <1>5, <1>6, <1>7 DEF ClientNext

LEMMA SocketOrderly ==
  ASSUME Calm, Types, Orderly, NEW c \in Sockets, SocketNext(c), NEW n \in Nodes
  PROVE  OneSocket(n)'
<1> USE DEF Types, TypeOK
<1> DEFINE m == c[1]
<1>1. m \in Nodes /\ OneSocket(n) /\ OneSocket(m)
  BY SocketType DEF Orderly
<1>2. PICK j \in 1..MaxSockets : c = <<m, j>>
  BY DEF Sockets
<1>3. opened[n] \in 0..MaxSockets /\ opened[m] \in 0..MaxSockets /\ MaxSockets \in Nat
  BY <1>1, BoundsAssumption
<1>4. link[c] \notin {"unused", "closed"} =>
        j = opened[m] /\ opened[m] > 0 /\ cur[m] = c
  BY <1>1, <1>2, <1>3 DEF OneSocket
<1>5. \A k \in 1..MaxSockets : <<n, k>> \in Sockets /\ (<<n, k>> = c => n = m /\ k = j)
  BY <1>2 DEF Sockets
\* The link of c changes, and the state, the timer and `unexpected' of m may.
<1>6. ASSUME link[c] \notin {"unused", "closed"},
             NEW v, link' = [link EXCEPT ![c] = v],
             UNCHANGED <<opened, cur, reconnect, suspended, unexpected>>,
             \/ UNCHANGED cstate
             \/ \E x : cstate' = [cstate EXCEPT ![m] = x],
             \/ UNCHANGED timer
             \/ timer' = [timer EXCEPT ![m] = TRUE] /\ cstate'[m] = "DISCONNECTED",
             timer'[m] => cstate'[m] = "DISCONNECTED",
             \/ cstate'[m] = "DISCONNECTED" /\ v = "closed"
             \/ cstate'[m] = "CONNECTING" /\ v \in {"connecting", "broken"}
             \/ cstate'[m] \in {"HELLO_SENT", "NORMAL_OPERATION"} /\ v \in {"open", "broken"}
      PROVE  OneSocket(n)'
  <2>1. CASE n = m
    <3>1. opened[n] > 0 /\ cur[n] = c /\ link'[c] = v /\ j = opened[n]
      BY <1>4, <1>6, <2>1
    <3>2. \A k \in 1..MaxSockets : k # opened[n] => link'[<<n, k>>] = link[<<n, k>>]
      BY <1>5, <1>6, <3>1
    <3>3. StateFits(n)'
      BY <1>6, <2>1, <3>1 DEF StateFits
    <3> QED
      BY <1>1, <1>3, <1>6, <2>1, <3>1, <3>2, <3>3 DEF OneSocket
  <2>2. CASE n # m
    <3>1. cstate'[n] = cstate[n] /\ timer'[n] = timer[n]
      BY <1>6, <2>2
    <3>2. \A k \in 1..MaxSockets : link'[<<n, k>>] = link[<<n, k>>]
      BY <1>5, <1>6, <2>2
    <3> QED
      BY <1>1, <1>6, <3>1, <3>2, OneSocketFrame
  <2> QED
    BY <2>1, <2>2
<1>7. CASE Connected(c)
  <2>1. link[c] = "connecting" /\ link' = [link EXCEPT ![c] = "open"]
          /\ UNCHANGED <<opened, cur, reconnect, suspended, timer>>
          /\ Transition(m, <<"CONNECTED", "HELLO_SENT">>)
    BY <1>7 DEF Connected, harnessVars
  <2>2. cur[m] = c /\ opened[m] > 0
    BY <1>4, <2>1
  <2>3. cstate[m] = "CONNECTING"
    BY <1>1, <2>1, <2>2 DEF OneSocket, StateFits
  <2>4. cstate' = [cstate EXCEPT ![m] = "HELLO_SENT"] /\ UNCHANGED unexpected
    <3> DEFINE path == <<"CONNECTED", "HELLO_SENT">>
    <3>1. /\ path \in Seq(ClientStates) /\ path # <<>> /\ Len(path) = 2
          /\ path[1] = "CONNECTED" /\ path[2] = "HELLO_SENT"
      BY DEF ClientStates
    <3>2. Transition(m, path)
      BY <2>1
    <3> HIDE DEF path
    <3>3. Valid(cstate[m], path[1]) /\ \A i \in 1..(Len(path) - 1) : Valid(path[i], path[i + 1])
      BY <2>3, <3>1 DEF Valid, ValidTransitions
    <3>4. cstate' = [cstate EXCEPT ![m] = path[Len(path)]] /\ UNCHANGED unexpected
      BY <1>1, <3>1, <3>2, <3>3, ValidPath
    <3> QED
      BY <3>1, <3>4
  <2>5. ~timer[m]
    BY <1>1, <2>3 DEF OneSocket
  <2>6. cstate'[m] = "HELLO_SENT"
    BY <1>1, <2>4
  <2> QED
    BY <1>6, <2>1, <2>4, <2>5, <2>6
<1>8. CASE NetFault(c)
  <2>1. link[c] \in {"connecting", "open"} /\ link' = [link EXCEPT ![c] = "broken"]
          /\ UNCHANGED <<opened, cur, reconnect, suspended, timer, cstate, unexpected>>
    BY <1>8 DEF NetFault, clientVars
  <2>2. cur[m] = c /\ opened[m] > 0
    BY <1>4, <2>1
  <2>3. cstate[m] \in {"CONNECTING", "HELLO_SENT", "NORMAL_OPERATION"}
    BY <1>1, <2>1, <2>2 DEF OneSocket, StateFits
  <2>4. ~timer[m]
    BY <1>1, <2>3 DEF OneSocket
  <2> QED
    BY <1>6, <2>1, <2>3, <2>4
<1>9. CASE SocketClosed(c)
  <2>1. link[c] \in {"broken", "destroyed"} /\ link' = [link EXCEPT ![c] = "closed"]
          /\ UNCHANGED <<opened, cur, reconnect, suspended>>
          /\ timer' = [timer EXCEPT ![m] = TRUE]
          /\ Transition(m, <<"DISCONNECTED">>)
    BY <1>9 DEF SocketClosed, harnessVars
  <2>2. cstate' = [cstate EXCEPT ![m] = "DISCONNECTED"] /\ UNCHANGED unexpected
    <3> DEFINE path == <<"DISCONNECTED">>
    <3>1. /\ path \in Seq(ClientStates) /\ path # <<>> /\ Len(path) = 1
          /\ path[1] = "DISCONNECTED"
      BY DEF ClientStates
    <3>2. Transition(m, path)
      BY <2>1
    <3> HIDE DEF path
    <3>3. Valid(cstate[m], path[1]) /\ \A i \in 1..(Len(path) - 1) : Valid(path[i], path[i + 1])
      BY <3>1 DEF Valid
    <3>4. cstate' = [cstate EXCEPT ![m] = path[Len(path)]] /\ UNCHANGED unexpected
      BY <1>1, <3>1, <3>2, <3>3, ValidPath
    <3> QED
      BY <3>1, <3>4
  <2>3. cstate'[m] = "DISCONNECTED"
    BY <1>1, <2>2
  <2> QED
    BY <1>6, <2>1, <2>2, <2>3
<1>10. CASE ClientReceive(c)
  <2>1. UNCHANGED <<opened, cur, reconnect, timer, link>>
    BY <1>10 DEF ClientReceive, harnessVars
  <2>2. CASE UNCHANGED <<cstate, unexpected, suspended>>
    BY <1>1, <2>1, <2>2, OneSocketFrame
  <2>3. CASE ~UNCHANGED <<cstate, unexpected, suspended>>
    <3> DEFINE own == {r \in db[m] : r.owner = m}
    <3>1. /\ cstate[m] = "HELLO_SENT"
          /\ \E s \in 1..MaxReplays, rows \in Ordered(own) :
               RunReplay(m, s, rows, <<"READY_RECEIVED", "REPLAY_IN_PROGRESS">>)
      BY <1>10, <2>3 DEF ClientReceive, ClientReady, ClientAck, ClientRecord
    <3>2. own \subseteq Records /\ IsFiniteSet(own)
      BY <1>1, FS_Subset
    <3>3. \A rows \in Ordered(own) : rows \in Seq(Records)
      BY <3>2, OrderedType
    <3>4. /\ cstate' = [cstate EXCEPT ![m] = "NORMAL_OPERATION"]
          /\ UNCHANGED <<unexpected, suspended>>
      <4>1. PICK s \in 1..MaxReplays, rows \in Ordered(own) :
              RunReplay(m, s, rows, <<"READY_RECEIVED", "REPLAY_IN_PROGRESS">>)
        BY <3>1
      <4> HIDE DEF own, m
      <4> QED
        BY <1>1, <3>1, <3>3, <4>1, ReplayAtOnce
    <3>5. CASE n = m
      <4>1. opened[n] > 0 /\ link[cur[n]] \in {"open", "broken"} /\ ~timer[n]
        BY <1>1, <3>1, <3>5 DEF OneSocket, StateFits
      <4>2. StateFits(n)'
        BY <1>1, <2>1, <3>4, <3>5, <4>1 DEF StateFits
      <4> QED
        BY <1>1, <2>1, <3>4, <4>1, <4>2 DEF OneSocket
    <3>6. CASE n # m
      BY <1>1, <2>1, <3>4, <3>6, OneSocketFrame
    <3> QED
      BY <3>5, <3>6
  <2> QED
    BY <2>2, <2>3
<1>11. CASE ServerReceive(c) \/ ServerClosed(c)
  <2>1. UNCHANGED <<cstate, opened, cur, reconnect, timer, suspended, unexpected, link>>
    BY <1>11 DEF ServerReceive, ServerClosed, clientVars, harnessVars
  <2> QED
    BY <1>1, <2>1, OneSocketFrame
<1> QED
  BY <1>7, <1>8, <1>9, <1>10, <1>11 DEF SocketNext

LEMMA OrderlyAlways ==
  ASSUME Calm
  PROVE  Spec => []Orderly
<1>1. Init => Orderly
  BY DEF Init, All, Orderly, OneSocket, StateFits, Sockets
<1>2. ASSUME Types, Orderly, [Next]_vars
      PROVE  Orderly'
  <2>1. ASSUME Restart
        PROVE  Orderly'
    BY <2>1 DEF Restart, All, Orderly, OneSocket, StateFits, Sockets
  <2>2. ASSUME UNCHANGED vars
        PROVE  Orderly'
    BY <1>2, <2>2 DEF Orderly, OneSocket, StateFits, vars, clientVars, wireVars, harnessVars
  <2> QED
    BY <1>2, <2>1, <2>2, ClientOrderly, SocketOrderly DEF Next, Orderly
<1> QED
  BY <1>1, <1>2, TypesCorrect, PTL DEF Spec

\* While the harness leaves the network alone and sockets take what is written
\* to them, a client in NORMAL_OPERATION has a socket that, for all it knows, is
\* there, however often connections are refused or lost.
THEOREM NormalHasSocket == Calm => (Spec => []NormalMeansSocket)
<1> SUFFICES ASSUME Calm PROVE Spec => []NormalMeansSocket
  OBVIOUS
<1>1. ASSUME Orderly, NEW n \in Nodes, cstate[n] = "NORMAL_OPERATION"
      PROVE  Accepts(cur[n])
  <2>1. OneSocket(n)
    BY <1>1 DEF Orderly
  <2>2. opened[n] > 0 /\ link[cur[n]] \in {"open", "broken"}
    BY <1>1, <2>1 DEF OneSocket, StateFits
  <2>3. cur[n] = <<n, opened[n]>>
    BY <2>1, <2>2 DEF OneSocket
  <2> QED
    BY <2>2, <2>3 DEF Accepts, NoSocket
<1>2. Orderly => NormalMeansSocket
  BY <1>1 DEF NormalMeansSocket
<1> QED
  BY <1>2, OrderlyAlways, PTL

\* Nor does it ever take a transition that its table does not list.
THEOREM OnlyListedTransitions == Calm => (Spec => []NoUnexpectedTransition)
<1> SUFFICES ASSUME Calm PROVE Spec => []NoUnexpectedTransition
  OBVIOUS
<1>1. Orderly => NoUnexpectedTransition
  BY DEF Orderly, OneSocket, NoUnexpectedTransition
<1> QED
  BY <1>1, OrderlyAlways, PTL

\* No replay is waiting for 'drain'.
NoReplayWaits == \A n \in Nodes : suspended[n] = {}

LEMMA ReplaysNeverWait == Calm => (Spec => []NoReplayWaits)
<1> SUFFICES ASSUME Calm PROVE Spec => []NoReplayWaits
  OBVIOUS
<1>1. Orderly => NoReplayWaits
  BY DEF Orderly, OneSocket, NoReplayWaits
<1> QED
  BY <1>1, OrderlyAlways, PTL

----------------------------------------------------------------------------
(* What is on its way, and what is ahead of it.  A record r that goes from *)
(* node src to node dst is backed by the records P that will be there      *)
(* before it if src has r itself, unless its key will be taken by then,    *)
(* and if all that the owner of r wrote before r will be there.  The       *)
(* tables are a parameter D again.                                         *)

KeysWithin(S, T) == \A x \in S : HasKey(T, Key(x))

\* All that the owner of r has of its own and wrote before r is among S.
Ahead(D, r, S) ==
  \A x \in D[r.owner] : x.owner = r.owner /\ x.seq < r.seq => HasKey(S, Key(x))

Backed(D, src, dst, r, P) ==
  /\ r \in D[src] \/ HasKey(P \cup D[dst], Key(r))
  /\ Ahead(D, r, P \cup D[dst])

RowsBefore(q, i)   == {q[j] : j \in 1..(i - 1)}
LinesBefore(ms, i) == {ms[j].record : j \in {j \in 1..(i - 1) : ms[j].type = "record"}}
\* The records among the lines ms.
Carried(ms)        == {m.record : m \in {m \in Contents(ms) : m.type = "record"}}

\* Every record of a queue, or among some lines, is backed by those before it
\* (and by P).
RowsBacked(D, src, dst, q) ==
  \A i \in DOMAIN q : Backed(D, src, dst, q[i], RowsBefore(q, i))
LinesBacked(D, src, dst, P, ms) ==
  \A i \in DOMAIN ms : ms[i].type = "record" =>
    Backed(D, src, dst, ms[i].record, P \cup LinesBefore(ms, i))

OneMeaning(D) == \A m, n \in Nodes : \A x \in D[m], y \in D[n] : Key(x) = Key(y) => x = y
GapFree(D)    == \A m \in Nodes : \A r \in D[m] : Ahead(D, r, D[m])
\* A node has rows for all keys up to any of its own, and to its counter.
Contiguous(D) ==
  \A n \in Nodes :
    /\ \A r \in D[n] : r.owner = n => \A i \in 1..r.seq : HasKey(D[n], <<n, i>>)
    /\ \A i \in 1..seq[n] : HasKey(D[n], <<n, i>>)

QueuesBacked(D)   == \A c \in Sockets : RowsBacked(D, c[1], Peer[c[1]], queue[c])
RequestsBacked(D) ==
  \A c \in Sockets : LinesBacked(D, c[1], Peer[c[1]], Contents(queue[c]), up[c])
RepliesBacked(D)  == \A c \in Sockets : LinesBacked(D, Peer[c[1]], c[1], {}, down[c])

\* After hello nothing waits in the server's queue.
QueueEmptied == \A c \in Sockets : srv[c] = "SYNCHRONIZED" => queue[c] = <<>>

Delivery ==
  /\ OneMeaning(db) /\ GapFree(db) /\ Contiguous(db) /\ NothingLeftBehind
  /\ QueuesBacked(db) /\ RequestsBacked(db) /\ RepliesBacked(db) /\ QueueEmptied

----------------------------------------------------------------------------
(* Keys, and sequences of backed records.                                  *)

LEMMA KeysFollow ==
  ASSUME NEW S, NEW T, KeysWithin(S, T), NEW k, HasKey(S, k)
  PROVE  HasKey(T, k)
BY DEF KeysWithin, HasKey

\* More ahead, larger tables, and nothing new that comes before r.
LEMMA BackedStays ==
  ASSUME NEW D, NEW E, NEW src, NEW dst, NEW r, NEW P, NEW Q,
         Backed(D, src, dst, r, P),
         D[src] \subseteq E[src], KeysWithin(P \cup D[dst], Q \cup E[dst]),
         \A x \in E[r.owner] : x.owner = r.owner /\ x.seq < r.seq => x \in D[r.owner]
  PROVE  Backed(E, src, dst, r, Q)
<1>1. r \in E[src] \/ HasKey(Q \cup E[dst], Key(r))
  BY KeysFollow DEF Backed
<1>2. Ahead(E, r, Q \cup E[dst])
  BY KeysFollow DEF Backed, Ahead
<1> QED
  BY <1>1, <1>2 DEF Backed

LEMMA BackedByMore ==
  ASSUME NEW D, NEW src, NEW dst, NEW r, NEW P, NEW Q,
         Backed(D, src, dst, r, P), KeysWithin(P, Q \cup D[dst])
  PROVE  Backed(D, src, dst, r, Q)
<1>1. KeysWithin(P \cup D[dst], Q \cup D[dst])
  BY DEF KeysWithin, HasKey
<1> QED
  BY <1>1, BackedStays

\* Lines behind lines.
LEMMA LinesBehind ==
  ASSUME NEW D, NEW src, NEW dst, NEW P, NEW S, NEW s \in Seq(S), NEW t \in Seq(S),
         LinesBacked(D, src, dst, P, s), LinesBacked(D, src, dst, P \cup Carried(s), t)
  PROVE  LinesBacked(D, src, dst, P, s \o t)
<1>1. /\ s \o t \in Seq(S) /\ Len(s) \in Nat /\ Len(t) \in Nat
      /\ Len(s \o t) = Len(s) + Len(t)
      /\ DOMAIN s = 1..Len(s) /\ DOMAIN t = 1..Len(t) /\ DOMAIN (s \o t) = 1..Len(s \o t)
  BY ConcatProperties, LenProperties
<1>2. /\ \A i \in 1..Len(s) : (s \o t)[i] = s[i]
      /\ \A i \in 1..Len(t) : (s \o t)[Len(s) + i] = t[i]
  BY <1>1, ConcatProperties
<1> DEFINE u == s \o t
<1> HIDE DEF u
<1>3. ASSUME NEW i \in DOMAIN u, u[i].type = "record"
      PROVE  Backed(D, src, dst, u[i].record, P \cup LinesBefore(u, i))
  <2>1. CASE i \in 1..Len(s)
    <3>1. u[i] = s[i] /\ LinesBefore(u, i) = LinesBefore(s, i)
      BY <1>1, <1>2, <2>1 DEF u, LinesBefore
    <3> QED
      BY <1>1, <1>3, <2>1, <3>1 DEF LinesBacked
  <2>2. CASE i \notin 1..Len(s)
    <3>1. PICK j \in 1..Len(t) : i = Len(s) + j
      <4>1. i \in 1..(Len(s) + Len(t))
        BY <1>1, <1>3 DEF u
      <4>2. i - Len(s) \in 1..Len(t) /\ i = Len(s) + (i - Len(s))
        BY <1>1, <2>2, <4>1
      <4> QED
        BY <4>2
    <3>2. u[i] = t[j]
      BY <1>2, <3>1 DEF u
    <3>3. Backed(D, src, dst, t[j].record, (P \cup Carried(s)) \cup LinesBefore(t, j))
      BY <1>1, <1>3, <3>2 DEF LinesBacked
    <3>4. Carried(s) \subseteq LinesBefore(u, i)
      <4>1. ASSUME NEW k \in DOMAIN s, s[k].type = "record"
            PROVE  s[k].record \in LinesBefore(u, i)
        <5>1. k \in 1..(i - 1) /\ u[k] = s[k]
          BY <1>1, <1>2, <3>1 DEF u
        <5> QED
          BY <4>1, <5>1 DEF LinesBefore
      <4> QED
        BY <4>1 DEF Carried, Contents
    <3>5. LinesBefore(t, j) \subseteq LinesBefore(u, i)
      <4>1. ASSUME NEW k \in 1..(j - 1), t[k].type = "record"
            PROVE  t[k].record \in LinesBefore(u, i)
        <5>1. Len(s) + k \in 1..(i - 1) /\ u[Len(s) + k] = t[k]
          BY <1>1, <1>2, <3>1 DEF u
        <5> QED
          BY <4>1, <5>1 DEF LinesBefore
      <4> QED
        BY <4>1 DEF LinesBefore
    <3>6. KeysWithin((P \cup Carried(s)) \cup LinesBefore(t, j),
                     (P \cup LinesBefore(u, i)) \cup D[dst])
      BY <3>4, <3>5 DEF KeysWithin, HasKey
    <3>7. Backed(D, src, dst, t[j].record, P \cup LinesBefore(u, i))
      BY <3>3, <3>6, BackedByMore
    <3> QED
      BY <3>2, <3>7
  <2> QED
    BY <2>1, <2>2
<1> QED
  BY <1>3 DEF LinesBacked, u

\* Once the first line is dealt with.
LEMMA LinesLeft ==
  ASSUME NEW D, NEW src, NEW dst, NEW P, NEW Q, NEW S, NEW s \in Seq(S), s # <<>>,
         LinesBacked(D, src, dst, P, s), KeysWithin(P, Q \cup D[dst]),
         Head(s).type = "record" => HasKey(Q \cup D[dst], Key(Head(s).record))
  PROVE  LinesBacked(D, src, dst, Q, Tail(s))
<1>1. /\ Len(s) \in Nat \ {0} /\ DOMAIN s = 1..Len(s) /\ Head(s) = s[1]
      /\ Tail(s) \in Seq(S) /\ Len(Tail(s)) = Len(s) - 1
      /\ \A i \in 1..Len(Tail(s)) : Tail(s)[i] = s[i + 1]
      /\ DOMAIN Tail(s) = 1..Len(Tail(s))
  BY HeadTailProperties, LenProperties, EmptySeq
<1> DEFINE t == Tail(s)
<1> HIDE DEF t
<1>2. ASSUME NEW i \in DOMAIN t, t[i].type = "record"
      PROVE  Backed(D, src, dst, t[i].record, Q \cup LinesBefore(t, i))
  <2>1. i \in 1..(Len(s) - 1) /\ i + 1 \in DOMAIN s /\ t[i] = s[i + 1]
    BY <1>1 DEF t
  <2>2. Backed(D, src, dst, t[i].record, P \cup LinesBefore(s, i + 1))
    BY <1>2, <2>1 DEF LinesBacked
  <2>3. ASSUME NEW j \in 1..((i + 1) - 1), s[j].type = "record"
        PROVE  HasKey((Q \cup LinesBefore(t, i)) \cup D[dst], Key(s[j].record))
    <3>1. CASE j = 1
      BY <1>1, <2>3, <3>1 DEF HasKey
    <3>2. CASE j # 1
      <4>1. j - 1 \in 1..(i - 1) /\ t[j - 1] = s[j]
        BY <1>1, <2>1, <3>2 DEF t
      <4>2. s[j].record \in LinesBefore(t, i)
        BY <2>3, <4>1 DEF LinesBefore
      <4> QED
        BY <4>2 DEF HasKey
    <3> QED
      BY <3>1, <3>2
  <2>4. KeysWithin(P \cup LinesBefore(s, i + 1), (Q \cup LinesBefore(t, i)) \cup D[dst])
    <3>1. \A x \in P : HasKey((Q \cup LinesBefore(t, i)) \cup D[dst], Key(x))
      BY DEF KeysWithin, HasKey
    <3> QED
      BY <2>3, <3>1 DEF KeysWithin, LinesBefore
  <2> QED
    BY <2>2, <2>4, BackedByMore
<1> QED
  BY <1>2 DEF LinesBacked, t

----------------------------------------------------------------------------
(* Rows in order.                                                          *)

\* An ordered query result has every row, and a row before those that come
\* after it.
LEMMA OrderedAll ==
  ASSUME NEW rows \in SUBSET Records, IsFiniteSet(rows), NEW q \in Ordered(rows)
  PROVE  /\ q \in Seq(Records) /\ Contents(q) = rows
         /\ \A i \in DOMAIN q : \A y \in rows : y.seq < q[i].seq => y \in RowsBefore(q, i)
<1> DEFINE k == Cardinality(rows)
<1>1. k \in Nat /\ q \in [1..k -> rows] /\ q \in Seq(Records)
  BY FS_CardinalityType, OrderedType DEF Ordered
<1>2. /\ \A i, j \in 1..k : i # j => q[i] # q[j]
      /\ \A i, j \in 1..k : i < j => q[i].seq <= q[j].seq
  BY DEF Ordered
<1>3. IsFiniteSet(1..k) /\ Cardinality(1..k) = k
  BY <1>1, FS_Interval
<1>4. q \in Injection(1..k, rows)
  BY <1>1, <1>2 DEF Injection, IsInjective
<1>5. q \in Surjection(1..k, rows)
  BY <1>3, <1>4, FS_Injection
<1>6. \A y \in rows : \E j \in 1..k : q[j] = y
  BY <1>5 DEF Surjection
<1>7. \A y \in rows : y.seq \in Nat
  BY DEF Records
<1> HIDE DEF k
<1>8. Contents(q) = rows
  BY <1>1, <1>6 DEF Contents
<1>9. ASSUME NEW i \in 1..k, NEW y \in rows, y.seq < q[i].seq
      PROVE  y \in RowsBefore(q, i)
  <2>1. PICK j \in 1..k : q[j] = y
    BY <1>6
  <2>2. q[i] \in rows /\ q[i].seq \in Nat /\ y.seq \in Nat
    BY <1>1, <1>7
  <2>3. ~(q[i].seq <= q[j].seq)
    BY <1>9, <2>1, <2>2
  <2>4. j \in 1..(i - 1)
    BY <1>1, <1>2, <2>2, <2>3
  <2> QED
    BY <2>1, <2>4 DEF RowsBefore
<1> QED
  BY <1>1, <1>8, <1>9

\* Lines made of records that are each behind all the owner's earlier ones.
LEMMA RecordLines ==
  ASSUME NEW D, NEW src, NEW dst, NEW P, NEW q \in Seq(Records),
         \A i \in DOMAIN q : Backed(D, src, dst, q[i], RowsBefore(q, i))
  PROVE  LinesBacked(D, src, dst, P, RecordMsgs(q))
<1> DEFINE ms == RecordMsgs(q)
<1>1. DOMAIN q = 1..Len(q) /\ Len(q) \in Nat /\ DOMAIN ms = DOMAIN q
  BY SeqTypes, RecordMsgsType
<1>2. \A i \in DOMAIN q : ms[i] = RecordMsg(q[i])
  BY RecordMsgsType
<1> HIDE DEF ms
<1>3. \A i \in DOMAIN q : ms[i].type = "record" /\ ms[i].record = q[i]
  <2>1. \A r : RecordMsg(r).type = "record" /\ RecordMsg(r).record = r
    BY DEF RecordMsg
  <2> QED
    BY <1>2, <2>1
<1>4. ASSUME NEW i \in DOMAIN q
      PROVE  Backed(D, src, dst, ms[i].record, P \cup LinesBefore(ms, i))
  <2>1. \A j \in 1..(i - 1) : j \in DOMAIN q
    BY <1>1
  <2>2. RowsBefore(q, i) = LinesBefore(ms, i)
    BY <1>3, <2>1 DEF RowsBefore, LinesBefore
  <2>3. KeysWithin(RowsBefore(q, i), (P \cup LinesBefore(ms, i)) \cup D[dst])
    BY <2>2 DEF KeysWithin, HasKey
  <2> QED
    BY <1>3, <2>3, BackedByMore
<1> QED
  BY <1>1, <1>4 DEF LinesBacked, ms

----------------------------------------------------------------------------
(* What a step does to the tables.                                         *)

\* A step before and after which no INSERT has thrown and no replay waits.
Quiet ==
  /\ Next /\ insertFaults = 0 /\ insertFaults' = 0
  /\ NoReplayWaits /\ NoReplayWaits'

\* A new record of n is stored at n.
NewRecord(n) == [owner |-> n, epoch |-> epoch, seq |-> seq[n] + 1]
Written(n) ==
  /\ NewRecord(n) \in Records /\ ~HasKey(db[n], Key(NewRecord(n)))
  /\ db' = [db EXCEPT ![n] = @ \cup {NewRecord(n)}]

\* Records of src that dst does not have are stored at dst, and all that their
\* owners wrote before them is there too.
Copied(src, dst) ==
  \E R \in SUBSET db[src] :
    /\ \A x \in R : ~HasKey(db[dst], Key(x)) /\ Ahead(db, x, db'[dst])
    /\ db' = [db EXCEPT ![dst] = @ \cup R]

\* processRecord for records that are backed by those before them.
LEMMA ProcessQuiet ==
  ASSUME Types, Quiet, NEW c \in Sockets, NEW q \in Seq(Records),
         RowsBacked(db, c[1], Peer[c[1]], q), NEW reply, Process(c, q, reply)
  PROVE  /\ Copied(c[1], Peer[c[1]])
         /\ \A i \in DOMAIN q : HasKey(db'[Peer[c[1]]], Key(q[i]))
<1> DEFINE n == Peer[c[1]]
           m == c[1]
<1>1. n \in Nodes /\ db \in [Nodes -> SUBSET Records] /\ db[n] \in SUBSET Records
  BY SocketType DEF Types, TypeOK
<1>2. PICK F \in SUBSET DOMAIN q :
        /\ Spend(Cardinality(F))
        /\ db' = [db EXCEPT ![n] = InsertAll(@, q, F)]
  BY DEF Process
<1>3. DOMAIN q = 1..Len(q) /\ Len(q) \in Nat
  BY SeqTypes
<1>4. F = {}
  <2>1. IsFiniteSet(DOMAIN q)
    BY <1>3, FS_Interval
  <2>2. IsFiniteSet(F) /\ Cardinality(F) \in Nat
    BY <2>1, FS_Subset, FS_CardinalityType
  <2>3. Cardinality(F) = 0
    BY <1>2, <2>2 DEF Spend, Quiet
  <2> QED
    BY <2>2, <2>3, FS_EmptySet
<1>5. db'[n] = InsertAll(db[n], q, {})
  BY <1>1, <1>2, <1>4
<1>6. \A i \in DOMAIN q : HasKey(db'[n], Key(q[i]))
  BY <1>1, <1>5, InsertAllStores
<1> DEFINE I == {i \in DOMAIN q : /\ ~HasKey(db[n], Key(q[i]))
                                  /\ \A j \in 1..(i - 1) : Key(q[j]) # Key(q[i])}
           R == {q[i] : i \in I}
<1>7. db'[n] = db[n] \cup R
  BY <1>5 DEF InsertAll
<1> HIDE DEF n, m
<1>8. ASSUME NEW i \in I
      PROVE  q[i] \in db[m] /\ ~HasKey(db[n], Key(q[i])) /\ Ahead(db, q[i], db'[n])
  <2>1. Backed(db, m, n, q[i], RowsBefore(q, i))
    BY DEF RowsBacked, m, n
  <2>2. ~HasKey(db[n], Key(q[i])) /\ ~HasKey(RowsBefore(q, i), Key(q[i]))
    BY DEF RowsBefore, HasKey
  <2>3. q[i] \in db[m]
    BY <2>1, <2>2 DEF Backed, HasKey
  <2>4. KeysWithin(RowsBefore(q, i) \cup db[n], db'[n])
    <3>1. \A j \in 1..(i - 1) : j \in DOMAIN q
      BY <1>3
    <3>2. \A j \in 1..(i - 1) : HasKey(db'[n], Key(q[j]))
      BY <1>6, <3>1
    <3>3. \A x \in db[n] : HasKey(db'[n], Key(x))
      BY <1>7 DEF HasKey
    <3> QED
      BY <3>2, <3>3 DEF KeysWithin, RowsBefore
  <2>5. Ahead(db, q[i], db'[n])
    BY <2>1, <2>4, KeysFollow DEF Backed, Ahead
  <2> QED
    BY <2>2, <2>3, <2>5
<1> HIDE DEF I
<1>9. R \in SUBSET db[m] /\ \A x \in R : ~HasKey(db[n], Key(x)) /\ Ahead(db, x, db'[n])
  BY <1>8
<1>10. db' = [db EXCEPT ![n] = @ \cup R]
  <2>1. db' = [db EXCEPT ![n] = db'[n]]
    BY <1>1, <1>2 DEF n
  <2> HIDE DEF R
  <2> QED
    BY <1>7, <2>1
<1> HIDE DEF R
<1>11. Copied(m, n)
  BY <1>9, <1>10 DEF Copied
<1> QED
  BY <1>6, <1>11 DEF m, n

\* A record the server takes while it is SYNCHRONIZED is backed on its own.
LEMMA HeadBacked ==
  ASSUME Types, Delivery, NEW c \in Sockets, ServerReceive(c), ServerRecord(c),
         srv[c] = "SYNCHRONIZED"
  PROVE  /\ <<Head(up[c]).record>> \in Seq(Records)
         /\ RowsBacked(db, c[1], Peer[c[1]], <<Head(up[c]).record>>)
<1> DEFINE r == Head(up[c]).record
           q == <<r>>
<1>1. up[c] # <<>> /\ up[c] \in Seq(Requests) /\ Head(up[c]).type = "record"
  BY DEF ServerReceive, ServerRecord, Types, TypeOK
<1>2. r \in Records
  BY <1>1, HeadTypes DEF Types
<1>3. q \in Seq(Records) /\ DOMAIN q = {1} /\ q[1] = r
  BY <1>2
<1>4. 1 \in DOMAIN up[c] /\ up[c][1] = Head(up[c])
  BY <1>1, EmptySeq, LenProperties
<1>5. Contents(queue[c]) = {} /\ LinesBefore(up[c], 1) = {} /\ RowsBefore(q, 1) = {}
  BY DEF Delivery, QueueEmptied, Contents, LinesBefore, RowsBefore
<1>6. Backed(db, c[1], Peer[c[1]], r, {} \cup {})
  BY <1>1, <1>4, <1>5 DEF Delivery, RequestsBacked, LinesBacked
<1> HIDE DEF r
<1>7. RowsBacked(db, c[1], Peer[c[1]], q)
  BY <1>3, <1>5, <1>6 DEF RowsBacked
<1> QED
  BY <1>3, <1>7 DEF r

\* A record pulled from the peer.
LEMMA PulledQuiet ==
  ASSUME Types, Delivery, Quiet, NEW c \in Sockets, ClientReceive(c), ClientRecord(c)
  PROVE  /\ Copied(Peer[c[1]], c[1])
         /\ HasKey(db'[c[1]], Key(Head(down[c]).record))
<1> DEFINE r == Head(down[c]).record
           n == c[1]
           p == Peer[c[1]]
<1>1. down[c] # <<>> /\ down[c] \in Seq(Replies) /\ Head(down[c]).type = "record"
  BY DEF ClientReceive, ClientRecord, Types, TypeOK
<1>2. 1 \in DOMAIN down[c] /\ down[c][1] = Head(down[c])
  BY <1>1, EmptySeq, LenProperties
<1>3. LinesBefore(down[c], 1) = {}
  BY DEF LinesBefore
<1>4. Backed(db, p, n, r, {} \cup {})
  BY <1>1, <1>2, <1>3 DEF Delivery, RepliesBacked, LinesBacked
<1>5. db' = [db EXCEPT ![n] = Insert(@, r)]
  BY DEF ClientRecord, Spend, Quiet
<1>6. n \in Nodes /\ p \in Nodes /\ db \in [Nodes -> SUBSET Records]
  BY SocketType DEF Types, TypeOK
<1> HIDE DEF r, n, p
<1>7. CASE HasKey(db[n], Key(r))
  <2>1. db' = [db EXCEPT ![n] = @ \cup {}] /\ db'[n] = db[n]
    BY <1>5, <1>6, <1>7 DEF Insert
  <2>2. Copied(p, n)
    BY <2>1 DEF Copied
  <2> QED
    BY <1>7, <2>1, <2>2 DEF r, n, p
<1>8. CASE ~HasKey(db[n], Key(r))
  <2>1. db' = [db EXCEPT ![n] = @ \cup {r}] /\ db'[n] = db[n] \cup {r}
    BY <1>5, <1>6, <1>8 DEF Insert
  <2>2. r \in db[p] /\ Ahead(db, r, db'[n])
    <3>1. KeysWithin(db[n], db'[n])
      BY <2>1 DEF KeysWithin, HasKey
    <3> QED
      BY <1>4, <1>8, <3>1, KeysFollow DEF Backed, Ahead
  <2>3. {r} \in SUBSET db[p] /\ \A x \in {r} : ~HasKey(db[n], Key(x)) /\ Ahead(db, x, db'[n])
    BY <1>8, <2>2
  <2>4. Copied(p, n)
    BY <2>1, <2>3 DEF Copied
  <2>5. HasKey(db'[n], Key(r))
    BY <2>1 DEF HasKey
  <2> QED
    BY <2>4, <2>5 DEF r, n, p
<1> QED
  BY <1>7, <1>8

\* write(): a row with the new key is there afterwards.
LEMMA WriteQuiet ==
  ASSUME Types, Quiet, NEW n \in Nodes, WriteRecord(n)
  PROVE  /\ NewRecord(n) \in Records /\ NewRecord(n).owner = n
         /\ Written(n) \/ UNCHANGED db
         /\ HasKey(db'[n], Key(NewRecord(n)))
         /\ seq' = [seq EXCEPT ![n] = @ + 1]
         /\ \/ /\ cstate[n] = "NORMAL_OPERATION" /\ cur[n] # NoSocket
               /\ up' = SentUp(up, cur[n], <<RecordMsg(NewRecord(n))>>)
            \/ /\ cstate[n] # "NORMAL_OPERATION" \/ cur[n] = NoSocket
               /\ UNCHANGED up
<1> DEFINE r == [owner |-> n, epoch |-> epoch, seq |-> seq[n] + 1]
<1>1. r \in Records /\ r.owner = n /\ r = NewRecord(n)
  BY BoundsAssumption DEF WriteRecord, Records, NewRecord, Types, TypeOK
<1>2. /\ db' = [db EXCEPT ![n] = Insert(@, r)]
      /\ seq' = [seq EXCEPT ![n] = @ + 1]
      /\ \/ /\ cstate[n] = "NORMAL_OPERATION" /\ cur[n] # NoSocket
            /\ up' = SentUp(up, cur[n], <<RecordMsg(r)>>)
         \/ /\ cstate[n] # "NORMAL_OPERATION" \/ cur[n] = NoSocket
            /\ UNCHANGED up
  BY DEF WriteRecord, Spend, Quiet
<1> HIDE DEF r
<1>3. db \in [Nodes -> SUBSET Records]
  BY DEF Types, TypeOK
<1>4. CASE HasKey(db[n], Key(r))
  <2>1. db' = db
    BY <1>2, <1>3, <1>4 DEF Insert
  <2> QED
    BY <1>1, <1>2, <1>4, <2>1
<1>5. CASE ~HasKey(db[n], Key(r))
  <2>1. db' = [db EXCEPT ![n] = @ \cup {r}] /\ db'[n] = db[n] \cup {r}
    BY <1>2, <1>3, <1>5 DEF Insert
  <2>2. HasKey(db'[n], Key(r))
    BY <2>1 DEF HasKey
  <2>3. Written(n)
    BY <1>1, <1>5, <2>1 DEF Written
  <2> QED
    BY <1>1, <1>2, <2>2, <2>3
<1> QED
  BY <1>4, <1>5

LEMMA TablesEffect ==
  ASSUME Types, Delivery, Quiet
  PROVE  \/ UNCHANGED db
         \/ \E n \in Nodes : Written(n)
         \/ \E m, n \in Nodes : Copied(m, n)
<1> DEFINE Goal == \/ UNCHANGED db
                   \/ \E n \in Nodes : Written(n)
                   \/ \E m, n \in Nodes : Copied(m, n)
<1>1. ASSUME NEW n \in Nodes, ClientNext(n)
      PROVE  Goal
  <2>1. CASE WriteRecord(n)
    BY <2>1, WriteQuiet
  <2>2. CASE ~WriteRecord(n)
    BY <1>1, <2>2 DEF ClientNext, Connect, Reconnect, Disconnect, ResumeReplay, AckTimeout, dbVars
  <2> QED
    BY <2>1, <2>2
<1>2. ASSUME NEW c \in Sockets, SocketNext(c)
      PROVE  Goal
  <2>1. c[1] \in Nodes /\ Peer[c[1]] \in Nodes
    BY SocketType
  <2>2. CASE ServerReceive(c)
    <3>1. CASE ServerHello(c)
      <4>1. queue[c] \in Seq(Records) /\ RowsBacked(db, c[1], Peer[c[1]], queue[c])
        BY DEF Types, TypeOK, Delivery, QueuesBacked
      <4> QED
        BY <2>1, <3>1, <4>1, ProcessQuiet DEF ServerHello
    <3>2. CASE ServerRecord(c) /\ srv[c] = "SYNCHRONIZED"
      <4>1. Process(c, <<Head(up[c]).record>>, <<>>)
        BY <3>2 DEF ServerRecord
      <4> QED
        BY <2>1, <2>2, <3>2, <4>1, HeadBacked, ProcessQuiet
    <3>3. CASE ServerRecord(c) /\ srv[c] # "SYNCHRONIZED"
      BY <3>3 DEF ServerRecord, dbVars
    <3>4. CASE ServerSyncRequest(c)
      BY <3>4 DEF ServerSyncRequest, dbVars
    <3> QED
      BY <2>2, <3>1, <3>2, <3>3, <3>4 DEF ServerReceive
  <2>3. CASE ClientReceive(c)
    <3>1. CASE ClientRecord(c)
      BY <2>1, <2>3, <3>1, PulledQuiet
    <3>2. CASE ~ClientRecord(c)
      BY <2>3, <3>2 DEF ClientReceive, ClientReady, ClientAck, dbVars
    <3> QED
      BY <3>1, <3>2
  <2>4. CASE Connected(c) \/ NetFault(c) \/ SocketClosed(c) \/ ServerClosed(c)
    BY <2>4 DEF Connected, NetFault, SocketClosed, ServerClosed, dbVars
  <2> QED
    BY <1>2, <2>2, <2>3, <2>4 DEF SocketNext
<1>3. Restart => Goal
  BY DEF Restart, dbVars
<1> QED
  BY <1>1, <1>2, <1>3 DEF Next, Quiet

\* What is copied is no record of the node it is copied to: that node has it.
LEMMA CopiesAreForeign ==
  ASSUME Types, Provenance, NEW m \in Nodes, NEW n \in Nodes,
         NEW R \in SUBSET db[m], \A x \in R : ~HasKey(db[n], Key(x))
  PROVE  \A x \in R : x.owner # n
BY DEF Provenance, TablesKept, Kept

\* The rows a node has of its own change only by its own write, which comes
\* after every record of that node there is a row for.
LEMMA OwnRows ==
  ASSUME Types, Provenance, Delivery, Quiet, NEW n \in Nodes,
         NEW x \in db'[n], x.owner = n
  PROVE  \/ x \in db[n]
         \/ /\ x = NewRecord(n) /\ Written(n)
            /\ \A i \in Nat : HasKey(db[n], <<n, i>>) => i <= seq[n]
<1> USE DEF Types, TypeOK
<1>1. CASE UNCHANGED db
  BY <1>1
<1>2. ASSUME NEW m \in Nodes, NEW k \in Nodes, Copied(m, k)
      PROVE  x \in db[n]
  <2>1. PICK R \in SUBSET db[m] : /\ \A y \in R : ~HasKey(db[k], Key(y))
                                  /\ db' = [db EXCEPT ![k] = @ \cup R]
    BY <1>2 DEF Copied
  <2>2. \A y \in R : y.owner # k
    BY <2>1, CopiesAreForeign
  <2> QED
    BY <2>1, <2>2
<1>3. ASSUME NEW m \in Nodes, Written(m), x \notin db[n]
      PROVE  m = n /\ x = NewRecord(n)
  BY <1>3 DEF Written, NewRecord
<1>4. ASSUME Written(n), NEW i \in Nat, HasKey(db[n], <<n, i>>)
      PROVE  i <= seq[n]
  <2>1. PICK r \in db[n] : Key(r) = <<n, i>>
    BY <1>4 DEF HasKey
  <2>2. r.owner = n /\ r.seq = i
    BY <2>1 DEF Key
  <2>3. Key(NewRecord(n)) = <<n, seq[n] + 1>> /\ seq[n] \in Nat
    BY DEF Key, NewRecord
  <2>4. \A j \in 1..i : HasKey(db[n], <<n, j>>)
    BY <2>2 DEF Delivery, Contiguous
  <2>5. seq[n] + 1 \notin 1..i
    BY <1>4, <2>3, <2>4 DEF Written
  <2> QED
    BY <2>3, <2>5
<1> QED
  BY <1>1, <1>2, <1>3, <1>4, TablesEffect

\* Nothing is written that comes before a record there is a row for.
LEMMA NothingBefore ==
  ASSUME Types, Provenance, Delivery, Quiet, NEW r \in Records, Kept(db, r),
         NEW x \in db'[r.owner], x.owner = r.owner, x.seq < r.seq
  PROVE  x \in db[r.owner]
<1>1. r.owner \in Nodes /\ r.seq \in Nat
  BY NodesAssumption DEF Records
<1>2. HasKey(db[r.owner], <<r.owner, r.seq>>)
  BY DEF Kept, Key
<1>3. CASE x \notin db[r.owner]
  <2>1. x = NewRecord(r.owner) /\ r.seq <= seq[r.owner]
    BY <1>1, <1>2, <1>3, OwnRows
  <2>2. x.seq = seq[r.owner] + 1 /\ seq[r.owner] \in Nat
    BY <1>1, <2>1 DEF NewRecord, Types, TypeOK
  <2> QED
    BY <1>1, <2>1, <2>2
<1> QED
  BY <1>3

LEMMA BackedAfter ==
  ASSUME Types, Provenance, Delivery, Quiet, NEW src \in Nodes, NEW dst \in Nodes,
         NEW r \in Records, Kept(db, r), NEW P, Backed(db, src, dst, r, P)
  PROVE  Backed(db', src, dst, r, P)
<1>1. db[src] \subseteq db'[src] /\ db[dst] \subseteq db'[dst]
  BY DbGrows DEF Quiet
<1>2. KeysWithin(P \cup db[dst], P \cup db'[dst])
  BY <1>1 DEF KeysWithin, HasKey
<1>3. \A x \in db'[r.owner] : x.owner = r.owner /\ x.seq < r.seq => x \in db[r.owner]
  BY NothingBefore
<1> QED
  BY <1>1, <1>2, <1>3, BackedStays

\* What was there is backed with respect to the tables after the step too.
LEMMA StillBacked ==
  ASSUME Types, Provenance, Delivery, Quiet
  PROVE  QueuesBacked(db') /\ RequestsBacked(db') /\ RepliesBacked(db')
<1>1. QueuesBacked(db')
  <2>1. ASSUME NEW c \in Sockets, NEW i \in DOMAIN queue[c]
        PROVE  Backed(db', c[1], Peer[c[1]], queue[c][i], RowsBefore(queue[c], i))
    <3>1. queue[c] \in Seq(Records)
      BY DEF Types, TypeOK
    <3>2. queue[c][i] \in Records /\ queue[c][i] \in Contents(queue[c])
      BY <3>1, SeqTypes DEF Contents
    <3>3. Kept(db, queue[c][i])
      BY <3>2 DEF Provenance, QueuesOwn, From
    <3>4. Backed(db, c[1], Peer[c[1]], queue[c][i], RowsBefore(queue[c], i))
      BY DEF Delivery, QueuesBacked, RowsBacked
    <3> QED
      BY <3>2, <3>3, <3>4, SocketType, BackedAfter
  <2> QED
    BY <2>1 DEF QueuesBacked, RowsBacked
<1>2. RequestsBacked(db')
  <2>1. ASSUME NEW c \in Sockets, NEW i \in DOMAIN up[c], up[c][i].type = "record"
        PROVE  Backed(db', c[1], Peer[c[1]], up[c][i].record,
                      Contents(queue[c]) \cup LinesBefore(up[c], i))
    <3>1. up[c] \in Seq(Requests)
      BY DEF Types, TypeOK
    <3>2. up[c][i] \in Requests /\ up[c][i] \in Contents(up[c])
      BY <3>1, SeqTypes DEF Contents
    <3>3. up[c][i].record \in Records
      BY <2>1, <3>2 DEF Requests, RecordMsgSet, Hello, SyncRequest
    <3>4. Kept(db, up[c][i].record)
      BY <2>1, <3>2 DEF Provenance, RequestsOwn, LinesFrom
    <3>5. Backed(db, c[1], Peer[c[1]], up[c][i].record,
                 Contents(queue[c]) \cup LinesBefore(up[c], i))
      BY <2>1 DEF Delivery, RequestsBacked, LinesBacked
    <3> QED
      BY <3>3, <3>4, <3>5, SocketType, BackedAfter
  <2> QED
    BY <2>1 DEF RequestsBacked, LinesBacked
<1>3. RepliesBacked(db')
  <2>1. ASSUME NEW c \in Sockets, NEW i \in DOMAIN down[c], down[c][i].type = "record"
        PROVE  Backed(db', Peer[c[1]], c[1], down[c][i].record,
                      {} \cup LinesBefore(down[c], i))
    <3>1. down[c] \in Seq(Replies)
      BY DEF Types, TypeOK
    <3>2. down[c][i] \in Replies /\ down[c][i] \in Contents(down[c])
      BY <3>1, SeqTypes DEF Contents
    <3>3. down[c][i].record \in Records
      BY <2>1, <3>2 DEF Replies, RecordMsgSet, Ready
    <3>4. Kept(db, down[c][i].record)
      BY <2>1, <3>2 DEF Provenance, RepliesKept, LinesKept
    <3>5. Backed(db, Peer[c[1]], c[1], down[c][i].record, {} \cup LinesBefore(down[c], i))
      BY <2>1 DEF Delivery, RepliesBacked, LinesBacked
    <3> QED
      BY <3>3, <3>4, <3>5, SocketType, BackedAfter
  <2> QED
    BY <2>1 DEF RepliesBacked, LinesBacked
<1> QED
  BY <1>1, <1>2, <1>3

\* A counter goes back to 0, stays, or has counted a row that is there.
LEMMA CounterEffect ==
  ASSUME Types, Quiet, NEW n \in Nodes
  PROVE  \/ seq'[n] \in {0, seq[n]}
         \/ seq'[n] = seq[n] + 1 /\ HasKey(db'[n], <<n, seq[n] + 1>>)
<1> USE DEF Types, TypeOK
<1>1. ASSUME NEW m \in Nodes, ClientNext(m)
      PROVE  \/ seq'[n] = seq[n]
             \/ seq'[n] = seq[n] + 1 /\ HasKey(db'[n], <<n, seq[n] + 1>>)
  <2>1. CASE WriteRecord(m)
    <3>1. seq' = [seq EXCEPT ![m] = @ + 1] /\ HasKey(db'[m], Key(NewRecord(m)))
      BY <2>1, WriteQuiet
    <3>2. Key(NewRecord(m)) = <<m, seq[m] + 1>>
      BY DEF Key, NewRecord
    <3> QED
      BY <3>1, <3>2
  <2>2. CASE ~WriteRecord(m)
    BY <1>1, <2>2 DEF ClientNext, Connect, Reconnect, Disconnect, ResumeReplay, AckTimeout,
                      harnessVars
  <2> QED
    BY <2>1, <2>2
<1>2. ASSUME NEW c \in Sockets, SocketNext(c)
      PROVE  seq'[n] = seq[n]
  BY <1>2 DEF SocketNext, Connected, NetFault, SocketClosed, ClientReceive, ServerReceive,
              ServerClosed, harnessVars
<1>3. Restart => seq'[n] = 0
  BY DEF Restart, All
<1> QED
  BY <1>1, <1>2, <1>3 DEF Next, Quiet

\* The tables are still in order.
LEMMA TablesAfter ==
  ASSUME Types, Provenance, Delivery, Quiet
  PROVE  OneMeaning(db)' /\ GapFree(db)' /\ Contiguous(db)'
<1>1. \A n \in Nodes : db[n] \subseteq db'[n] /\ db[n] \in SUBSET Records
  BY DbGrows DEF Quiet, Types, TypeOK
<1>2. db \in [Nodes -> SUBSET Records]
  BY DEF Types, TypeOK
<1>3. OneMeaning(db) /\ GapFree(db) /\ Contiguous(db) /\ TablesKept(db)
  BY DEF Delivery, Provenance
<1>4. OneMeaning(db)'
  <2>1. CASE UNCHANGED db
    BY <1>3, <2>1 DEF OneMeaning
  <2>2. ASSUME NEW n \in Nodes, Written(n)
        PROVE  OneMeaning(db)'
    <3> DEFINE r == NewRecord(n)
    <3>1. r.owner = n
      BY DEF NewRecord
    <3> HIDE DEF r
    <3>2. ASSUME NEW m \in Nodes, NEW y \in db[m], Key(y) = Key(r)
          PROVE  FALSE
      <4>1. y.owner = n
        BY <3>1, <3>2 DEF Key
      <4>2. HasKey(db[n], Key(r))
        BY <1>3, <3>2, <4>1 DEF TablesKept, Kept
      <4> QED
        BY <2>2, <4>2 DEF Written, r
    <3>3. \A m \in Nodes : db'[m] \subseteq db[m] \cup {r}
      BY <1>2, <2>2 DEF Written, r
    <3> QED
      BY <1>3, <3>2, <3>3 DEF OneMeaning
  <2>3. ASSUME NEW m \in Nodes, NEW n \in Nodes, Copied(m, n)
        PROVE  OneMeaning(db)'
    <3>1. PICK R \in SUBSET db[m] : db' = [db EXCEPT ![n] = @ \cup R]
      BY <2>3 DEF Copied
    <3>2. \A k \in Nodes : db'[k] \subseteq db[k] \cup db[m]
      BY <1>2, <3>1
    <3> QED
      BY <1>3, <3>2 DEF OneMeaning
  <2> QED
    BY <2>1, <2>2, <2>3, TablesEffect
<1>5. GapFree(db)'
  <2>1. ASSUME NEW m \in Nodes, NEW r \in db[m]
        PROVE  Ahead(db', r, db'[m])
    <3>1. r \in Records /\ Kept(db, r) /\ Ahead(db, r, db[m])
      BY <1>1, <1>3, <2>1 DEF GapFree, TablesKept
    <3>2. KeysWithin(db[m], db'[m])
      BY <1>1 DEF KeysWithin, HasKey
    <3> QED
      BY <3>1, <3>2, NothingBefore, KeysFollow DEF Ahead
  <2>2. ASSUME NEW m \in Nodes, NEW r \in db'[m], r \notin db[m]
        PROVE  Ahead(db', r, db'[m])
    <3>1. CASE \E n \in Nodes : Written(n)
      <4>1. PICK n \in Nodes : Written(n)
        BY <3>1
      <4>2. m = n /\ r = NewRecord(n)
        BY <1>2, <2>2, <4>1 DEF Written
      <4>3. r.owner = m
        BY <4>2 DEF NewRecord
      <4> QED
        BY <4>3 DEF Ahead, HasKey
    <3>2. CASE \E k, n \in Nodes : Copied(k, n)
      <4>1. PICK k \in Nodes, n \in Nodes : Copied(k, n)
        BY <3>2
      <4>2. PICK R \in SUBSET db[k] : /\ \A x \in R : Ahead(db, x, db'[n])
                                      /\ db' = [db EXCEPT ![n] = @ \cup R]
        BY <4>1 DEF Copied
      <4>3. m = n /\ r \in R
        BY <1>2, <2>2, <4>2
      <4>4. r \in Records /\ Kept(db, r) /\ Ahead(db, r, db'[m])
        BY <1>1, <1>3, <4>2, <4>3 DEF TablesKept
      <4> QED
        BY <4>4, NothingBefore DEF Ahead
    <3> QED
      BY <2>2, <3>1, <3>2, TablesEffect
  <2> QED
    BY <2>1, <2>2 DEF GapFree
<1>6. Contiguous(db)'
  <2>1. ASSUME NEW n \in Nodes, NEW i, HasKey(db[n], <<n, i>>)
        PROVE  HasKey(db'[n], <<n, i>>)
    BY <1>1, <2>1 DEF HasKey
  <2>2. \A n \in Nodes : seq[n] \in Nat
    BY DEF Types, TypeOK
  <2>3. ASSUME NEW n \in Nodes, NEW r \in db'[n], r.owner = n, NEW i \in 1..r.seq
        PROVE  HasKey(db'[n], <<n, i>>)
    <3>1. CASE r \in db[n]
      BY <1>3, <2>1, <2>3, <3>1 DEF Contiguous
    <3>2. CASE r = NewRecord(n)
      <4>1. r.seq = seq[n] + 1 /\ Key(r) = <<n, seq[n] + 1>>
        BY <3>2 DEF NewRecord, Key
      <4>2. i = seq[n] + 1 => HasKey(db'[n], <<n, i>>)
        BY <2>3, <4>1 DEF HasKey
      <4>3. i \in 1..seq[n] => HasKey(db'[n], <<n, i>>)
        BY <1>3, <2>1 DEF Contiguous
      <4>4. i = seq[n] + 1 \/ i \in 1..seq[n]
        BY <2>2, <2>3, <4>1
      <4> QED
        BY <4>2, <4>3, <4>4
    <3> QED
      BY <2>3, <3>1, <3>2, OwnRows
  <2>4. ASSUME NEW n \in Nodes, NEW i \in 1..seq'[n]
        PROVE  HasKey(db'[n], <<n, i>>)
    <3>1. \/ i \in 1..seq[n]
          \/ i = seq[n] + 1 /\ HasKey(db'[n], <<n, seq[n] + 1>>)
      BY <2>2, <2>4, CounterEffect
    <3> QED
      BY <1>3, <2>1, <3>1 DEF Contiguous
  <2> QED
    BY <2>3, <2>4 DEF Contiguous
<1> QED
  BY <1>4, <1>5, <1>6

----------------------------------------------------------------------------
(* What a step does to the channels.                                       *)

\* Nothing is backed by nothing, and nothing needs backing among no lines.
LEMMA NoLines ==
  ASSUME NEW D, NEW src, NEW dst, NEW P
  PROVE  LinesBacked(D, src, dst, P, <<>>) /\ RowsBacked(D, src, dst, <<>>)
BY DEF LinesBacked, RowsBacked

\* Lines without records need no backing.
LEMMA PlainLines ==
  ASSUME NEW D, NEW src, NEW dst, NEW P, NEW ms, \A m \in Contents(ms) : m.type # "record"
  PROVE  LinesBacked(D, src, dst, P, ms)
BY DEF LinesBacked, Contents

LEMMA MoreAhead ==
  ASSUME NEW D, NEW src, NEW dst, NEW P, NEW Q, NEW ms,
         LinesBacked(D, src, dst, P, ms), P \subseteq Q
  PROVE  LinesBacked(D, src, dst, Q, ms)
<1>1. ASSUME NEW i \in DOMAIN ms, ms[i].type = "record"
      PROVE  Backed(D, src, dst, ms[i].record, Q \cup LinesBefore(ms, i))
  <2>1. Backed(D, src, dst, ms[i].record, P \cup LinesBefore(ms, i))
    BY <1>1 DEF LinesBacked
  <2>2. KeysWithin(P \cup LinesBefore(ms, i), (Q \cup LinesBefore(ms, i)) \cup D[dst])
    BY DEF KeysWithin, HasKey
  <2> QED
    BY <2>1, <2>2, BackedByMore
<1> QED
  BY <1>1 DEF LinesBacked

\* socket.write, on a socket of client n.
LEMMA SentUpBacked ==
  ASSUME Types, RequestsBacked(db'), NEW n \in Nodes, NEW c \in Sockets \cup {NoSocket},
         c # NoSocket => c[1] = n, NEW ms \in Seq(Requests),
         Deliverable(c) => LinesBacked(db', n, Peer[n], UnderWay(c), ms),
         up' = SentUp(up, c, ms), UNCHANGED queue
  PROVE  RequestsBacked(db)'
<1>1. up \in [Sockets -> Seq(Requests)]
  BY DEF Types, TypeOK
<1>2. CASE up' = up
  BY <1>2 DEF RequestsBacked
<1>3. CASE Deliverable(c) /\ up' = [up EXCEPT ![c] = @ \o ms]
  <2>1. c \in Sockets /\ c[1] = n
    BY <1>3 DEF Deliverable
  <2>2. UnderWay(c) = Contents(queue[c]) \cup Carried(up[c])
    BY DEF UnderWay, Carried
  <2>3. /\ LinesBacked(db', n, Peer[n], Contents(queue[c]), up[c])
        /\ LinesBacked(db', n, Peer[n], Contents(queue[c]) \cup Carried(up[c]), ms)
    BY <1>3, <2>1, <2>2 DEF RequestsBacked
  <2>4. LinesBacked(db', n, Peer[n], Contents(queue[c]), up[c] \o ms)
    BY <1>1, <2>1, <2>3, LinesBehind
  <2> QED
    BY <1>1, <1>3, <2>1, <2>4 DEF RequestsBacked
<1> QED
  BY <1>2, <1>3 DEF SentUp

\* The lines waiting for one socket, and its queue, are lost.
LEMMA LostUpBacked ==
  ASSUME Types, RequestsBacked(db'), QueuesBacked(db'), NEW c \in Sockets,
         up' = [up EXCEPT ![c] = <<>>],
         UNCHANGED queue \/ queue' = [queue EXCEPT ![c] = <<>>]
  PROVE  RequestsBacked(db)' /\ QueuesBacked(db)'
<1>1. up \in [Sockets -> Seq(Requests)] /\ queue \in [Sockets -> Seq(Records)]
  BY DEF Types, TypeOK
<1>2. ASSUME NEW d \in Sockets
      PROVE  /\ LinesBacked(db', d[1], Peer[d[1]], Contents(queue'[d]), up'[d])
             /\ RowsBacked(db', d[1], Peer[d[1]], queue'[d])
  BY <1>1, NoLines DEF RequestsBacked, QueuesBacked
<1> QED
  BY <1>2 DEF RequestsBacked, QueuesBacked

\* What the server writes to a socket.
LEMMA SentDownBacked ==
  ASSUME Types, RepliesBacked(db'), NEW c \in Sockets, NEW ms \in Seq(Replies),
         LinesBacked(db', Peer[c[1]], c[1], {}, ms), down' = SentDown(down, c, ms)
  PROVE  RepliesBacked(db)'
<1>1. down \in [Sockets -> Seq(Replies)]
  BY DEF Types, TypeOK
<1>2. CASE down' = down
  BY <1>2 DEF RepliesBacked
<1>3. CASE down' = [down EXCEPT ![c] = @ \o ms]
  <2>1. /\ LinesBacked(db', Peer[c[1]], c[1], {}, down[c])
        /\ LinesBacked(db', Peer[c[1]], c[1], {} \cup Carried(down[c]), ms)
    BY MoreAhead DEF RepliesBacked
  <2>2. LinesBacked(db', Peer[c[1]], c[1], {}, down[c] \o ms)
    BY <1>1, <2>1, LinesBehind
  <2> QED
    BY <1>1, <1>3, <2>2 DEF RepliesBacked
<1> QED
  BY <1>2, <1>3 DEF SentDown

LEMMA LostDownBacked ==
  ASSUME Types, RepliesBacked(db'), NEW c \in Sockets, down' = [down EXCEPT ![c] = <<>>]
  PROVE  RepliesBacked(db)'
<1>1. down \in [Sockets -> Seq(Replies)]
  BY DEF Types, TypeOK
<1>2. ASSUME NEW d \in Sockets
      PROVE  LinesBacked(db', Peer[d[1]], d[1], {}, down'[d])
  BY <1>1, NoLines DEF RepliesBacked
<1> QED
  BY <1>2 DEF RepliesBacked

\* The parts of Delivery that a step leaves alone.
LEMMA UnmovedBacked ==
  ASSUME Types, Provenance, Delivery, Quiet
  PROVE  /\ UNCHANGED queue => QueuesBacked(db)'
         /\ UNCHANGED <<up, queue>> => RequestsBacked(db)'
         /\ UNCHANGED down => RepliesBacked(db)'
         /\ UNCHANGED <<srv, queue>> => QueueEmptied'
<1>1. UNCHANGED queue => QueuesBacked(db)'
  BY StillBacked DEF QueuesBacked
<1>2. UNCHANGED <<up, queue>> => RequestsBacked(db)'
  BY StillBacked DEF RequestsBacked
<1>3. UNCHANGED down => RepliesBacked(db)'
  BY StillBacked DEF RepliesBacked
<1>4. UNCHANGED <<srv, queue>> => QueueEmptied'
  BY DEF Delivery, QueueEmptied
<1> QED
  BY <1>1, <1>2, <1>3, <1>4

----------------------------------------------------------------------------
(* Nothing left behind.                                                    *)

\* NothingLeftBehind, for one node.
AllSent(n) == \A r \in Own(n) : HasKey(UnderWay(cur[n]) \cup db[Peer[n]], Key(r))
Left(n)    == cstate[n] = "NORMAL_OPERATION" /\ Deliverable(cur[n]) => AllSent(n)

LEMMA LeftIs == NothingLeftBehind <=> \A n \in Nodes : Left(n)
BY DEF NothingLeftBehind, Left, AllSent, HasKey

LEMMA LeftIsNext == NothingLeftBehind' <=> (\A n \in Nodes : Left(n))'
BY LeftIs, PTL

\* n has the rows of its own that it had.
OwnSame(n) == \A x \in db'[n] : x.owner = n => x \in db[n]

LEMMA OwnIsSame ==
  ASSUME Types, Provenance, NEW n \in Nodes,
         UNCHANGED db \/ \E m, k \in Nodes : Copied(m, k)
  PROVE  OwnSame(n)
<1>1. ASSUME NEW m \in Nodes, NEW k \in Nodes, Copied(m, k)
      PROVE  OwnSame(n)
  <2>1. PICK R \in SUBSET db[m] : /\ \A y \in R : ~HasKey(db[k], Key(y))
                                  /\ db' = [db EXCEPT ![k] = @ \cup R]
    BY <1>1 DEF Copied
  <2>2. \A y \in R : y.owner # k
    BY <2>1, CopiesAreForeign
  <2> QED
    BY <2>1, <2>2 DEF OwnSame, Types, TypeOK
<1> QED
  BY <1>1 DEF OwnSame

LEMMA LeftStays ==
  ASSUME Types, Delivery, Quiet, NEW n \in Nodes, OwnSame(n),
         (cstate[n] = "NORMAL_OPERATION" /\ Deliverable(cur[n]))' =>
           /\ cstate[n] = "NORMAL_OPERATION" /\ Deliverable(cur[n])
           /\ KeysWithin(UnderWay(cur[n]), UnderWay(cur[n])' \cup db'[Peer[n]])
  PROVE  Left(n)'
<1> SUFFICES ASSUME (cstate[n] = "NORMAL_OPERATION" /\ Deliverable(cur[n]))'
             PROVE  AllSent(n)'
  BY DEF Left
<1>1. AllSent(n)
  BY LeftIs DEF Delivery, Left
<1>2. Own(n)' \subseteq Own(n)
  BY DEF OwnSame, Own
<1>3. db[Peer[n]] \subseteq db'[Peer[n]]
  BY NodesAssumption, DbGrows DEF Quiet
<1>4. KeysWithin(UnderWay(cur[n]) \cup db[Peer[n]], UnderWay(cur[n])' \cup db'[Peer[n]])
  BY <1>3 DEF KeysWithin, HasKey
<1>5. \A r \in Own(n) : HasKey(UnderWay(cur[n])' \cup db'[Peer[n]], Key(r))
  BY <1>1, <1>4, KeysFollow DEF AllSent
<1> QED
  BY <1>2, <1>5 DEF AllSent

\* Nothing happens to the client n, nor to its sockets.
LEMMA LeftElsewhere ==
  ASSUME Types, Provenance, Delivery, Quiet, NEW n \in Nodes, OwnSame(n),
         cstate'[n] = cstate[n], cur'[n] = cur[n],
         \A c \in Sockets : c[1] = n =>
           link'[c] = link[c] /\ up'[c] = up[c] /\ queue'[c] = queue[c]
  PROVE  Left(n)'
<1>1. Deliverable(cur[n])' =>
        /\ Deliverable(cur[n])
        /\ KeysWithin(UnderWay(cur[n]), UnderWay(cur[n])' \cup db'[Peer[n]])
  <2> SUFFICES ASSUME Deliverable(cur[n])'
               PROVE  /\ Deliverable(cur[n])
                      /\ KeysWithin(UnderWay(cur[n]), UnderWay(cur[n])' \cup db'[Peer[n]])
    OBVIOUS
  <2>1. cur[n] # NoSocket /\ cur[n] \in Sockets /\ cur[n][1] = n
    BY DEF Deliverable, Provenance, CurrentOwn, Types, TypeOK
  <2>2. Deliverable(cur[n])
    BY <2>1 DEF Deliverable
  <2>3. UnderWay(cur[n])' = UnderWay(cur[n])
    BY <2>1 DEF UnderWay
  <2> QED
    BY <2>2, <2>3 DEF KeysWithin, HasKey
<1> QED
  BY <1>1, LeftStays

\* What socket.write adds to what is under way.
LEMMA SentUnderWay ==
  ASSUME Types, NEW c \in Sockets, NEW ms \in Seq(Requests),
         up' = [up EXCEPT ![c] = @ \o ms], UNCHANGED queue
  PROVE  UnderWay(c)' = UnderWay(c) \cup Carried(ms)
<1>1. up \in [Sockets -> Seq(Requests)] /\ up[c] \in Seq(Requests)
  BY DEF Types, TypeOK
<1> DEFINE s == up[c]
           u == up[c] \o ms
<1>2. /\ Len(s) \in Nat /\ Len(ms) \in Nat /\ DOMAIN s = 1..Len(s)
      /\ DOMAIN ms = 1..Len(ms) /\ DOMAIN u = 1..Len(u) /\ Len(u) = Len(s) + Len(ms)
  BY <1>1, ConcatProperties, LenProperties
<1>3. /\ \A i \in 1..Len(s) : u[i] = s[i]
      /\ \A i \in 1..Len(ms) : u[Len(s) + i] = ms[i]
  BY <1>1, <1>2, ConcatProperties
<1> HIDE DEF u
<1>4. Contents(s) \subseteq Contents(u)
  BY <1>2, <1>3 DEF Contents
<1>5. Contents(ms) \subseteq Contents(u)
  <2>1. \A i \in 1..Len(ms) : Len(s) + i \in DOMAIN u
    BY <1>2
  <2> QED
    BY <1>2, <1>3, <2>1 DEF Contents
<1>6. Contents(u) = Contents(s) \cup Contents(ms)
  <2>1. Contents(u) \subseteq Contents(s) \cup Contents(ms)
    BY <1>1, ContentsParts DEF u
  <2> QED
    BY <1>4, <1>5, <2>1
<1>7. up'[c] = u /\ queue'[c] = queue[c]
  BY <1>1 DEF u
<1> QED
  BY <1>6, <1>7 DEF UnderWay, Carried

\* A replay that does not wait sends all the rows it is given.
LEMMA ReplayDelivers ==
  ASSUME Types, Provenance, Delivery, Quiet, NEW n \in Nodes,
         NEW s, NEW path, NEW rows \in Ordered(Own(n)), RunReplay(n, s, rows, path),
         UNCHANGED <<db, queue, cur, link>>
  PROVE  RequestsBacked(db)' /\ \A k \in Nodes : Left(k)'
<1> DEFINE ms == RecordMsgs(rows) \o <<SyncRequest>>
<1>1. /\ cur \in [Nodes -> Sockets \cup {NoSocket}] /\ cstate \in [Nodes -> ClientStates]
      /\ up \in [Sockets -> Seq(Requests)] /\ suspended \in [Nodes -> SUBSET
           [slot : 1..MaxReplays, rest : Seq(Records)]]
  BY DEF Types, TypeOK
<1>2. \A k \in Nodes : cur[k] # NoSocket => cur[k] \in Sockets /\ cur[k][1] = k
  BY <1>1 DEF Provenance, CurrentOwn
<1>3. /\ up' = SentUp(up, cur[n], ms)
      /\ \E full : Transition(n, full)
  <2>1. suspended'[n] = {}
    BY DEF Quiet, NoReplayWaits
  <2> HIDE DEF ms
  <2> QED
    BY <1>1, <2>1 DEF RunReplay, ms
<1>4. \A k \in Nodes : k # n => cstate'[k] = cstate[k]
  BY <1>1, <1>3 DEF Transition
<1>5. Own(n) \in SUBSET Records /\ IsFiniteSet(Own(n)) /\ Own(n) \subseteq db[n]
  BY FS_Subset DEF Own, Types, TypeOK
<1>6. /\ rows \in Seq(Records) /\ Contents(rows) = Own(n)
      /\ \A i \in DOMAIN rows : \A y \in Own(n) :
           y.seq < rows[i].seq => y \in RowsBefore(rows, i)
  BY <1>5, OrderedAll
<1>7. /\ RecordMsgs(rows) \in Seq(Requests) /\ <<SyncRequest>> \in Seq(Requests)
      /\ ms \in Seq(Requests)
  <2>1. RecordMsgs(rows) \in Seq(Requests) /\ <<SyncRequest>> \in Seq(Requests)
    BY <1>6, RecordMsgsType, SeqMonotonic DEF Requests
  <2> QED
    BY <2>1, SeqTypes
<1>8. LinesBacked(db', n, Peer[n], UnderWay(cur[n]), ms)
  <2>1. ASSUME NEW i \in DOMAIN rows
        PROVE  Backed(db', n, Peer[n], rows[i], RowsBefore(rows, i))
    <3>1. rows[i] \in Own(n)
      BY <1>6 DEF Contents
    <3>2. rows[i].owner = n /\ rows[i] \in db'[n]
      BY <1>5, <3>1 DEF Own
    <3>3. \A y \in db'[n] : y.owner = n /\ y.seq < rows[i].seq => y \in RowsBefore(rows, i)
      BY <1>6 DEF Own
    <3> QED
      BY <3>2, <3>3 DEF Backed, Ahead, HasKey
  <2>2. LinesBacked(db', n, Peer[n], UnderWay(cur[n]), RecordMsgs(rows))
    BY <1>6, <2>1, RecordLines
  <2>3. \A m \in Contents(<<SyncRequest>>) : m.type # "record"
    BY DEF Contents, SyncRequest
  <2>4. LinesBacked(db', n, Peer[n], UnderWay(cur[n]) \cup Carried(RecordMsgs(rows)),
                    <<SyncRequest>>)
    BY <2>3, PlainLines
  <2> QED
    BY <1>7, <2>2, <2>4, LinesBehind
<1>9. Own(n) \subseteq Carried(ms)
  <2> DEFINE rs == RecordMsgs(rows)
  <2>1. DOMAIN rows = 1..Len(rows) /\ Len(rows) \in Nat /\ DOMAIN rs = DOMAIN rows
    BY <1>6, SeqTypes, RecordMsgsType
  <2>2. \A i \in DOMAIN rows : rs[i] = RecordMsg(rows[i])
    BY <1>6, RecordMsgsType
  <2>3. Len(rs) = Len(rows)
    BY <1>7, <2>1, LenProperties
  <2>4. Len(ms) = Len(rs) + 1 /\ DOMAIN ms = 1..Len(ms) /\ \A i \in 1..Len(rs) : ms[i] = rs[i]
    BY <1>7, <2>1, <2>3, ConcatProperties, LenProperties
  <2> HIDE DEF ms, rs
  <2>5. ASSUME NEW r \in Own(n)
        PROVE  r \in Carried(ms)
    <3>1. PICK i \in DOMAIN rows : rows[i] = r
      BY <1>6 DEF Contents
    <3>2. i \in DOMAIN ms /\ ms[i] = RecordMsg(r)
      BY <2>1, <2>2, <2>3, <2>4, <3>1
    <3>3. ms[i].type = "record" /\ ms[i].record = r
      BY <3>2 DEF RecordMsg
    <3> QED
      BY <3>2, <3>3 DEF Carried, Contents
  <2> QED
    BY <2>5
<1> HIDE DEF ms
<1>10. RequestsBacked(db)'
  BY <1>1, <1>2, <1>3, <1>7, <1>8, StillBacked, SentUpBacked
<1>11. ASSUME NEW k \in Nodes, k # n
       PROVE  Left(k)'
  <2>1. OwnSame(k)
    BY DEF OwnSame
  <2>2. \A c \in Sockets : c[1] = k => up'[c] = up[c]
    BY <1>1, <1>2, <1>3, <1>11 DEF SentUp, Deliverable
  <2> QED
    BY <1>4, <1>11, <2>1, <2>2, LeftElsewhere
<1>12. Left(n)'
  <2> SUFFICES ASSUME Deliverable(cur[n])' PROVE AllSent(n)'
    BY DEF Left
  <2>1. cur[n] \in Sockets /\ Deliverable(cur[n])
    BY <1>1 DEF Deliverable
  <2>2. up' = [up EXCEPT ![cur[n]] = @ \o ms]
    BY <1>3, <2>1 DEF SentUp
  <2>3. UnderWay(cur[n])' = UnderWay(cur[n]) \cup Carried(ms)
    <3>1. \A c \in Sockets : c = cur[n] => UnderWay(c)' = UnderWay(c) \cup Carried(ms)
      BY <1>7, <2>2, SentUnderWay
    <3> QED
      BY <2>1, <3>1 DEF UnderWay
  <2>4. Own(n)' = Own(n)
    BY DEF Own
  <2> QED
    BY <1>9, <2>3, <2>4 DEF AllSent, HasKey
<1> QED
  BY <1>10, <1>11, <1>12

----------------------------------------------------------------------------
(* Every step keeps what is on its way in order.                           *)

Flow == /\ QueuesBacked(db) /\ RequestsBacked(db) /\ RepliesBacked(db)
        /\ QueueEmptied /\ \A n \in Nodes : Left(n)

\* write(): the new record comes after all that its owner has under way.
LEMMA WriteDelivers ==
  ASSUME Types, Provenance, Delivery, Quiet, NEW n \in Nodes, WriteRecord(n)
  PROVE  RequestsBacked(db)' /\ \A k \in Nodes : Left(k)'
<1> DEFINE r == NewRecord(n)
           ms == <<RecordMsg(r)>>
<1>1. /\ cur \in [Nodes -> Sockets \cup {NoSocket}] /\ db \in [Nodes -> SUBSET Records]
      /\ up \in [Sockets -> Seq(Requests)]
  BY DEF Types, TypeOK
<1>2. \A k \in Nodes : cur[k] # NoSocket => cur[k] \in Sockets /\ cur[k][1] = k
  BY <1>1 DEF Provenance, CurrentOwn
<1>3. UNCHANGED <<queue, link, cur, cstate>>
  BY DEF WriteRecord, clientVars, serverVars
<1>4. /\ r \in Records /\ r.owner = n
      /\ Written(n) \/ UNCHANGED db
      /\ HasKey(db'[n], Key(r))
      /\ \/ /\ cstate[n] = "NORMAL_OPERATION" /\ cur[n] # NoSocket
            /\ up' = SentUp(up, cur[n], ms)
         \/ /\ cstate[n] # "NORMAL_OPERATION" \/ cur[n] = NoSocket
            /\ UNCHANGED up
  BY WriteQuiet
<1> HIDE DEF r
<1>5. \A x \in Own(n)' : x = r \/ x \in Own(n)
  <2>1. Written(n) => db'[n] = db[n] \cup {r}
    BY <1>1 DEF Written, r
  <2> QED
    BY <1>4, <2>1 DEF Own
<1>6. ms \in Seq(Requests) /\ Carried(ms) = {r}
  <2>1. RecordMsg(r) \in Requests /\ RecordMsg(r).type = "record" /\ RecordMsg(r).record = r
    BY <1>4 DEF Requests, RecordMsgSet, RecordMsg
  <2> DEFINE m == RecordMsg(r)
  <2> HIDE DEF m
  <2>2. <<m>> \in Seq(Requests) /\ Contents(<<m>>) = {m}
    BY <2>1 DEF Contents, m
  <2> QED
    BY <2>1, <2>2 DEF Carried, m
<1>7. ASSUME cstate[n] = "NORMAL_OPERATION", Deliverable(cur[n])
      PROVE  LinesBacked(db', n, Peer[n], UnderWay(cur[n]), ms)
  <2> DEFINE T == UnderWay(cur[n]) \cup db'[Peer[n]]
  <2>1. \A x \in Own(n) : HasKey(T, Key(x))
    <3>1. AllSent(n)
      BY <1>7, LeftIs DEF Delivery, Left
    <3>2. db[Peer[n]] \subseteq db'[Peer[n]]
      BY NodesAssumption, DbGrows DEF Quiet
    <3> QED
      BY <3>1, <3>2 DEF AllSent, HasKey
  <2> HIDE DEF T
  <2>2. r \in db'[n] \/ HasKey(T, Key(r))
    <3>1. Written(n) => r \in db'[n]
      BY <1>1 DEF Written, r
    <3>2. ASSUME UNCHANGED db
          PROVE  HasKey(T, Key(r))
      <4>1. PICK x \in db[n] : Key(x) = Key(r)
        BY <1>4, <3>2 DEF HasKey
      <4>2. x \in Own(n)
        BY <1>4, <4>1 DEF Own, Key
      <4> QED
        BY <2>1, <4>1, <4>2
    <3> QED
      BY <1>4, <3>1, <3>2
  <2>3. Ahead(db', r, T)
    <3>1. \A x \in db'[n] : x.owner = n => x = r \/ x \in Own(n)
      BY <1>5 DEF Own
    <3>2. ~(r.seq < r.seq)
      BY <1>4 DEF Records
    <3> QED
      BY <1>4, <2>1, <3>1, <3>2 DEF Ahead
  <2>4. Backed(db', n, Peer[n], r, UnderWay(cur[n]))
    BY <2>2, <2>3 DEF Backed, T
  <2>5. DOMAIN ms = {1} /\ ms[1].record = r
    BY DEF RecordMsg
  <2>6. Backed(db', n, Peer[n], r, UnderWay(cur[n]) \cup LinesBefore(ms, 1))
    <3>1. KeysWithin(UnderWay(cur[n]), (UnderWay(cur[n]) \cup LinesBefore(ms, 1)) \cup db'[Peer[n]])
      BY DEF KeysWithin, HasKey
    <3> QED
      BY <2>4, <3>1, BackedByMore
  <2> HIDE DEF ms
  <2> QED
    BY <2>5, <2>6 DEF LinesBacked
<1> HIDE DEF ms
<1>8. RequestsBacked(db)'
  <2>1. CASE UNCHANGED up
    BY <1>3, <2>1, UnmovedBacked
  <2>2. CASE cstate[n] = "NORMAL_OPERATION" /\ up' = SentUp(up, cur[n], ms)
    BY <1>1, <1>2, <1>3, <1>6, <1>7, <2>2, StillBacked, SentUpBacked
  <2> QED
    BY <1>4, <2>1, <2>2
<1>9. ASSUME NEW k \in Nodes, k # n
      PROVE  Left(k)'
  <2>1. OwnSame(k)
    <3>1. Written(n) => db'[k] = db[k]
      BY <1>1, <1>9 DEF Written
    <3> QED
      BY <1>4, <3>1 DEF OwnSame
  <2>2. \A c \in Sockets : c[1] = k => up'[c] = up[c]
    BY <1>1, <1>2, <1>4, <1>9 DEF SentUp, Deliverable
  <2> QED
    BY <1>3, <1>9, <2>1, <2>2, LeftElsewhere
<1>10. Left(n)'
  <2> SUFFICES ASSUME cstate'[n] = "NORMAL_OPERATION", Deliverable(cur[n])'
               PROVE  AllSent(n)'
    BY DEF Left
  <2>1. cur[n] \in Sockets /\ cur[n] # NoSocket /\ Deliverable(cur[n])
    BY <1>1, <1>3 DEF Deliverable
  <2>2. up' = [up EXCEPT ![cur[n]] = @ \o ms]
    BY <1>3, <1>4, <2>1 DEF SentUp
  <2>3. UnderWay(cur[n])' = UnderWay(cur[n]) \cup {r}
    <3>1. \A c \in Sockets : c = cur[n] => UnderWay(c)' = UnderWay(c) \cup {r}
      BY <1>3, <1>6, <2>2, SentUnderWay
    <3> QED
      BY <1>3, <2>1, <3>1 DEF UnderWay
  <2>4. AllSent(n)
    BY <1>3, <2>1, LeftIs DEF Delivery, Left
  <2>5. db[Peer[n]] \subseteq db'[Peer[n]]
    BY NodesAssumption, DbGrows DEF Quiet
  <2> QED
    BY <1>5, <2>3, <2>4, <2>5 DEF AllSent, HasKey
<1> QED
  BY <1>8, <1>9, <1>10

LEMMA ClientFlow ==
  ASSUME Types, Provenance, Delivery, Quiet, NEW n \in Nodes, ClientNext(n)
  PROVE  Flow'
<1> USE UnmovedBacked
<1>1. /\ cur \in [Nodes -> Sockets \cup {NoSocket}] /\ cstate \in [Nodes -> ClientStates]
      /\ up \in [Sockets -> Seq(Requests)] /\ link \in [Sockets -> LinkStates]
  BY DEF Types, TypeOK
<1>2. \A k \in Nodes : cur[k] # NoSocket => cur[k] \in Sockets /\ cur[k][1] = k
  BY <1>1 DEF Provenance, CurrentOwn
<1>3. UNCHANGED db => \A k \in Nodes : OwnSame(k)
  BY DEF OwnSame
<1>4. ASSUME OpenSocket(n), UNCHANGED <<db, up, queue>>, NEW k \in Nodes
      PROVE  Left(k)'
  <2>1. CASE k = n
    <3>1. Transition(n, <<"CONNECTING">>)
      BY <1>4 DEF OpenSocket
    <3>2. cstate'[n] = "CONNECTING"
      BY <1>1, <3>1 DEF Transition
    <3> QED
      BY <2>1, <3>2 DEF Left
  <2>2. CASE k # n
    BY <1>1, <1>3, <1>4, <2>2, LeftElsewhere DEF OpenSocket, Transition
  <2> QED
    BY <2>1, <2>2
<1>5. CASE Connect(n)
  BY <1>4, <1>5 DEF Connect, Flow, dbVars, serverVars
<1>6. CASE Reconnect(n)
  <2>1. UNCHANGED <<db, up, down, queue, srv>>
    BY <1>6 DEF Reconnect, dbVars, serverVars
  <2>2. CASE OpenSocket(n)
    BY <1>4, <2>1, <2>2 DEF Flow
  <2>3. CASE UNCHANGED <<cstate, cur, link>>
    BY <1>3, <2>1, <2>3, LeftElsewhere DEF Flow
  <2> QED
    BY <1>6, <2>2, <2>3 DEF Reconnect
<1>7. CASE Disconnect(n)
  <2> DEFINE c == cur[n]
  <2>1. /\ c \in Sockets /\ c[1] = n
        /\ up' = IF link[c] = "connecting" THEN [up EXCEPT ![c] = <<>>] ELSE up
        /\ down' = [down EXCEPT ![c] = <<>>] /\ UNCHANGED <<db, queue, srv, cur>>
        /\ link' = [link EXCEPT ![c] = IF @ = "closed" THEN @ ELSE "destroyed"]
        /\ Transition(n, <<"DISCONNECTED">>)
    BY <1>2, <1>7 DEF Disconnect, dbVars, serverVars
  <2> HIDE DEF c
  <2>2. QueuesBacked(db)' /\ RequestsBacked(db)' /\ RepliesBacked(db)' /\ QueueEmptied'
    BY <2>1, StillBacked, LostUpBacked, LostDownBacked
  <2>3. ASSUME NEW k \in Nodes
        PROVE  Left(k)'
    <3>1. CASE k = n
      <4>1. cstate'[n] = "DISCONNECTED"
        BY <1>1, <2>1 DEF Transition
      <4> QED
        BY <3>1, <4>1 DEF Left
    <3>2. CASE k # n
      BY <1>1, <1>3, <2>1, <3>2, LeftElsewhere DEF Transition
    <3> QED
      BY <3>1, <3>2
  <2> QED
    BY <2>2, <2>3 DEF Flow
<1>8. ~ResumeReplay(n)
  BY DEF ResumeReplay, Quiet, NoReplayWaits
<1>9. CASE WriteRecord(n)
  BY <1>9, WriteDelivers DEF WriteRecord, serverVars, Flow
<1>10. CASE AckTimeout(n)
  BY <1>3, <1>10, LeftElsewhere DEF AckTimeout, dbVars, clientVars, wireVars, serverVars, Flow
<1> QED
  BY <1>5, <1>6, <1>7, <1>8, <1>9, <1>10 DEF ClientNext

\* processRecord answers with lines that carry no record.
LEMMA AcksArePlain ==
  ASSUME NEW c \in Sockets, NEW q \in Seq(Records), NEW reply \in Seq(Replies),
         \A m \in Contents(reply) : m.type # "record", Process(c, q, reply)
  PROVE  \E ms \in Seq(Replies) : /\ \A m \in Contents(ms) : m.type # "record"
                                  /\ down' = SentDown(down, c, ms)
<1> DEFINE acks == [i \in DOMAIN q |-> AckMsg(Key(q[i]))]
<1>1. down' = SentDown(down, c, reply \o acks)
  BY DEF Process
<1>2. acks \in Seq(Replies)
  <2>1. DOMAIN q = 1..Len(q) /\ Len(q) \in Nat /\ \A i \in DOMAIN q : q[i] \in Records
    BY SeqTypes
  <2>2. \A i \in DOMAIN q : AckMsg(Key(q[i])) \in Replies
    BY <2>1 DEF AckMsg, Key, Keys, Records, Replies
  <2>3. acks \in [1..Len(q) -> Replies]
    BY <2>1, <2>2
  <2> QED
    BY <2>1, <2>3, MapIsSeq
<1>3. \A m \in Contents(acks) : m.type # "record"
  BY DEF Contents, AckMsg
<1> HIDE DEF acks
<1>4. reply \o acks \in Seq(Replies)
  BY <1>2, SeqTypes
<1>5. Contents(reply \o acks) \subseteq Contents(reply) \cup Contents(acks)
  BY <1>2, ContentsParts
<1> QED
  BY <1>1, <1>3, <1>4, <1>5

\* What a sync_request is answered with.
LEMMA PullBacked ==
  ASSUME Types, Provenance, Delivery, Quiet, NEW c \in Sockets,
         up[c] # <<>>, ServerSyncRequest(c)
  PROVE  RepliesBacked(db)'
<1> DEFINE n == c[1]
           p == Peer[c[1]]
           limit(rows) == Min2(Len(rows), SyncLimit)
<1>1. CASE UNCHANGED down
  BY <1>1, UnmovedBacked
<1>2. CASE ~UNCHANGED down
  <2>1. PICK rows \in Ordered({r \in db[p] : r.seq > Head(up[c]).since}) :
          down' = SentDown(down, c, RecordMsgs(SubSeq(rows, 1, limit(rows))))
    BY <1>2 DEF ServerSyncRequest
  <2>2. n \in Nodes /\ p \in Nodes /\ db[p] \in SUBSET Records /\ IsFiniteSet(db[p])
        /\ UNCHANGED db
    BY SocketType DEF ServerSyncRequest, Types, TypeOK, dbVars
  <2>3. {r \in db[p] : r.seq > Head(up[c]).since} = db[p]
    <3>1. Head(up[c]) \in Requests /\ Head(up[c]).type = "sync_request"
      BY SeqTypes DEF ServerSyncRequest, Types, TypeOK
    <3>2. Head(up[c]).since = 0
      BY <3>1 DEF Requests, Hello, SyncRequest, RecordMsgSet
    <3>3. \A r \in Records : r.seq \in Nat /\ r.seq > 0
      BY DEF Records
    <3> QED
      BY <2>2, <3>2, <3>3
  <2>4. /\ rows \in Seq(Records) /\ Contents(rows) = db[p]
        /\ \A i \in DOMAIN rows : \A y \in db[p] :
             y.seq < rows[i].seq => y \in RowsBefore(rows, i)
    BY <2>1, <2>2, <2>3, OrderedAll
  <2>5. PICK k \in Nat : k <= Len(rows) /\ k = limit(rows)
    BY <2>4, SeqTypes, BoundsAssumption DEF Min2
  <2> DEFINE part == SubSeq(rows, 1, k)
  <2>6. /\ part \in Seq(Records) /\ DOMAIN part = 1..k /\ DOMAIN rows = 1..Len(rows)
        /\ Len(rows) \in Nat /\ \A i \in 1..k : part[i] = rows[i]
    <3>1. DOMAIN rows = 1..Len(rows) /\ Len(rows) \in Nat /\ \A i \in 1..k : rows[i] \in Records
      BY <2>4, <2>5, SeqTypes
    <3>2. /\ part \in Seq(Records) /\ Len(part) = (IF 1 <= k THEN k - 1 + 1 ELSE 0)
          /\ \A i \in 1..(k - 1 + 1) : part[i] = rows[1 + i - 1]
      BY <3>1, SubSeqProperties
    <3>3. Len(part) = k /\ DOMAIN part = 1..Len(part)
      BY <2>5, <3>2, LenProperties
    <3> HIDE DEF part
    <3> QED
      BY <2>5, <3>1, <3>2, <3>3
  <2>7. down' = SentDown(down, c, RecordMsgs(part))
    BY <2>1, <2>5
  <2> HIDE DEF part, n, p
  <2>8. ASSUME NEW i \in DOMAIN part
        PROVE  Backed(db', p, n, part[i], RowsBefore(part, i))
    <3>1. i \in DOMAIN rows /\ part[i] = rows[i] /\ rows[i] \in db[p]
      BY <2>4, <2>5, <2>6 DEF Contents
    <3>2. RowsBefore(part, i) = RowsBefore(rows, i)
      BY <2>5, <2>6 DEF RowsBefore
    <3>3. Ahead(db, rows[i], db[p])
      BY <2>2, <3>1 DEF Delivery, GapFree
    <3>4. ASSUME NEW x \in db[rows[i].owner], x.owner = rows[i].owner, x.seq < rows[i].seq
          PROVE  HasKey(RowsBefore(rows, i), Key(x))
      <4>1. PICK y \in db[p] : Key(y) = Key(x)
        BY <3>3, <3>4 DEF Ahead, HasKey
      <4>2. y.seq = x.seq
        BY <4>1 DEF Key
      <4>3. y \in RowsBefore(rows, i)
        BY <2>4, <3>1, <3>4, <4>1, <4>2
      <4> QED
        BY <4>1, <4>3 DEF HasKey
    <3> QED
      BY <2>2, <3>1, <3>2, <3>4 DEF Backed, Ahead, HasKey
  <2>9. LinesBacked(db', p, n, {}, RecordMsgs(part))
    BY <2>6, <2>8, RecordLines
  <2>10. RecordMsgs(part) \in Seq(Replies)
    BY <2>6, RecordMsgsType, SeqMonotonic DEF Replies
  <2> QED
    BY <2>7, <2>9, <2>10, StillBacked, SentDownBacked DEF n, p
<1> QED
  BY <1>1, <1>2

\* What the server takes from a socket goes to its queue or to its table.
LEMMA Received ==
  ASSUME Types, Provenance, Delivery, Quiet, NEW c \in Sockets, ServerReceive(c)
  PROVE  /\ KeysWithin(Contents(queue[c]), Contents(queue'[c]) \cup db'[Peer[c[1]]])
         /\ Head(up[c]).type = "record" =>
              HasKey(Contents(queue'[c]) \cup db'[Peer[c[1]]], Key(Head(up[c]).record))
         /\ \A d \in Sockets : d # c => queue'[d] = queue[d]
         /\ QueuesBacked(db)' /\ RepliesBacked(db)' /\ QueueEmptied'
<1> DEFINE p == Peer[c[1]]
<1>1. /\ queue \in [Sockets -> Seq(Records)] /\ srv \in [Sockets -> ServerStates]
      /\ queue[c] \in Seq(Records) /\ up[c] # <<>> /\ up[c] \in Seq(Requests)
  BY DEF ServerReceive, Types, TypeOK
<1>2. /\ <<>> \in Seq(Replies) /\ <<Ready>> \in Seq(Replies)
      /\ \A m \in Contents(<<>>) : m.type # "record"
      /\ \A m \in Contents(<<Ready>>) : m.type # "record"
  BY DEF Replies, Ready, Contents
<1>3. ASSUME NEW q \in Seq(Records), NEW reply \in Seq(Replies),
             \A m \in Contents(reply) : m.type # "record", Process(c, q, reply)
      PROVE  RepliesBacked(db)'
  <2>1. PICK ms \in Seq(Replies) : /\ \A m \in Contents(ms) : m.type # "record"
                                   /\ down' = SentDown(down, c, ms)
    BY <1>3, AcksArePlain
  <2> QED
    BY <2>1, PlainLines, StillBacked, SentDownBacked
<1>4. CASE ServerHello(c)
  <2>1. /\ Process(c, queue[c], <<Ready>>) /\ queue' = [queue EXCEPT ![c] = <<>>]
        /\ srv' = [srv EXCEPT ![c] = "SYNCHRONIZED"] /\ Head(up[c]).type # "record"
    BY <1>4 DEF ServerHello, Hello
  <2>2. \A i \in DOMAIN queue[c] : HasKey(db'[p], Key(queue[c][i]))
    BY <1>1, <2>1, ProcessQuiet DEF Delivery, QueuesBacked
  <2>3. KeysWithin(Contents(queue[c]), Contents(queue'[c]) \cup db'[p])
    BY <2>2 DEF KeysWithin, Contents, HasKey
  <2>4. QueuesBacked(db)'
    <3>1. \A d \in Sockets : RowsBacked(db', d[1], Peer[d[1]], queue'[d])
      BY <1>1, <2>1, NoLines, StillBacked DEF QueuesBacked
    <3> QED
      BY <3>1 DEF QueuesBacked
  <2>5. QueueEmptied'
    BY <1>1, <2>1 DEF QueueEmptied, Delivery
  <2>6. RepliesBacked(db)'
    BY <1>1, <1>2, <1>3, <2>1
  <2> QED
    BY <1>1, <2>1, <2>3, <2>4, <2>5, <2>6
<1>5. CASE ServerRecord(c) /\ srv[c] = "SYNCHRONIZED"
  <2> DEFINE r == Head(up[c]).record
  <2>1. Process(c, <<r>>, <<>>) /\ UNCHANGED <<queue, srv>>
    BY <1>5 DEF ServerRecord
  <2>2. <<r>> \in Seq(Records) /\ RowsBacked(db, c[1], p, <<r>>)
    BY <1>5, HeadBacked
  <2> HIDE DEF r
  <2>3. HasKey(db'[p], Key(<<r>>[1]))
    <3>1. 1 \in DOMAIN <<r>>
      OBVIOUS
    <3> QED
      BY <2>1, <2>2, <3>1, ProcessQuiet
  <2>4. HasKey(Contents(queue'[c]) \cup db'[p], Key(r))
    BY <2>3 DEF HasKey
  <2>5. RepliesBacked(db)'
    BY <1>2, <1>3, <2>1, <2>2
  <2> QED
    BY <2>1, <2>4, <2>5, UnmovedBacked DEF r, KeysWithin, HasKey
<1>6. CASE ServerRecord(c) /\ srv[c] # "SYNCHRONIZED"
  <2> DEFINE r == Head(up[c]).record
             q == queue[c]
             a == Append(queue[c], r)
  <2>1. /\ queue' = [queue EXCEPT ![c] = a] /\ UNCHANGED <<srv, down>>
        /\ Head(up[c]).type = "record"
    BY <1>6 DEF ServerRecord
  <2>2. r \in Records
    BY <1>1, <2>1, HeadTypes DEF Types
  <2>3. Backed(db', c[1], p, r, Contents(q) \cup {})
    <3>1. 1 \in DOMAIN up[c] /\ up[c][1] = Head(up[c])
      BY <1>1, EmptySeq, LenProperties
    <3>2. LinesBefore(up[c], 1) = {}
      BY DEF LinesBefore
    <3> QED
      BY <2>1, <3>1, <3>2, StillBacked DEF RequestsBacked, LinesBacked
  <2> HIDE DEF r
  <2>4. /\ DOMAIN q = 1..Len(q) /\ Len(q) \in Nat /\ DOMAIN a = 1..(Len(q) + 1)
        /\ a[Len(q) + 1] = r /\ \A i \in 1..Len(q) : a[i] = q[i]
    BY <1>1, <2>2, AppendProperties, LenProperties
  <2> HIDE DEF a, q
  <2>5. Contents(a) = Contents(q) \cup {r}
    BY <2>4 DEF Contents
  <2>6. \A i \in 1..(Len(q) + 1) : RowsBefore(a, i) = RowsBefore(q, i)
    BY <2>4 DEF RowsBefore
  <2>7. RowsBefore(q, Len(q) + 1) = Contents(q)
    BY <2>4 DEF RowsBefore, Contents
  <2>8. RowsBacked(db', c[1], p, a)
    <3>1. ASSUME NEW i \in 1..Len(q)
          PROVE  Backed(db', c[1], p, a[i], RowsBefore(a, i))
      <4>1. RowsBacked(db', c[1], p, q)
        BY StillBacked DEF QueuesBacked, q
      <4>2. i \in 1..(Len(q) + 1)
        BY <2>4
      <4> QED
        BY <2>4, <2>6, <4>1, <4>2 DEF RowsBacked
    <3>2. Backed(db', c[1], p, a[Len(q) + 1], RowsBefore(a, Len(q) + 1))
      BY <2>3, <2>4, <2>6, <2>7
    <3> QED
      BY <2>4, <3>1, <3>2 DEF RowsBacked
  <2>9. QueuesBacked(db)'
    <3>1. \A d \in Sockets : RowsBacked(db', d[1], Peer[d[1]], queue'[d])
      BY <1>1, <2>1, <2>8, StillBacked DEF QueuesBacked
    <3> QED
      BY <3>1 DEF QueuesBacked
  <2>10. QueueEmptied'
    BY <1>1, <1>6, <2>1 DEF QueueEmptied, Delivery
  <2>11. /\ KeysWithin(Contents(queue[c]), Contents(queue'[c]) \cup db'[p])
         /\ HasKey(Contents(queue'[c]) \cup db'[p], Key(r))
    <3>1. Contents(queue'[c]) = Contents(queue[c]) \cup {r}
      BY <1>1, <2>1, <2>5 DEF q
    <3> QED
      BY <3>1 DEF KeysWithin, HasKey
  <2> QED
    BY <1>1, <2>1, <2>9, <2>10, <2>11, UnmovedBacked DEF r
<1>7. CASE ServerSyncRequest(c)
  <2>1. Head(up[c]).type # "record" /\ UNCHANGED <<queue, srv>>
    BY <1>7 DEF ServerSyncRequest, serverVars
  <2> QED
    BY <1>1, <1>7, <2>1, PullBacked, UnmovedBacked DEF KeysWithin, HasKey
<1> QED
  BY <1>4, <1>5, <1>6, <1>7 DEF ServerReceive

LEMMA ServerReceiveFlow ==
  ASSUME Types, Provenance, Delivery, Quiet, NEW c \in Sockets, ServerReceive(c)
  PROVE  Flow'
<1> DEFINE n == c[1]
           p == Peer[c[1]]
           Q == Contents(queue'[c])
<1>1. /\ up[c] # <<>> /\ up' = [up EXCEPT ![c] = Tail(@)]
      /\ UNCHANGED <<link, cur, cstate>>
  BY DEF ServerReceive, clientVars
<1>2. /\ up \in [Sockets -> Seq(Requests)] /\ up[c] \in Seq(Requests)
      /\ cur \in [Nodes -> Sockets \cup {NoSocket}]
  BY DEF Types, TypeOK
<1>3. /\ KeysWithin(Contents(queue[c]), Q \cup db'[p])
      /\ Head(up[c]).type = "record" => HasKey(Q \cup db'[p], Key(Head(up[c]).record))
      /\ \A d \in Sockets : d # c => queue'[d] = queue[d]
      /\ QueuesBacked(db)' /\ RepliesBacked(db)' /\ QueueEmptied'
  BY Received
<1>4. RequestsBacked(db)'
  <2>1. LinesBacked(db', n, p, Contents(queue[c]), up[c])
    BY StillBacked DEF RequestsBacked
  <2>2. LinesBacked(db', n, p, Q, Tail(up[c]))
    BY <1>1, <1>2, <1>3, <2>1, LinesLeft
  <2>3. ASSUME NEW d \in Sockets
        PROVE  LinesBacked(db', d[1], Peer[d[1]], Contents(queue'[d]), up'[d])
    <3>1. CASE d = c
      BY <1>1, <1>2, <2>2, <3>1
    <3>2. CASE d # c
      BY <1>1, <1>2, <1>3, <3>2, StillBacked DEF RequestsBacked
    <3> QED
      BY <3>1, <3>2
  <2> QED
    BY <2>3 DEF RequestsBacked
<1>5. KeysWithin(UnderWay(c), UnderWay(c)' \cup db'[p])
  <2>1. \A m \in Contents(up[c]) : m = Head(up[c]) \/ m \in Contents(Tail(up[c]))
    <3> DEFINE s == up[c]
    <3>1. /\ Len(s) \in Nat \ {0} /\ DOMAIN s = 1..Len(s) /\ Head(s) = s[1]
          /\ Len(Tail(s)) = Len(s) - 1 /\ DOMAIN Tail(s) = 1..Len(Tail(s))
          /\ \A i \in 1..Len(Tail(s)) : Tail(s)[i] = s[i + 1]
      BY <1>1, <1>2, HeadTailProperties, LenProperties, EmptySeq
    <3> HIDE DEF s
    <3>2. ASSUME NEW i \in DOMAIN s, i # 1
          PROVE  s[i] \in Contents(Tail(s))
      <4>1. i - 1 \in DOMAIN Tail(s) /\ Tail(s)[i - 1] = s[i]
        BY <3>1, <3>2
      <4> QED
        BY <4>1 DEF Contents
    <3> QED
      BY <3>1, <3>2 DEF Contents, s
  <2>2. UnderWay(c)' = {m.record : m \in {m \in Contents(Tail(up[c])) : m.type = "record"}} \cup Q
    BY <1>1, <1>2 DEF UnderWay
  <2>3. Q \subseteq UnderWay(c)'
    BY <2>2
  <2>4. \A k : HasKey(Q \cup db'[p], k) => HasKey(UnderWay(c)' \cup db'[p], k)
    BY <2>3 DEF HasKey
  <2>5. \A x \in Contents(queue[c]) : HasKey(UnderWay(c)' \cup db'[p], Key(x))
    BY <1>3, <2>4 DEF KeysWithin
  <2>6. ASSUME NEW m \in Contents(up[c]), m.type = "record"
        PROVE  HasKey(UnderWay(c)' \cup db'[p], Key(m.record))
    <3>1. CASE m = Head(up[c])
      BY <1>3, <2>4, <2>6, <3>1
    <3>2. CASE m \in Contents(Tail(up[c]))
      BY <2>2, <2>6, <3>2 DEF HasKey
    <3> QED
      BY <2>1, <3>1, <3>2
  <2> QED
    BY <2>5, <2>6 DEF KeysWithin, UnderWay
<1>6. ASSUME NEW k \in Nodes
      PROVE  Left(k)'
  <2>1. OwnSame(k)
    <3>1. UNCHANGED db \/ \E i, j \in Nodes : Copied(i, j)
      <4>1. n \in Nodes /\ p \in Nodes
        BY SocketType
      <4>2. CASE ServerHello(c)
        <5>1. queue[c] \in Seq(Records) /\ RowsBacked(db, n, p, queue[c])
          BY DEF Types, TypeOK, Delivery, QueuesBacked
        <5> QED
          BY <4>1, <4>2, <5>1, ProcessQuiet DEF ServerHello
      <4>3. CASE ServerRecord(c) /\ srv[c] = "SYNCHRONIZED"
        BY <4>1, <4>3, HeadBacked, ProcessQuiet DEF ServerRecord
      <4>4. CASE ServerRecord(c) /\ srv[c] # "SYNCHRONIZED"
        BY <4>4 DEF ServerRecord, dbVars
      <4>5. CASE ServerSyncRequest(c)
        BY <4>5 DEF ServerSyncRequest, dbVars
      <4> QED
        BY <4>2, <4>3, <4>4, <4>5 DEF ServerReceive
    <3> QED
      BY <3>1, OwnIsSame
  <2>2. CASE cur[k] # c
    <3>1. cur[k] # NoSocket => up'[cur[k]] = up[cur[k]] /\ queue'[cur[k]] = queue[cur[k]]
      BY <1>1, <1>2, <1>3, <2>2
    <3>2. Deliverable(cur[k])' => Deliverable(cur[k]) /\ UnderWay(cur[k])' = UnderWay(cur[k])
      BY <1>1, <3>1 DEF Deliverable, UnderWay
    <3>3. Deliverable(cur[k])' =>
            KeysWithin(UnderWay(cur[k]), UnderWay(cur[k])' \cup db'[Peer[k]])
      BY <3>2 DEF KeysWithin, HasKey
    <3> QED
      BY <1>1, <2>1, <3>2, <3>3, LeftStays
  <2>3. CASE cur[k] = c
    <3>1. c # NoSocket
      BY DEF Sockets, NoSocket
    <3>2. c[1] = k
      BY <2>3, <3>1 DEF Provenance, CurrentOwn
    <3>3. UnderWay(cur[k])' = UnderWay(c)'
      BY <1>1, <2>3 DEF UnderWay
    <3>4. Deliverable(cur[k])' => Deliverable(cur[k])
      BY <1>1 DEF Deliverable
    <3>5. KeysWithin(UnderWay(cur[k]), UnderWay(cur[k])' \cup db'[Peer[k]])
      BY <1>5, <2>3, <3>2, <3>3
    <3> QED
      BY <1>1, <2>1, <3>4, <3>5, LeftStays
  <2> QED
    BY <2>2, <2>3
<1> QED
  BY <1>3, <1>4, <1>6 DEF Flow

LEMMA ClientReceiveFlow ==
  ASSUME Types, Provenance, Delivery, Quiet, NEW c \in Sockets, ClientReceive(c)
  PROVE  Flow'
<1> DEFINE n == c[1]
<1>1. /\ down[c] # <<>> /\ down' = [down EXCEPT ![c] = Tail(@)]
      /\ UNCHANGED <<link, cur, queue, srv>>
  BY DEF ClientReceive, serverVars
<1>2. n \in Nodes /\ down \in [Sockets -> Seq(Replies)] /\ down[c] \in Seq(Replies)
  BY SocketType DEF Types, TypeOK
<1>3. QueuesBacked(db)' /\ QueueEmptied'
  BY <1>1, UnmovedBacked
<1>4. RepliesBacked(db)'
  <2>1. LinesBacked(db', Peer[n], n, {}, down[c])
    BY StillBacked DEF RepliesBacked
  <2>2. Head(down[c]).type = "record" => HasKey({} \cup db'[n], Key(Head(down[c]).record))
    <3> SUFFICES ASSUME Head(down[c]).type = "record"
                 PROVE  HasKey(db'[n], Key(Head(down[c]).record))
      OBVIOUS
    <3>1. ClientRecord(c)
      BY DEF ClientReceive, ClientReady, ClientAck, Ready
    <3> QED
      BY <3>1, PulledQuiet
  <2>3. LinesBacked(db', Peer[n], n, {}, Tail(down[c]))
    <3>1. KeysWithin({}, {} \cup db'[n])
      BY DEF KeysWithin
    <3> QED
      BY <1>1, <1>2, <2>1, <2>2, <3>1, LinesLeft
  <2>4. ASSUME NEW d \in Sockets
        PROVE  LinesBacked(db', Peer[d[1]], d[1], {}, down'[d])
    <3>1. CASE d = c
      BY <1>1, <1>2, <2>3, <3>1
    <3>2. CASE d # c
      BY <1>1, <1>2, <3>2, StillBacked DEF RepliesBacked
    <3> QED
      BY <3>1, <3>2
  <2> QED
    BY <2>4 DEF RepliesBacked
<1>5. CASE UNCHANGED <<cstate, up>>
  <2>1. UNCHANGED db \/ \E i, j \in Nodes : Copied(i, j)
    <3>1. CASE ClientRecord(c)
      BY <3>1, PulledQuiet, SocketType
    <3>2. CASE ~ClientRecord(c)
      BY <3>2 DEF ClientReceive, ClientReady, ClientAck, dbVars
    <3> QED
      BY <3>1, <3>2
  <2>2. \A k \in Nodes : Left(k)'
    BY <1>1, <1>5, <2>1, OwnIsSame, LeftElsewhere
  <2> QED
    BY <1>1, <1>3, <1>4, <1>5, <2>2, UnmovedBacked DEF Flow
<1>6. CASE ~UNCHANGED <<cstate, up>>
  <2>1. /\ UNCHANGED db
        /\ \E s \in 1..MaxReplays, rows \in Ordered(Own(n)) :
             RunReplay(n, s, rows, <<"READY_RECEIVED", "REPLAY_IN_PROGRESS">>)
    BY <1>6 DEF ClientReceive, ClientReady, ClientAck, ClientRecord, Own, dbVars
  <2>2. PICK s \in 1..MaxReplays, rows \in Ordered(Own(n)) :
          RunReplay(n, s, rows, <<"READY_RECEIVED", "REPLAY_IN_PROGRESS">>)
    BY <2>1
  <2> HIDE DEF n
  <2>3. RequestsBacked(db)' /\ \A k \in Nodes : Left(k)'
    BY <1>1, <1>2, <2>1, <2>2, ReplayDelivers
  <2> QED
    BY <1>3, <1>4, <2>3 DEF Flow
<1> QED
  BY <1>5, <1>6

LEMMA SocketFlow ==
  ASSUME Types, Provenance, Delivery, Quiet, NEW c \in Sockets, SocketNext(c)
  PROVE  Flow'
<1> USE UnmovedBacked
<1> DEFINE n == c[1]
<1>1. /\ cur \in [Nodes -> Sockets \cup {NoSocket}] /\ cstate \in [Nodes -> ClientStates]
      /\ up \in [Sockets -> Seq(Requests)] /\ link \in [Sockets -> LinkStates]
      /\ queue \in [Sockets -> Seq(Records)] /\ srv \in [Sockets -> ServerStates]
      /\ n \in Nodes /\ c # NoSocket
  <2>1. n \in Nodes /\ c # NoSocket
    BY SocketType DEF Sockets, NoSocket
  <2> QED
    BY <2>1 DEF Types, TypeOK
<1>2. \A k \in Nodes : cur[k] # NoSocket => cur[k] \in Sockets /\ cur[k][1] = k
  BY <1>1 DEF Provenance, CurrentOwn
<1>3. ASSUME UNCHANGED db, UNCHANGED <<cur, cstate>>,
             \A d \in Sockets : d # c => /\ link'[d] = link[d] /\ up'[d] = up[d]
                                         /\ queue'[d] = queue[d],
             link'[c] \notin {"connecting", "open"}
      PROVE  \A k \in Nodes : Left(k)'
  <2>1. ASSUME NEW k \in Nodes
        PROVE  Left(k)'
    <3>1. OwnSame(k)
      BY <1>3 DEF OwnSame
    <3>2. Deliverable(cur[k])' => cur[k] \in Sockets /\ cur[k] # c
      BY <1>1, <1>3 DEF Deliverable
    <3>3. Deliverable(cur[k])' => Deliverable(cur[k]) /\ UnderWay(cur[k])' = UnderWay(cur[k])
      BY <1>3, <3>2 DEF Deliverable, UnderWay
    <3>4. Deliverable(cur[k])' =>
            KeysWithin(UnderWay(cur[k]), UnderWay(cur[k])' \cup db'[Peer[k]])
      BY <3>3 DEF KeysWithin, HasKey
    <3> QED
      BY <1>3, <3>1, <3>3, <3>4, LeftStays
  <2> QED
    BY <2>1
<1>4. CASE Connected(c)
  <2>1. /\ UNCHANGED <<db, queue, down, cur>> /\ link' = [link EXCEPT ![c] = "open"]
        /\ srv' = [srv EXCEPT ![c] = "CONNECTED"]
        /\ up' = SentUp(up, cur[n], <<Hello>>)
        /\ Transition(n, <<"CONNECTED", "HELLO_SENT">>)
    BY <1>4 DEF Connected, dbVars
  <2> HIDE DEF n
  <2>2. /\ cstate'[n] = "HELLO_SENT"
        /\ \A k \in Nodes : k # n => cstate'[k] = cstate[k]
    BY <1>1, <2>1 DEF Transition
  <2>3. RequestsBacked(db)'
    <3>1. /\ <<Hello>> \in Seq(Requests)
          /\ \A m \in Contents(<<Hello>>) : m.type # "record"
      BY DEF Requests, Hello, Contents
    <3>2. LinesBacked(db', n, Peer[n], UnderWay(cur[n]), <<Hello>>)
      BY <3>1, PlainLines
    <3> QED
      BY <1>1, <1>2, <2>1, <3>1, <3>2, StillBacked, SentUpBacked
  <2>4. QueueEmptied'
    BY <1>1, <2>1 DEF QueueEmptied, Delivery
  <2>5. ASSUME NEW k \in Nodes
        PROVE  Left(k)'
    <3>1. CASE k = n
      BY <2>2, <3>1 DEF Left
    <3>2. CASE k # n
      <4>1. OwnSame(k)
        BY <2>1 DEF OwnSame
      <4>2. \A d \in Sockets : d[1] = k => link'[d] = link[d] /\ up'[d] = up[d]
        BY <1>1, <1>2, <2>1, <3>2 DEF SentUp, Deliverable, n
      <4> QED
        BY <2>1, <2>2, <3>2, <4>1, <4>2, LeftElsewhere
    <3> QED
      BY <3>1, <3>2
  <2> QED
    BY <2>1, <2>3, <2>4, <2>5 DEF Flow
<1>5. CASE NetFault(c)
  <2>1. /\ UNCHANGED <<db, queue, srv, down, cur, cstate>>
        /\ link' = [link EXCEPT ![c] = "broken"]
        /\ up' = IF link[c] = "connecting" THEN [up EXCEPT ![c] = <<>>] ELSE up
    BY <1>5 DEF NetFault, dbVars, serverVars, clientVars
  <2>2. RequestsBacked(db)'
    BY <2>1, StillBacked, LostUpBacked
  <2>3. \A k \in Nodes : Left(k)'
    BY <1>1, <1>3, <2>1
  <2> QED
    BY <2>1, <2>2, <2>3 DEF Flow
<1>6. CASE SocketClosed(c)
  <2>1. /\ UNCHANGED <<db, up, queue, srv, cur>> /\ link' = [link EXCEPT ![c] = "closed"]
        /\ down' = [down EXCEPT ![c] = <<>>] /\ Transition(n, <<"DISCONNECTED">>)
    BY <1>6 DEF SocketClosed, dbVars, serverVars
  <2>2. RepliesBacked(db)'
    BY <2>1, StillBacked, LostDownBacked
  <2> HIDE DEF n
  <2>3. cstate'[n] = "DISCONNECTED" /\ \A k \in Nodes : k # n => cstate'[k] = cstate[k]
    BY <1>1, <2>1 DEF Transition
  <2>4. ASSUME NEW k \in Nodes
        PROVE  Left(k)'
    <3>1. CASE k = n
      BY <2>3, <3>1 DEF Left
    <3>2. CASE k # n
      <4>1. OwnSame(k)
        BY <2>1 DEF OwnSame
      <4>2. \A d \in Sockets : d[1] = k => link'[d] = link[d]
        BY <1>1, <2>1, <3>2 DEF n
      <4> QED
        BY <2>1, <2>3, <3>2, <4>1, <4>2, LeftElsewhere
    <3> QED
      BY <3>1, <3>2
  <2> QED
    BY <2>1, <2>2, <2>4 DEF Flow
<1>7. CASE ServerClosed(c)
  <2>1. /\ UNCHANGED <<db, link, down, cur, cstate>> /\ up' = [up EXCEPT ![c] = <<>>]
        /\ queue' = [queue EXCEPT ![c] = <<>>] /\ srv' = [srv EXCEPT ![c] = "DISCONNECTED"]
        /\ link[c] \in {"broken", "destroyed", "closed"}
    BY <1>7 DEF ServerClosed, dbVars, clientVars
  <2>2. RequestsBacked(db)' /\ QueuesBacked(db)'
    BY <2>1, StillBacked, LostUpBacked
  <2>3. QueueEmptied'
    BY <1>1, <2>1 DEF QueueEmptied, Delivery
  <2>4. \A k \in Nodes : Left(k)'
    BY <1>1, <1>3, <2>1
  <2> QED
    BY <2>1, <2>2, <2>3, <2>4 DEF Flow
<1> QED
  BY <1>4, <1>5, <1>6, <1>7, ClientReceiveFlow, ServerReceiveFlow DEF SocketNext

\* With empty channels and queues there is nothing on its way.
LEMMA RestartFlow ==
  ASSUME Restart
  PROVE  Flow'
<1>1. /\ \A c \in Sockets : queue'[c] = <<>> /\ up'[c] = <<>> /\ down'[c] = <<>>
      /\ \A n \in Nodes : cstate'[n] = "DISCONNECTED"
  BY DEF Restart, All
<1>2. QueuesBacked(db)' /\ RequestsBacked(db)' /\ RepliesBacked(db)'
  BY <1>1, NoLines DEF QueuesBacked, RequestsBacked, RepliesBacked
<1>3. QueueEmptied' /\ \A n \in Nodes : Left(n)'
  BY <1>1 DEF QueueEmptied, Left
<1> QED
  BY <1>2, <1>3 DEF Flow

LEMMA InitDelivery == Init => Delivery
<1> SUFFICES ASSUME Init PROVE Delivery
  OBVIOUS
<1>1. /\ \A c \in Sockets : queue[c] = <<>> /\ up[c] = <<>> /\ down[c] = <<>>
      /\ \A n \in Nodes : cstate[n] = "DISCONNECTED" /\ db[n] = {} /\ seq[n] = 0
  BY DEF Init, All
<1>2. QueuesBacked(db) /\ RequestsBacked(db) /\ RepliesBacked(db)
  BY <1>1, NoLines DEF QueuesBacked, RequestsBacked, RepliesBacked
<1>3. QueueEmptied /\ NothingLeftBehind
  BY <1>1 DEF QueueEmptied, NothingLeftBehind
<1>4. OneMeaning(db) /\ GapFree(db) /\ Contiguous(db)
  BY <1>1 DEF OneMeaning, GapFree, Contiguous
<1> QED
  BY <1>2, <1>3, <1>4 DEF Delivery

LEMMA NextDelivery ==
  ASSUME Types, Provenance, Delivery, [Next]_vars, insertFaults = 0, insertFaults' = 0,
         NoReplayWaits, NoReplayWaits'
  PROVE  Delivery'
<1>1. CASE Next
  <2>1. Quiet
    BY <1>1 DEF Quiet
  <2>2. Flow'
    BY <1>1, <2>1, ClientFlow, SocketFlow, RestartFlow DEF Next
  <2>3. (\A n \in Nodes : Left(n))'
    BY <2>2 DEF Flow
  <2>4. NothingLeftBehind'
    BY <2>3, LeftIsNext
  <2> QED
    BY <2>1, <2>2, <2>4, TablesAfter DEF Flow, Delivery
<1>2. CASE UNCHANGED vars
  <2>1. UNCHANGED <<db, seq, cstate, cur, link, up, down, srv, queue>>
    BY <1>2 DEF vars, dbVars, clientVars, wireVars, serverVars, harnessVars
  <2>2. (OneMeaning(db) /\ GapFree(db) /\ Contiguous(db))'
    BY <2>1 DEF Delivery, OneMeaning, GapFree, Contiguous
  <2>3. (QueuesBacked(db) /\ RequestsBacked(db) /\ RepliesBacked(db) /\ QueueEmptied)'
    BY <2>1 DEF Delivery, QueuesBacked, RequestsBacked, RepliesBacked, QueueEmptied
  <2>4. NothingLeftBehind'
    BY <2>1 DEF Delivery, NothingLeftBehind, Own, UnderWay, Contents, Deliverable
  <2> QED
    BY <2>2, <2>3, <2>4 DEF Delivery
<1> QED
  BY <1>1, <1>2

----------------------------------------------------------------------------
(* What is delivered.  The hypothesis is about the behaviour, not about    *)
(* the constants: as long as no INSERT throws and no replay has to wait    *)
(* for 'drain', the claims hold for any number of interruptions, lost or   *)
(* refused connections, restarts and sockets, for any set of nodes.        *)

Undisturbed == insertFaults = 0 /\ NoReplayWaits

LEMMA DeliveryAlways == Spec /\ []Undisturbed => []Delivery
<1>1. Types /\ Provenance /\ Delivery /\ [Next]_vars /\ Undisturbed /\ Undisturbed'
        => Delivery'
  BY NextDelivery DEF Undisturbed
<1> QED
  BY <1>1, InitDelivery, TypesCorrect, ProvenanceAlways, PTL DEF Spec

\* In particular in every configuration that is calm and in which no INSERT
\* throws: there the hypothesis is itself a theorem.
LEMMA CalmIsUndisturbed ==
  Calm /\ MaxInsertFaults = 0 => (Spec => []Undisturbed)
<1> SUFFICES ASSUME Calm, MaxInsertFaults = 0 PROVE Spec => []Undisturbed
  OBVIOUS
<1>1. Spec => []NoReplayWaits
  BY ReplaysNeverWait
<1>2. insertFaults = 0 /\ NoReplayWaits => Undisturbed
  BY DEF Undisturbed
<1> QED
  BY <1>1, <1>2, NoFaults, PTL

\* While a client reports NORMAL_OPERATION over a live socket, no record it has
\* stored is left behind: the peer has it, or it is on its way there.
THEOREM LeavesNothingBehind == Spec /\ []Undisturbed => []NothingLeftBehind
<1>1. Delivery => NothingLeftBehind
  BY DEF Delivery
<1> QED
  BY <1>1, DeliveryAlways, PTL

\* Records arrive in the order they were written: a copy of a record comes with
\* copies of all that its owner wrote before it.
THEOREM CopiesHaveNoGaps == Spec /\ []Undisturbed => []NoGaps
<1>1. Delivery => NoGaps
  <2>1. ASSUME Delivery, NEW n \in Nodes, NEW r \in db[Peer[n]], r.owner = n,
               NEW x \in Own(n), x.seq < r.seq
        PROVE  HasKey(db[Peer[n]], Key(x))
    <3>1. Ahead(db, r, db[Peer[n]])
      BY <2>1, NodesAssumption DEF Delivery, GapFree
    <3> QED
      BY <2>1, <3>1 DEF Ahead, Own
  <2> QED
    BY <2>1 DEF NoGaps
<1> QED
  BY <1>1, DeliveryAlways, PTL

\* Whatever is copied, replayed, pulled or written again after a restart, an
\* idempotency key stands for the same record at every node that has it.
THEOREM KeysAgree == Spec /\ []Undisturbed => []SameKeySameRecord
<1>1. Delivery => SameKeySameRecord
  BY DEF Delivery, OneMeaning, SameKeySameRecord
<1> QED
  BY <1>1, DeliveryAlways, PTL

\* The same three, from what is assumed of the configuration.
THEOREM CalmDelivery ==
  Calm /\ MaxInsertFaults = 0 =>
    (Spec => [](NothingLeftBehind /\ NoGaps /\ SameKeySameRecord))
<1> SUFFICES ASSUME Calm, MaxInsertFaults = 0
             PROVE  Spec => [](NothingLeftBehind /\ NoGaps /\ SameKeySameRecord)
  OBVIOUS
<1>1. Spec => []Undisturbed
  BY CalmIsUndisturbed
<1> QED
  BY <1>1, LeavesNothingBehind, CopiesHaveNoGaps, KeysAgree, PTL

\* In one lifetime of the process a key cannot stand for two records at all,
\* also when INSERTs throw and replays wait.
THEOREM KeysAgreeInOneLifetime == MaxRestarts = 0 => (Spec => []SameKeySameRecord)
<1> SUFFICES ASSUME MaxRestarts = 0 PROVE Spec => []SameKeySameRecord
  OBVIOUS
<1>1. Types => SameKeySameRecord
  BY OneRecordPerKey DEF Types, TypeOK, SameKeySameRecord
<1> QED
  BY <1>1, TypesCorrect, PTL

=============================================================================
