--------------------------- MODULE RegistryProofs ---------------------------
(***************************************************************************)
(* The registry for any number of servers, links, time-outs and faults:    *)
(* types, and that no copy of an entry is younger than the client's last   *)
(* heartbeat, so that a stopped client's entries all time out.  Where the  *)
(* links form a tree: that a heartbeat reaches every server.  Where they   *)
(* form none: that deletions go round for ever.                            *)
(***************************************************************************)
EXTENDS Registry, TLAPS

USE DEF upsert, upsert_synced, remove, request_sync_snapshot, broadcast_peer_entry,
        send_sync_snapshot, SeenNow

\* Ages are natural numbers, and a second keeps an age an age.
LEMMA AgeFacts ==
    /\ Age \subseteq Nat /\ 0 \in Age
    /\ \A a \in Age : Older(a) \in Age
    /\ \A a, b \in Age : a >= b => Older(a) >= Older(b)
  BY TimeAssumption DEF Age, Old, Older

\* The messages that servers build have the types of messages.
LEMMA MessageFacts ==
    /\ \A s, t \in Servers, h \in 0 .. SYNC_HOP_MAX, a \in Age :
          /\ send_peer_entry(s, t, h, a) \in Message
          /\ send_peer_entry(s, t, h, a).type = "PEER_ENTRY"
          /\ send_peer_entry(s, t, h, a).hop = h /\ send_peer_entry(s, t, h, a).age = a
    /\ \A s, t \in Servers :
          /\ Del(s, t) \in Message /\ Del(s, t).type # "PEER_ENTRY"
          /\ SnapshotReq(s, t) \in Message /\ SnapshotReq(s, t).type # "PEER_ENTRY"
  BY TimeAssumption DEF send_peer_entry, Del, SnapshotReq, Message

\* What the type invariant says of the network.
NetOK == /\ net \subseteq Message
         /\ \A m \in net : m.type = "PEER_ENTRY" => m.hop \in 0 .. SYNC_HOP_MAX

\* The fields of a message in flight.
LEMMA FieldFacts ==
    ASSUME NetOK, NEW m \in net
    PROVE  /\ m.from \in Servers /\ m.to \in Servers
           /\ m.type = "PEER_ENTRY" => m.age \in Age /\ m.hop \in 0 .. SYNC_HOP_MAX
  BY DEF NetOK, Message

\* Links lead to servers.
LEMMA LinkFacts == \A s \in Servers : Links[s] \subseteq Servers
  BY LinkAssumption

\* Handling a message keeps the types.
LEMMA HandleTypeOK ==
    ASSUME TypeOK, NEW m \in net, NEW rest, rest \subseteq net, Handle(m, rest)
    PROVE  /\ peers' \in [Servers -> {{}} \cup {{a} : a \in Age}]
           /\ seen' \in [Servers -> SUBSET Servers]
           /\ calm' \in BOOLEAN
           /\ NetOK'
<1>1. NetOK
  BY DEF TypeOK, NetOK
<1>2. m.from \in Servers /\ m.to \in Servers
  BY <1>1, FieldFacts
<1>3. CASE handle_sync_entry(m, rest)
  <2>1. m.age \in Age /\ m.hop \in 0 .. SYNC_HOP_MAX
    BY <1>1, <1>3, FieldFacts DEF handle_sync_entry
  <2>2. peers' = peers \/ peers' = [peers EXCEPT ![m.to] = {m.age}]
    BY <1>3 DEF handle_sync_entry
  <2>3. peers' \in [Servers -> {{}} \cup {{a} : a \in Age}]
    BY <1>2, <2>1, <2>2 DEF TypeOK
  <2>4. seen' \in [Servers -> SUBSET Servers]
    BY <1>2, <1>3 DEF handle_sync_entry, TypeOK
  <2>5. net' \subseteq rest \cup
            {k \in {send_peer_entry(m.to, t, m.hop + 1, m.age) : t \in Others(m)} : Forwards(m)}
    BY <1>3 DEF handle_sync_entry
  <2>6. ASSUME Forwards(m), NEW t \in Others(m)
        PROVE  /\ send_peer_entry(m.to, t, m.hop + 1, m.age) \in Message
               /\ send_peer_entry(m.to, t, m.hop + 1, m.age).hop \in 0 .. SYNC_HOP_MAX
    <3>1. m.hop + 1 \in 0 .. SYNC_HOP_MAX
      BY <2>1, <2>6, TimeAssumption DEF Forwards
    <3>2. t \in Servers
      BY <1>2, <2>6, LinkFacts DEF Others
    <3> QED BY <1>2, <2>1, <3>1, <3>2, MessageFacts
  <2>7. NetOK'
    BY <1>1, <2>5, <2>6 DEF NetOK
  <2>8. calm' \in BOOLEAN
    BY <1>3 DEF handle_sync_entry
  <2> QED BY <2>3, <2>4, <2>7, <2>8
<1>4. CASE handle_sync_del(m, rest)
  <2>1. NetOK'
    <3>1. \A t \in Others(m) : Del(m.to, t) \in Message /\ Del(m.to, t).type # "PEER_ENTRY"
      BY <1>2, LinkFacts, MessageFacts DEF Others
    <3> QED BY <1>1, <1>4, <3>1 DEF handle_sync_del, NetOK
  <2> QED BY <1>2, <1>4, <2>1 DEF handle_sync_del, TypeOK
<1>5. CASE handle_sync_snapshot_req(m, rest)
  <2>1. \A a \in peers[m.to] : a \in Age
    BY <1>2 DEF TypeOK
  <2>2. SYNC_HOP_SNAP \in 0 .. SYNC_HOP_MAX
    BY TimeAssumption DEF SYNC_HOP_SNAP
  <2>3. \A a \in peers[m.to] :
            /\ send_peer_entry(m.to, m.from, SYNC_HOP_SNAP, a) \in Message
            /\ send_peer_entry(m.to, m.from, SYNC_HOP_SNAP, a).hop = SYNC_HOP_SNAP
    BY <1>2, <2>1, <2>2, MessageFacts
  <2>4. NetOK'
    BY <1>1, <1>5, <2>2, <2>3 DEF handle_sync_snapshot_req, NetOK
  <2> QED BY <1>5, <2>4 DEF handle_sync_snapshot_req, TypeOK
<1> QED BY <1>3, <1>4, <1>5 DEF Handle

\* Every step keeps the types.
LEMMA StepTypeOK == TypeOK /\ [Next]_vars => TypeOK'
<1> SUFFICES ASSUME TypeOK, [Next]_vars PROVE TypeOK'
  OBVIOUS
<1> USE AgeFacts
<1>1. NetOK
  BY DEF TypeOK, NetOK
<1>2. ASSUME NEW m \in net, Receive(m) \/ Duplicate(m) PROVE TypeOK'
  <2>1. PICK rest : rest \subseteq net /\ Handle(m, rest) /\ (UNCHANGED left \/ Fault)
    BY <1>2 DEF Receive, Duplicate
  <2>2. /\ peers' \in [Servers -> {{}} \cup {{a} : a \in Age}]
        /\ seen' \in [Servers -> SUBSET Servers]
        /\ calm' \in BOOLEAN
        /\ NetOK'
    BY <2>1, HandleTypeOK
  <2>3. left' \in Nat
    BY <2>1 DEF Fault, TypeOK
  <2> QED BY <2>1, <2>2, <2>3 DEF Handle, timer, NetOK, TypeOK
<1>3. ASSUME NEW m \in net, Lose(m) PROVE TypeOK'
  <2>1. left' \in Nat
    BY <1>3 DEF Lose, Fault, TypeOK
  <2>2. NetOK'
    BY <1>1, <1>3 DEF Lose, NetOK
  <2> QED BY <1>3, <2>1, <2>2 DEF Lose, timer, NetOK, TypeOK
<1>4. ASSUME NEW s \in Servers, handle_heartbeat(s) PROVE TypeOK'
  <2>1. 1 \in 0 .. SYNC_HOP_MAX
    BY TimeAssumption
  <2>2. \A t \in Links[s] : send_peer_entry(s, t, 1, 0) \in Message /\ send_peer_entry(s, t, 1, 0).hop = 1
    BY <2>1, LinkFacts, MessageFacts
  <2>3. NetOK'
    BY <1>1, <1>4, <2>1, <2>2 DEF handle_heartbeat, NetOK
  <2>4. beats' \in 0 .. MaxBeats
    BY <1>4, BoundAssumption DEF handle_heartbeat, TypeOK
  <2> QED BY <1>4, <2>3, <2>4 DEF handle_heartbeat, timer, NetOK, TypeOK
<1>5. ASSUME NEW s \in Servers, timer_thread(s) PROVE TypeOK'
  <2>1. snap' \in [Servers -> 0 .. (SnapEvery - 1)]
    BY <1>5, TimeAssumption DEF timer_thread, TypeOK
  <2>2. \A t \in Links[s] :
            /\ Del(s, t) \in Message /\ Del(s, t).type # "PEER_ENTRY"
            /\ SnapshotReq(s, t) \in Message /\ SnapshotReq(s, t).type # "PEER_ENTRY"
    BY LinkFacts, MessageFacts
  <2>3. NetOK'
    BY <1>1, <1>5, <2>2 DEF timer_thread, NetOK
  <2>4. calm' \in BOOLEAN
    BY <1>5 DEF timer_thread
  <2>5. peers' \in [Servers -> {{}} \cup {{a} : a \in Age}]
    BY <1>5 DEF timer_thread, TypeOK
  <2> QED BY <1>5, <2>1, <2>3, <2>4, <2>5 DEF timer_thread, NetOK, TypeOK
<1>6. ASSUME NEW s \in Servers, Restart(s) PROVE TypeOK'
  <2>1. \A t \in Links[s] :
            SnapshotReq(s, t) \in Message /\ SnapshotReq(s, t).type # "PEER_ENTRY"
    BY LinkFacts, MessageFacts
  <2>2. NetOK'
    BY <1>1, <1>6, <2>1 DEF Restart, NetOK
  <2>3. snap' \in [Servers -> 0 .. (SnapEvery - 1)]
    BY <1>6, TimeAssumption DEF Restart, TypeOK
  <2>4. left' \in Nat
    BY <1>6 DEF Restart, Fault, TypeOK
  <2>5. /\ peers' \in [Servers -> {{}} \cup {{a} : a \in Age}]
        /\ seen' \in [Servers -> SUBSET Servers]
        /\ done' \subseteq Servers
    BY <1>6 DEF Restart, TypeOK
  <2> QED BY <1>6, <2>2, <2>3, <2>4, <2>5 DEF Restart, NetOK, TypeOK
<1>7. ASSUME NEW s \in Servers, delete_uid(s) PROVE TypeOK'
  <2>1. left' \in Nat
    BY <1>7 DEF delete_uid, Fault, TypeOK
  <2>2. peers' \in [Servers -> {{}} \cup {{a} : a \in Age}]
    BY <1>7 DEF delete_uid, TypeOK
  <2> QED BY <1>7, <2>1, <2>2 DEF delete_uid, timer, TypeOK
<1>8. CASE Tick
  <2>1. \A S \in {{}} \cup {{a} : a \in Age} :
            {Older(a) : a \in S} \in {{}} \cup {{a} : a \in Age}
    <3> SUFFICES ASSUME NEW S \in {{}} \cup {{a} : a \in Age}
                 PROVE  {Older(a) : a \in S} \in {{}} \cup {{a} : a \in Age}
      OBVIOUS
    <3>1. CASE S = {}
      <4>1. {Older(a) : a \in S} = {}
        BY <3>1
      <4> QED BY <4>1
    <3>2. ASSUME NEW b \in Age, S = {b}
          PROVE  {Older(a) : a \in S} \in {{}} \cup {{a} : a \in Age}
      <4>1. {Older(a) : a \in S} = {Older(b)}
        BY <3>2
      <4> QED BY <4>1
    <3> QED BY <3>1, <3>2
  <2>2. peers' \in [Servers -> {{}} \cup {{a} : a \in Age}]
    BY <1>8, <2>1 DEF Tick, TypeOK
  <2>3. beat' \in {{}} \cup {{a} : a \in Age}
    BY <1>8, <2>1 DEF Tick, TypeOK
  <2>4. beats' \in 0 .. MaxBeats
    BY <1>8, BoundAssumption DEF Tick
  <2>5. seen' \in [Servers -> SUBSET Servers] /\ done' \subseteq Servers
    BY <1>8 DEF Tick
  <2> QED BY <1>8, <2>2, <2>3, <2>4, <2>5 DEF Tick, TypeOK
<1>9. CASE ClientStops
  BY <1>9 DEF ClientStops, timer, TypeOK
<1>10. CASE UNCHANGED vars
  BY <1>10 DEF vars, timer, TypeOK
<1> QED
  BY <1>2, <1>3, <1>4, <1>5, <1>6, <1>7, <1>8, <1>9, <1>10 DEF Next

\* The state always has its type: hops stay within SYNC_HOP_MAX, a server has
\* at most one entry of a uuid.
THEOREM RegistryTypeOK == Spec => []TypeOK
<1>1. Init => TypeOK
  <2> SUFFICES ASSUME Init PROVE TypeOK
    OBVIOUS
  <2>1. net \subseteq Message /\ \A m \in net : m.type # "PEER_ENTRY"
    BY LinkFacts, MessageFacts DEF Init
  <2> QED BY <2>1, TimeAssumption, BoundAssumption DEF Init, TypeOK
<1> QED BY <1>1, StepTypeOK, PTL DEF Spec

-----------------------------------------------------------------------------

\* Every step leaves all copies at least as old as the last heartbeat.
LEMMA StepNoneFresher == TypeOK /\ NoneFresher /\ [Next]_vars => NoneFresher'
<1> SUFFICES ASSUME TypeOK, NoneFresher, [Next]_vars PROVE NoneFresher'
  OBVIOUS
<1> DEFINE Fresh(a) == \E b \in beat : a >= b
<1>1. NetOK
  BY DEF TypeOK, NetOK
<1>2. ASSUME NEW m \in net, Receive(m) \/ Duplicate(m) PROVE NoneFresher'
  <2>1. PICK rest : rest \subseteq net /\ Handle(m, rest)
    BY <1>2 DEF Receive, Duplicate
  <2>2. beat' = beat /\ m.to \in Servers /\ m.from \in Servers
    BY <1>1, <2>1, FieldFacts DEF Handle
  <2>3. CASE handle_sync_entry(m, rest)
    <3>1. Fresh(m.age) /\ m.age \in Age /\ m.hop \in 0 .. SYNC_HOP_MAX
      BY <1>1, <2>3, FieldFacts DEF handle_sync_entry, NoneFresher
    <3>2. peers' = peers \/ peers' = [peers EXCEPT ![m.to] = {m.age}]
      BY <2>3 DEF handle_sync_entry
    <3>3. \A s \in Servers : peers'[s] = peers[s] \/ peers'[s] = {m.age}
      BY <3>2 DEF TypeOK
    <3>4. net' \subseteq rest \cup {send_peer_entry(m.to, t, m.hop + 1, m.age) : t \in Others(m)}
      BY <2>3 DEF handle_sync_entry
    <3>5. \A t : send_peer_entry(m.to, t, m.hop + 1, m.age).age = m.age
      BY DEF send_peer_entry
    <3> QED BY <2>1, <2>2, <3>1, <3>3, <3>4, <3>5 DEF NoneFresher
  <2>4. CASE handle_sync_del(m, rest)
    <3>1. \A s \in Servers : peers'[s] \subseteq peers[s]
      BY <2>4 DEF handle_sync_del, TypeOK
    <3>2. \A k \in net' : k \in net \/ k.type # "PEER_ENTRY"
      BY <2>1, <2>2, <2>4, LinkFacts, MessageFacts DEF handle_sync_del, Others
    <3> QED BY <2>2, <3>1, <3>2 DEF NoneFresher
  <2>5. CASE handle_sync_snapshot_req(m, rest)
    <3>1. \A a : send_peer_entry(m.to, m.from, SYNC_HOP_SNAP, a).age = a
      BY DEF send_peer_entry
    <3>2. \A k \in net' : k \in net \/ k.age \in peers[m.to]
      BY <2>1, <2>5, <3>1 DEF handle_sync_snapshot_req
    <3>3. peers' = peers
      BY <2>5 DEF handle_sync_snapshot_req
    <3> QED BY <2>2, <3>2, <3>3 DEF NoneFresher
  <2> QED BY <2>1, <2>3, <2>4, <2>5 DEF Handle
<1>3. ASSUME NEW m \in net, Lose(m) PROVE NoneFresher'
  BY <1>3 DEF Lose, NoneFresher
<1>4. ASSUME NEW s \in Servers, handle_heartbeat(s) PROVE NoneFresher'
  <2>1. beat' = {0}
    BY <1>4 DEF handle_heartbeat
  <2>2. \A t \in Servers : \A a \in peers'[t] : a \in Nat
    BY <1>4, AgeFacts DEF handle_heartbeat, TypeOK
  <2>3. \A m \in net' : m.type = "PEER_ENTRY" => m.age \in Nat
    <3>1. \A m \in net : m.type = "PEER_ENTRY" => m.age \in Nat
      BY <1>1, FieldFacts, AgeFacts
    <3>2. \A t : send_peer_entry(s, t, 1, 0).age = 0
      BY DEF send_peer_entry
    <3> QED BY <1>4, <3>1, <3>2 DEF handle_heartbeat
  <2> QED BY <2>1, <2>2, <2>3 DEF NoneFresher
<1>5. ASSUME NEW s \in Servers, timer_thread(s) PROVE NoneFresher'
  <2>1. \A t \in Servers : peers'[t] \subseteq peers[t]
    BY <1>5 DEF timer_thread, TypeOK
  <2>2. \A k \in net' : k \in net \/ k.type # "PEER_ENTRY"
    BY <1>5, LinkFacts, MessageFacts DEF timer_thread
  <2> QED BY <1>5, <2>1, <2>2 DEF timer_thread, NoneFresher
<1>6. ASSUME NEW s \in Servers, Restart(s) PROVE NoneFresher'
  <2>1. \A t \in Servers : peers'[t] \subseteq peers[t]
    BY <1>6 DEF Restart, TypeOK
  <2>2. \A k \in net' : k \in net \/ k.type # "PEER_ENTRY"
    BY <1>6, LinkFacts, MessageFacts DEF Restart
  <2> QED BY <1>6, <2>1, <2>2 DEF Restart, NoneFresher
<1>7. ASSUME NEW s \in Servers, delete_uid(s) PROVE NoneFresher'
  <2>1. \A t \in Servers : peers'[t] \subseteq peers[t]
    BY <1>7 DEF delete_uid, TypeOK
  <2> QED BY <1>7, <2>1 DEF delete_uid, NoneFresher
<1>8. CASE Tick
  <2>1. /\ beat' = {Older(a) : a \in beat}
        /\ \A m \in net' : m.type # "PEER_ENTRY"
    BY <1>8 DEF Tick
  <2>2. ASSUME NEW s \in Servers, NEW a \in peers'[s]
        PROVE  \E b \in beat' : a >= b
    <3>1. PICK c \in peers[s] : a = Older(c)
      BY <1>8, <2>2 DEF Tick
    <3>2. PICK b \in beat : c >= b
      BY <2>2, <3>1 DEF NoneFresher
    <3>3. c \in Age /\ b \in Age
      BY <2>2, <3>1, <3>2 DEF TypeOK
    <3>4. Older(c) >= Older(b) /\ Older(b) \in beat'
      BY <2>1, <3>2, <3>3, AgeFacts
    <3> QED BY <3>1, <3>4
  <2> QED BY <2>1, <2>2 DEF NoneFresher
<1>9. CASE ClientStops \/ UNCHANGED vars
  BY <1>9 DEF ClientStops, vars, NoneFresher
<1> QED
  BY <1>2, <1>3, <1>4, <1>5, <1>6, <1>7, <1>8, <1>9 DEF Next

\* No server and no message knows of a heartbeat the client did not send,
\* whatever the servers pass on to one another.
THEOREM RegistryNoneFresher == Spec => []NoneFresher
<1>1. Init => NoneFresher
  <2> SUFFICES ASSUME Init PROVE NoneFresher
    OBVIOUS
  <2>1. \A m \in net : m.type # "PEER_ENTRY"
    BY LinkFacts, MessageFacts DEF Init
  <2> QED BY <2>1 DEF Init, NoneFresher
<1> QED BY <1>1, StepNoneFresher, RegistryTypeOK, PTL DEF Spec

-----------------------------------------------------------------------------
(* A heartbeat reaches all servers: the argument is about an entry that is *)
(* on its way to a server v over a link that leads towards v.              *)

Increment(m) == m.type = "PEER_ENTRY" /\ m.hop # SYNC_HOP_SNAP

\* The server it goes to will not drop it.
Fresh(m) == Increment(m) /\ m.from \notin seen[m.to]

\* The entry is at v, or on its way there from at most r links away.
Reached(dist, v, r) ==
    \/ peers[v] = {0}
    \/ \E m \in net : /\ Fresh(m)
                      /\ dist[v][m.from] = dist[v][m.to] + 1
                      /\ dist[v][m.from] <= r

\* An increment is of this second, moves along a link and away from the
\* server o that got the heartbeat, and its hop counts how far it came.
IncrementOK(dist, m) ==
    Increment(m) =>
        /\ m.age = 0
        /\ m.to \in Links[m.from]
        /\ \E o \in Servers : dist[o][m.from] = m.hop - 1 /\ dist[o][m.to] = m.hop

IncrementsInv(dist) == \A m \in net : IncrementOK(dist, m)

\* What x has seen from a neighbour w behind it is at every server v before
\* it, or on its way from x on; a heartbeat is everywhere or on its way.
SeenInv(dist) ==
    \A x, v \in Servers : \A w \in seen[x] :
        dist[v][w] = dist[v][x] + 1 => Reached(dist, v, dist[v][x])
BeatInv(dist) == beats > 0 => \A v \in Servers : Reached(dist, v, SYNC_HOP_MAX)
ReachInv(dist) == calm => SeenInv(dist) /\ BeatInv(dist)

\* Distances are numbers, 0 only from a server to itself.
LEMMA DistanceFacts ==
    ASSUME NEW CONSTANT dist, TreeDistance(dist)
    PROVE  /\ SYNC_HOP_MAX \in Nat
           /\ \A s, v \in Servers :
                 /\ dist[v][s] \in Nat /\ dist[v][s] <= SYNC_HOP_MAX
                 /\ dist[v][s] = 0 <=> s = v
<1>1. SYNC_HOP_MAX \in Nat
  BY TimeAssumption
<1>2. ASSUME NEW s \in Servers, NEW v \in Servers
      PROVE  dist[v][s] \in Nat /\ dist[v][s] <= SYNC_HOP_MAX
  BY <1>1 DEF TreeDistance
<1>3. ASSUME NEW s \in Servers, NEW v \in Servers, s # v PROVE dist[v][s] # 0
  <2>1. PICK u \in Links[s] : dist[v][u] = dist[v][s] - 1
    BY <1>3 DEF TreeDistance
  <2> QED BY <1>2, <2>1, LinkFacts
<1>4. \A v \in Servers : dist[v][v] = 0
  BY DEF TreeDistance
<1> QED BY <1>1, <1>2, <1>3, <1>4

\* A step towards v exists wherever one is.
LEMMA StepTowards ==
    ASSUME NEW CONSTANT dist, TreeDistance(dist), NEW s \in Servers, NEW v \in Servers, s # v
    PROVE  \E u \in Links[s] : u \in Servers /\ dist[v][s] = dist[v][u] + 1
<1>1. PICK u \in Links[s] : dist[v][u] = dist[v][s] - 1
  BY DEF TreeDistance
<1>2. u \in Servers
  BY LinkFacts
<1> QED BY <1>1, <1>2, DistanceFacts

\* What came to t along a link that leads away from o leads away from it on
\* every other link: no link closes a cycle.
LEMMA AwayStaysAway ==
    ASSUME NEW CONSTANT dist, TreeDistance(dist), NEW o \in Servers,
           NEW s \in Servers, NEW t \in Links[s], dist[o][t] = dist[o][s] + 1,
           NEW w \in Links[t] \ {s}
    PROVE  dist[o][w] = dist[o][t] + 1
<1>1. t \in Servers /\ t # s
  BY LinkAssumption
<1>2. \A y, v \in Servers : dist[v][y] \in Nat /\ (dist[v][y] = 0 <=> y = v)
  BY DistanceFacts
<1>3. s \in Links[t]
  <2>1. PICK u \in Links[t] : dist[s][u] = dist[s][t] - 1
    BY <1>1 DEF TreeDistance
  <2>2. dist[s][t] = 1
    BY DEF TreeDistance
  <2>3. u \in Servers
    BY <1>1, LinkFacts
  <2> QED BY <1>2, <2>1, <2>2, <2>3
<1>4. t # o
  BY <1>1, <1>2
<1>5. PICK u \in Links[t] : /\ dist[o][u] = dist[o][t] - 1
                            /\ \A y \in Links[t] \ {u} : dist[o][y] = dist[o][t] + 1
  BY <1>1, <1>4 DEF TreeDistance
<1>6. u = s
  BY <1>1, <1>2, <1>3, <1>5
<1> QED BY <1>5, <1>6

\* The messages that are no increments.
LEMMA NoIncrements ==
    /\ \A s, t, a : ~ Increment(send_peer_entry(s, t, SYNC_HOP_SNAP, a))
    /\ \A s, t : ~ Increment(Del(s, t)) /\ ~ Increment(SnapshotReq(s, t))
  BY DEF Increment, send_peer_entry, Del, SnapshotReq

\* The fields of the entries that are forwarded and broadcast.
LEMMA EntryFields ==
    \A s, t, h, a :
        /\ send_peer_entry(s, t, h, a).type = "PEER_ENTRY"
        /\ send_peer_entry(s, t, h, a).from = s /\ send_peer_entry(s, t, h, a).to = t
        /\ send_peer_entry(s, t, h, a).hop = h /\ send_peer_entry(s, t, h, a).age = a
  BY DEF send_peer_entry

\* A server that has another neighbour to tell is below the limit of hops.
LEMMA ForwardsOn ==
    ASSUME NEW CONSTANT dist, TreeDistance(dist), NetOK, IncrementsInv(dist),
           NEW m \in net, Increment(m), NEW t \in Others(m)
    PROVE  /\ Forwards(m)
           /\ IncrementOK(dist, send_peer_entry(m.to, t, m.hop + 1, m.age))
<1>1. m.from \in Servers /\ m.to \in Servers /\ m.hop \in 0 .. SYNC_HOP_MAX
  BY FieldFacts DEF Increment
<1>2. /\ m.age = 0 /\ m.to \in Links[m.from]
      /\ \E o \in Servers : dist[o][m.from] = m.hop - 1 /\ dist[o][m.to] = m.hop
  BY DEF IncrementsInv, IncrementOK
<1>3. PICK o \in Servers : dist[o][m.from] = m.hop - 1 /\ dist[o][m.to] = m.hop
  BY <1>2
<1>4. m.hop \in Nat /\ SYNC_HOP_MAX \in Nat
  BY <1>1, TimeAssumption
<1>5. dist[o][m.to] = dist[o][m.from] + 1
  BY <1>3, <1>4
<1>6. t \in Links[m.to] \ {m.from} /\ t \in Servers
  BY <1>1, LinkFacts DEF Others
<1>7. dist[o][t] = m.hop + 1
  BY <1>1, <1>2, <1>3, <1>5, <1>6, AwayStaysAway
<1>8. m.hop < SYNC_HOP_MAX
  BY <1>4, <1>6, <1>7, DistanceFacts
<1>9. Forwards(m)
  BY <1>8 DEF Forwards, Increment
<1>10. IncrementOK(dist, send_peer_entry(m.to, t, m.hop + 1, m.age))
  <2>1. (m.hop + 1) - 1 = m.hop
    BY <1>4
  <2> QED BY <1>2, <1>3, <1>6, <1>7, <2>1, EntryFields DEF IncrementOK
<1> QED BY <1>9, <1>10

\* Every step keeps increments on their way outwards.
LEMMA StepIncrements ==
    ASSUME NEW CONSTANT dist, TreeDistance(dist), TypeOK, IncrementsInv(dist), [Next]_vars
    PROVE  IncrementsInv(dist)'
<1>1. NetOK
  BY DEF TypeOK, NetOK
<1>2. SUFFICES ASSUME NEW k \in net', k \notin net, Increment(k)
               PROVE  IncrementOK(dist, k)
  BY DEF IncrementsInv, IncrementOK
<1>3. ASSUME NEW m \in net, NEW rest, rest \subseteq net, Handle(m, rest)
      PROVE  IncrementOK(dist, k)
  <2>1. CASE handle_sync_entry(m, rest)
    <3>1. PICK t \in Others(m) : Forwards(m) /\ k = send_peer_entry(m.to, t, m.hop + 1, m.age)
      BY <1>2, <1>3, <2>1 DEF handle_sync_entry
    <3>2. Increment(m)
      BY <2>1, <3>1 DEF handle_sync_entry, Forwards, Increment
    <3> QED BY <1>1, <3>1, <3>2, ForwardsOn
  <2>2. CASE handle_sync_del(m, rest) \/ handle_sync_snapshot_req(m, rest)
    BY <1>2, <1>3, <2>2, NoIncrements DEF handle_sync_del, handle_sync_snapshot_req
  <2> QED BY <1>3, <2>1, <2>2 DEF Handle
<1>4. ASSUME NEW m \in net, Receive(m) \/ Duplicate(m) \/ Lose(m) PROVE IncrementOK(dist, k)
  BY <1>2, <1>3, <1>4 DEF Receive, Duplicate, Lose
<1>5. ASSUME NEW s \in Servers, handle_heartbeat(s) PROVE IncrementOK(dist, k)
  <2>1. PICK t \in Links[s] : k = send_peer_entry(s, t, 1, 0)
    BY <1>2, <1>5 DEF handle_heartbeat
  <2>2. dist[s][s] = 1 - 1 /\ dist[s][t] = 1
    BY DEF TreeDistance
  <2> QED BY <2>1, <2>2, EntryFields DEF IncrementOK
<1>6. ASSUME NEW s \in Servers, timer_thread(s) \/ Restart(s) PROVE IncrementOK(dist, k)
  BY <1>2, <1>6, NoIncrements DEF timer_thread, Restart
<1> QED
  BY <1>2, <1>4, <1>5, <1>6 DEF Next, ClientStops, Tick, delete_uid, vars

\* A step that drops no seen entry and no fresh increment keeps what is reached.
LEMMA ReachedKept ==
    ASSUME NEW CONSTANT dist, NEW v \in Servers, NEW r, Reached(dist, v, r),
           peers[v] = {0} => peers'[v] = {0}, seen' = seen, \A k \in net : Fresh(k) => k \in net'
    PROVE  Reached(dist, v, r)'
  BY DEF Reached, Fresh, Increment

\* What is on its way from nearby is on its way from no farther.
LEMMA ReachedFarther ==
    ASSUME NEW CONSTANT dist, TreeDistance(dist), NetOK, NEW v \in Servers,
           NEW q \in Nat, NEW r \in Nat, q <= r, Reached(dist, v, q)
    PROVE  Reached(dist, v, r)
<1>1. \A m \in net : dist[v][m.from] \in Nat
  BY FieldFacts, DistanceFacts
<1> QED BY <1>1 DEF Reached

\* The server m.to passes a fresh increment on: the servers before it are
\* reached from there, and what was reached or on its way stays so.
LEMMA FreshIsPassedOn ==
    ASSUME NEW CONSTANT dist, TreeDistance(dist), TypeOK, IncrementsInv(dist), SeenInv(dist),
           NEW m \in net, Fresh(m), NEW rest, rest \subseteq net, net \ {m} \subseteq rest,
           handle_sync_entry(m, rest), NetOK', NEW v \in Servers
    PROVE  /\ dist[v][m.from] = dist[v][m.to] + 1 => Reached(dist, v, dist[v][m.to])'
           /\ \A r \in Nat : Reached(dist, v, r) => Reached(dist, v, r)'
           /\ seen' = [seen EXCEPT ![m.to] = @ \cup {m.from}]
<1> DEFINE x == m.to
           w == m.from
<1>1. NetOK
  BY DEF TypeOK, NetOK
<1>2. x \in Servers /\ w \in Servers /\ Increment(m) /\ m.age = 0
  BY <1>1, FieldFacts DEF Fresh, IncrementsInv, IncrementOK
<1>3. \A y, u \in Servers : dist[u][y] \in Nat /\ (dist[u][y] = 0 <=> y = u)
  BY DistanceFacts
<1>4. /\ peers' = [peers EXCEPT ![x] = {0}]
      /\ seen' = [seen EXCEPT ![x] = @ \cup {w}]
      /\ rest \subseteq net'
      /\ \A t \in Others(m) : Forwards(m) => send_peer_entry(x, t, m.hop + 1, 0) \in net'
  BY <1>2 DEF handle_sync_entry, seen_sync_entry, Fresh, Increment
<1>5. peers \in [Servers -> {{}} \cup {{a} : a \in Age}] /\ seen \in [Servers -> SUBSET Servers]
  BY DEF TypeOK
<1>6. \A y \in Servers : peers[y] = {0} => peers'[y] = {0}
  BY <1>4, <1>5
<1>7. peers'[x] = {0}
  BY <1>2, <1>4, <1>5
<1>8. ASSUME NEW k \in net, Fresh(k), ~ (k.from = w /\ k.to = x)
      PROVE  k \in net' /\ Fresh(k)'
  <2>1. k.from \in Servers /\ k.to \in Servers /\ k \in net'
    BY <1>1, <1>4, <1>8, FieldFacts
  <2>2. k.from \notin seen'[k.to]
    BY <1>2, <1>4, <1>5, <1>8, <2>1 DEF Fresh
  <2> QED BY <1>8, <2>1, <2>2 DEF Fresh, Increment
<1>9. ASSUME dist[v][w] = dist[v][x] + 1 PROVE Reached(dist, v, dist[v][x])'
  <2>1. CASE v = x
    BY <1>7, <2>1 DEF Reached
  <2>2. CASE v # x
    <3>1. PICK u \in Links[x] : u \in Servers /\ dist[v][x] = dist[v][u] + 1
      BY <1>2, <2>2, StepTowards
    <3>2. u # w /\ u # x /\ dist[v][u] \in Nat /\ dist[v][x] \in Nat
      BY <1>2, <1>3, <1>9, <3>1
    <3>3. u \in Others(m)
      BY <3>1, <3>2 DEF Others
    <3> DEFINE f == send_peer_entry(x, u, m.hop + 1, 0)
    <3>4. f \in net'
      BY <1>1, <1>2, <1>4, <3>3, ForwardsOn
    <3>5. CASE x \notin seen[u]
      <4>1. x \notin seen'[u]
        BY <1>2, <1>4, <1>5, <3>1, <3>2, <3>5
      <4>2. m.hop + 1 # SYNC_HOP_SNAP
        BY <1>1, <1>2, FieldFacts, TimeAssumption DEF SYNC_HOP_SNAP, Increment
      <4>3. Fresh(f)' /\ f.from = x /\ f.to = u
        BY <4>1, <4>2, EntryFields DEF Fresh, Increment
      <4>4. dist[v][x] <= dist[v][x]
        BY <3>2
      <4> HIDE DEF f
      <4> QED BY <3>1, <3>4, <4>3, <4>4 DEF Reached
    <3>6. CASE x \in seen[u]
      <4>1. Reached(dist, v, dist[v][u])
        BY <1>2, <3>1, <3>6 DEF SeenInv
      <4>2. ASSUME NEW k \in net, Fresh(k), dist[v][k.from] = dist[v][k.to] + 1,
                   dist[v][k.from] <= dist[v][u]
            PROVE  Reached(dist, v, dist[v][x])'
        <5>1. dist[v][k.from] \in Nat
          BY <1>1, <1>3, FieldFacts
        <5>2. k.from # w /\ dist[v][k.from] <= dist[v][x]
          BY <1>2, <1>3, <1>9, <3>1, <3>2, <4>2, <5>1
        <5>3. k \in net' /\ Fresh(k)'
          BY <1>8, <4>2, <5>2
        <5> QED BY <4>2, <5>2, <5>3 DEF Reached
      <4>3. peers[v] = {0} => Reached(dist, v, dist[v][x])'
        BY <1>6 DEF Reached
      <4> QED BY <4>1, <4>2, <4>3 DEF Reached
    <3> QED BY <3>5, <3>6
  <2> QED BY <2>1, <2>2
<1>10. ASSUME NEW r \in Nat, Reached(dist, v, r) PROVE Reached(dist, v, r)'
  <2>1. CASE peers[v] = {0}
    BY <1>6, <2>1 DEF Reached
  <2>2. ASSUME NEW k \in net, Fresh(k), dist[v][k.from] = dist[v][k.to] + 1, dist[v][k.from] <= r
        PROVE  Reached(dist, v, r)'
    <3>1. CASE k.from = w /\ k.to = x
      <4>1. Reached(dist, v, dist[v][x])'
        BY <1>9, <2>2, <3>1
      <4>2. dist[v][x] \in Nat /\ dist[v][x] <= r
        BY <1>2, <1>3, <2>2, <3>1
      <4>3. \A n \in net' : dist[v][n.from] \in Nat
        <5>1. \A n \in net' : n.from \in Servers
          BY DEF NetOK, Message
        <5> QED BY <1>3, <5>1
      <4> QED BY <4>1, <4>2, <4>3 DEF Reached
    <3>2. CASE ~ (k.from = w /\ k.to = x)
      BY <1>8, <2>2, <3>2 DEF Reached
    <3> QED BY <3>1, <3>2
  <2> QED BY <1>10, <2>1, <2>2 DEF Reached
<1> QED BY <1>4, <1>9, <1>10

\* In a step that keeps seen and beats, what was reached must stay so.
LEMMA QuietStep ==
    ASSUME NEW CONSTANT dist, TreeDistance(dist), TypeOK, ReachInv(dist), calm' => calm,
           seen' = seen, beats' = beats,
           \A v \in Servers : peers[v] = {0} => peers'[v] = {0},
           \A k \in net : Fresh(k) => k \in net'
    PROVE  ReachInv(dist)'
<1>1. \A v \in Servers : \A r : Reached(dist, v, r) => Reached(dist, v, r)'
  BY ReachedKept
<1>2. SUFFICES ASSUME calm' PROVE SeenInv(dist)' /\ BeatInv(dist)'
  BY DEF ReachInv
<1>3. SeenInv(dist)'
  BY <1>1, <1>2 DEF ReachInv, SeenInv
<1>4. BeatInv(dist)'
  BY <1>1, <1>2 DEF ReachInv, BeatInv
<1> QED BY <1>3, <1>4

\* A heartbeat sets off towards every server, or follows one that did.
LEMMA HeartbeatReaches ==
    ASSUME NEW CONSTANT dist, TreeDistance(dist), TypeOK, ReachInv(dist),
           NEW s \in Servers, handle_heartbeat(s)
    PROVE  ReachInv(dist)'
<1>1. SUFFICES ASSUME calm' PROVE SeenInv(dist)' /\ BeatInv(dist)'
  BY DEF ReachInv
<1>2. /\ calm /\ seen' = seen /\ net \subseteq net'
      /\ peers' = [peers EXCEPT ![s] = {0}]
      /\ \A t \in Links[s] : send_peer_entry(s, t, 1, 0) \in net'
  BY <1>1 DEF handle_heartbeat
<1>3. NetOK /\ SYNC_HOP_MAX \in Nat
  BY TimeAssumption DEF TypeOK, NetOK
<1>4. peers'[s] = {0} /\ \A v \in Servers : peers[v] = {0} => peers'[v] = {0}
  BY <1>2 DEF TypeOK
<1>5. \A v \in Servers : \A r : Reached(dist, v, r) => Reached(dist, v, r)'
  BY <1>2, <1>4, ReachedKept
<1>6. SeenInv(dist)'
  BY <1>2, <1>5 DEF ReachInv, SeenInv
<1>7. ASSUME NEW v \in Servers PROVE Reached(dist, v, SYNC_HOP_MAX)'
  <2>1. CASE v = s
    BY <1>4, <2>1 DEF Reached
  <2>2. CASE v # s
    <3>1. PICK u \in Links[s] : u \in Servers /\ dist[v][s] = dist[v][u] + 1
      BY <2>2, StepTowards
    <3>2. dist[v][u] \in Nat /\ dist[v][u] <= SYNC_HOP_MAX /\ dist[v][s] <= SYNC_HOP_MAX
      BY <3>1, DistanceFacts
    <3> DEFINE f == send_peer_entry(s, u, 1, 0)
    <3>3. f \in net' /\ f.from = s /\ f.to = u /\ Increment(f)
      BY <1>2, EntryFields DEF Increment, SYNC_HOP_SNAP
    <3> HIDE DEF f
    <3>4. CASE s \notin seen[u]
      <4>1. Fresh(f)'
        BY <1>2, <3>3, <3>4 DEF Fresh, Increment
      <4> QED BY <3>1, <3>2, <3>3, <4>1 DEF Reached
    <3>5. CASE s \in seen[u]
      <4>1. Reached(dist, v, dist[v][u])
        BY <1>2, <3>1, <3>5 DEF ReachInv, SeenInv
      <4>2. Reached(dist, v, SYNC_HOP_MAX)
        BY <1>3, <3>2, <4>1, ReachedFarther
      <4> QED BY <1>5, <4>2
    <3> QED BY <3>4, <3>5
  <2> QED BY <2>1, <2>2
<1> QED BY <1>6, <1>7 DEF BeatInv

\* Delivering a message, once or again, loses nothing that is on its way.
LEMMA HandleReaches ==
    ASSUME NEW CONSTANT dist, TreeDistance(dist), TypeOK, IncrementsInv(dist), ReachInv(dist),
           NEW m \in net, NEW rest, rest \subseteq net, net \ {m} \subseteq rest, Handle(m, rest)
    PROVE  ReachInv(dist)'
<1>1. SUFFICES ASSUME calm' PROVE ReachInv(dist)'
  BY DEF ReachInv
<1>2. beats' = beats
  BY DEF Handle
<1>3. CASE handle_sync_entry(m, rest) /\ m.from \in seen[m.to]
  <2>1. calm /\ m.hop # SYNC_HOP_SNAP
    BY <1>1, <1>3 DEF handle_sync_entry
  <2>2. seen' = seen /\ peers' = peers /\ net' = rest
    BY <1>3, <2>1 DEF handle_sync_entry, seen_sync_entry
  <2>3. \A k \in net : Fresh(k) => k \in net'
    BY <1>3, <2>2 DEF Fresh
  <2> QED BY <1>2, <2>1, <2>2, <2>3, QuietStep
<1>4. CASE handle_sync_entry(m, rest) /\ m.from \notin seen[m.to]
  <2>1. calm /\ Fresh(m)
    BY <1>1, <1>4 DEF handle_sync_entry, Fresh, Increment
  <2>2. NetOK'
    BY HandleTypeOK
  <2>3. SeenInv(dist) /\ BeatInv(dist)
    BY <2>1 DEF ReachInv
  <2>4. ASSUME NEW v \in Servers
        PROVE  /\ dist[v][m.from] = dist[v][m.to] + 1 => Reached(dist, v, dist[v][m.to])'
               /\ \A r \in Nat : Reached(dist, v, r) => Reached(dist, v, r)'
               /\ seen' = [seen EXCEPT ![m.to] = @ \cup {m.from}]
    BY <1>4, <2>1, <2>2, <2>3, FreshIsPassedOn
  <2>5. m.to \in Servers /\ seen \in [Servers -> SUBSET Servers]
    BY FieldFacts DEF TypeOK, NetOK
  <2>6. ASSUME NEW x \in Servers, NEW v \in Servers, NEW w \in seen'[x],
               dist[v][w] = dist[v][x] + 1
        PROVE  Reached(dist, v, dist[v][x])'
    <3>1. w \in seen[x] \/ (x = m.to /\ w = m.from)
      BY <2>4, <2>5, <2>6
    <3>2. dist[v][x] \in Nat
      BY DistanceFacts
    <3>3. CASE w \in seen[x]
      <4>1. Reached(dist, v, dist[v][x])
        BY <2>3, <2>6, <3>3 DEF SeenInv
      <4> QED BY <2>4, <3>2, <4>1
    <3>4. CASE x = m.to /\ w = m.from
      BY <2>4, <2>6, <3>4
    <3> QED BY <3>1, <3>3, <3>4
  <2>7. SeenInv(dist)'
    BY <2>6 DEF SeenInv
  <2>8. BeatInv(dist)'
    BY <1>2, <2>3, <2>4, TimeAssumption DEF BeatInv
  <2> QED BY <2>7, <2>8 DEF ReachInv
<1>5. CASE handle_sync_del(m, rest)
  BY <1>1, <1>5 DEF handle_sync_del
<1>6. CASE handle_sync_snapshot_req(m, rest)
  <2>1. calm' = calm /\ seen' = seen /\ peers' = peers /\ rest \subseteq net' /\ ~ Fresh(m)
    BY <1>6 DEF handle_sync_snapshot_req, Fresh, Increment
  <2>2. \A k \in net : Fresh(k) => k \in net'
    BY <2>1
  <2> QED BY <1>2, <2>1, <2>2, QuietStep
<1> QED BY <1>3, <1>4, <1>5, <1>6 DEF Handle

\* Every step keeps a heartbeat on its way to the servers it has not reached.
LEMMA StepReach ==
    ASSUME NEW CONSTANT dist, TreeDistance(dist), TypeOK, IncrementsInv(dist), ReachInv(dist),
           [Next]_vars
    PROVE  ReachInv(dist)'
<1>1. ASSUME NEW m \in net, Receive(m) \/ Duplicate(m) PROVE ReachInv(dist)'
  BY <1>1, HandleReaches DEF Receive, Duplicate
<1>2. ASSUME NEW s \in Servers, handle_heartbeat(s) PROVE ReachInv(dist)'
  BY <1>2, HeartbeatReaches
<1>3. ASSUME NEW s \in Servers, timer_thread(s) PROVE ReachInv(dist)'
  <2>1. CASE TimedOut(s)
    BY <1>3, <2>1 DEF timer_thread, ReachInv
  <2>2. CASE ~ TimedOut(s)
    <3>1. peers' = peers /\ seen' = seen /\ beats' = beats /\ net \subseteq net' /\ (calm' => calm)
      BY <1>3, <2>2 DEF timer_thread
    <3> QED BY <3>1, QuietStep
  <2> QED BY <2>1, <2>2
<1>4. ASSUME NEW s \in Servers, delete_uid(s) \/ Restart(s) PROVE ReachInv(dist)'
  BY <1>4 DEF delete_uid, Restart, ReachInv
<1>5. ASSUME NEW m \in net, Lose(m) PROVE ReachInv(dist)'
  BY <1>5 DEF Lose, ReachInv
<1>6. CASE Tick
  <2>1. \A x \in Servers : seen'[x] = {}
    BY <1>6 DEF Tick
  <2>2. ~ (beats' > 0)
    BY <1>6 DEF Tick
  <2> QED BY <2>1, <2>2 DEF ReachInv, SeenInv, BeatInv
<1>7. CASE ClientStops \/ UNCHANGED vars
  <2>1. /\ peers' = peers /\ seen' = seen /\ beats' = beats /\ net' = net /\ calm' = calm
    BY <1>7 DEF ClientStops, vars
  <2> QED BY <2>1, QuietStep
<1> QED
  BY <1>1, <1>2, <1>3, <1>4, <1>5, <1>6, <1>7 DEF Next

\* Where the links form a tree whose servers are at most SYNC_HOP_MAX links
\* apart, and in a second in which nothing else happens: when no entry is
\* under way any more, every server has the heartbeat.  Neither the limit of
\* hops nor dropping the entries already seen (seen_sync_entry) cuts a server
\* off, whatever is delivered twice or out of order and however many
\* heartbeats the client sends to which servers.
THEOREM RegistryHeartbeatReachesAll ==
    ASSUME NEW CONSTANT dist, TreeDistance(dist)
    PROVE  Spec => []HeartbeatReachesAll
<1>1. Init => IncrementsInv(dist) /\ ReachInv(dist)
  <2> SUFFICES ASSUME Init PROVE IncrementsInv(dist) /\ ReachInv(dist)
    OBVIOUS
  <2>1. \A m \in net : ~ Increment(m)
    BY NoIncrements DEF Init
  <2>2. ~ (beats > 0) /\ \A x \in Servers : seen[x] = {}
    BY DEF Init
  <2> QED BY <2>1, <2>2 DEF IncrementsInv, IncrementOK, ReachInv, SeenInv, BeatInv
<1>2. TypeOK /\ IncrementsInv(dist) /\ ReachInv(dist) /\ [Next]_vars
          => IncrementsInv(dist)' /\ ReachInv(dist)'
  BY StepIncrements, StepReach
<1>3. ReachInv(dist) => HeartbeatReachesAll
  BY DEF ReachInv, BeatInv, Reached, Fresh, Increment, HeartbeatReachesAll
<1> QED BY <1>1, <1>2, <1>3, RegistryTypeOK, PTL DEF Spec

-----------------------------------------------------------------------------
(* Deletions have no hop count and no memory of what was seen.             *)

Deletion(m) == m.type = "PEER_DEL"
DeletionUnderWay == \E d \in net : Deletion(d)

\* Handling a message leaves a deletion under way: another one, the same one
\* delivered twice, or the one that is passed on.
LEMMA HandleCirculates ==
    ASSUME \A s, t \in Servers : Links[s] \ {t} # {},
           NetOK, DeletionUnderWay, NEW m \in net, NEW rest, net \ {m} \subseteq rest,
           Handle(m, rest)
    PROVE  DeletionUnderWay'
<1>1. PICK d \in net : Deletion(d)
  BY DEF DeletionUnderWay
<1>2. rest \subseteq net'
  BY DEF Handle, handle_sync_entry, handle_sync_del, handle_sync_snapshot_req
<1>3. CASE d # m
  BY <1>1, <1>2, <1>3 DEF DeletionUnderWay, Deletion
<1>4. CASE d = m
  <2>1. handle_sync_del(m, rest)
    BY <1>1, <1>4 DEF Handle, handle_sync_entry, handle_sync_snapshot_req, Deletion
  <2>2. m.to \in Servers /\ m.from \in Servers
    BY FieldFacts
  <2>3. PICK t : t \in Others(m)
    BY <2>2 DEF Others
  <2>4. Del(m.to, t) \in net' /\ Deletion(Del(m.to, t))
    BY <2>1, <2>3 DEF handle_sync_del, Deletion, Del
  <2> QED BY <2>4 DEF DeletionUnderWay, Deletion
<1> QED BY <1>3, <1>4

\* The other side of loop prevention: where every server has two links or
\* more, as in the full mesh that setup_sync_peers makes by default of three
\* servers, handle_sync_del always has somebody to pass a deletion on to, so
\* that a deletion once sent is under way for ever unless the network loses
\* the last copy.
THEOREM RegistryDeletionsCirculate ==
    ASSUME \A s, t \in Servers : Links[s] \ {t} # {}
    PROVE  Spec => [][DeletionUnderWay /\ ~ (\E m \in net : Lose(m))
                        => DeletionUnderWay']_vars
<1>1. ASSUME TypeOK, Next, DeletionUnderWay, ~ (\E m \in net : Lose(m))
      PROVE  DeletionUnderWay'
  <2>1. NetOK
    BY <1>1 DEF TypeOK, NetOK
  <2>2. ASSUME NEW m \in net, Receive(m) \/ Duplicate(m) PROVE DeletionUnderWay'
    BY <1>1, <2>1, <2>2, HandleCirculates DEF Receive, Duplicate
  <2>3. CASE net \subseteq net'
    BY <1>1, <2>3 DEF DeletionUnderWay, Deletion
  <2> QED
    BY <1>1, <2>2, <2>3
    DEF Next, ClientStops, Tick, handle_heartbeat, delete_uid, timer_thread, Restart
<1>2. TypeOK /\ [Next]_vars
        => [DeletionUnderWay /\ ~ (\E m \in net : Lose(m)) => DeletionUnderWay']_vars
  BY <1>1
<1> QED BY <1>2, RegistryTypeOK, PTL DEF Spec

-----------------------------------------------------------------------------
(* Why a stopped client is forgotten *)

\* The last heartbeat is past the time-out, and no new one will come.
Gone == ~ alive /\ \A b \in beat : b > TTL

\* Once a client has stopped and its last heartbeat is past the time-out, it
\* stays so, and from then on every entry a server has or a message carries is
\* past the time-out too: whatever the snapshots bring back, the next round of
\* timer_thread removes.
THEOREM RegistryGoneTimesOut ==
    Spec => /\ [][Gone => Gone']_vars
            /\ [](Gone => /\ \A s \in Servers : peers[s] # {} => TimedOut(s)
                          /\ \A m \in net : m.type = "PEER_ENTRY" => m.age > TTL)
<1>1. ASSUME TypeOK, Gone, Next PROVE Gone'
  <2>1. ~ alive'
    BY <1>1
    DEF Gone, Next, ClientStops, Tick, handle_heartbeat, delete_uid, timer_thread,
        Restart, Receive, Duplicate, Handle, Lose
  <2>2. beat' = beat \/ Tick
    BY <1>1
    DEF Gone, Next, ClientStops, handle_heartbeat, delete_uid, timer_thread,
        Restart, Receive, Duplicate, Handle, Lose
  <2>3. CASE Tick
    <3>1. ASSUME NEW b \in beat' PROVE b > TTL
      <4>1. PICK a \in beat : b = Older(a)
        BY <2>3 DEF Tick
      <4>2. a \in Age /\ a > TTL
        BY <1>1 DEF TypeOK, Gone
      <4> QED BY <4>1, <4>2, TimeAssumption DEF Older, Old, Age
    <3> QED BY <2>1, <3>1 DEF Gone
  <2> QED BY <1>1, <2>1, <2>2, <2>3 DEF Gone
<1>2. ASSUME TypeOK, NoneFresher, Gone
      PROVE  /\ \A s \in Servers : peers[s] # {} => TimedOut(s)
             /\ \A m \in net : m.type = "PEER_ENTRY" => m.age > TTL
  <2>1. \A a, b \in Nat : a >= b /\ b > TTL => a > TTL
    BY TimeAssumption
  <2>2. \A b \in beat : b \in Nat /\ b > TTL
    BY <1>2, AgeFacts DEF TypeOK, Gone
  <2>3. ASSUME NEW s \in Servers, peers[s] # {} PROVE TimedOut(s)
    <3>1. PICK a \in peers[s] : a \in Nat
      BY <1>2, <2>3, AgeFacts DEF TypeOK
    <3>2. PICK b \in beat : a >= b
      BY <1>2, <3>1 DEF NoneFresher
    <3> QED BY <2>1, <2>2, <3>1, <3>2 DEF TimedOut
  <2>4. ASSUME NEW m \in net, m.type = "PEER_ENTRY" PROVE m.age > TTL
    <3>1. m.age \in Nat
      BY <1>2, <2>4, FieldFacts, AgeFacts DEF TypeOK, NetOK
    <3>2. PICK b \in beat : m.age >= b
      BY <1>2, <2>4 DEF NoneFresher
    <3> QED BY <2>1, <2>2, <3>1, <3>2
  <2> QED BY <2>3, <2>4
<1>3. TypeOK /\ [Next]_vars => [Gone => Gone']_vars
  BY <1>1
<1> QED BY <1>2, <1>3, RegistryTypeOK, RegistryNoneFresher, PTL DEF Spec
=============================================================================
