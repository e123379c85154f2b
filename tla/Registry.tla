----------------------------- MODULE Registry -----------------------------
(***************************************************************************)
(* The registry of online clients that several NatServers keep in step     *)
(* (NatServer.cpp, RecvProcess.cpp, PeerManage.cpp): entries broadcast at  *)
(* each heartbeat and forwarded hop by hop, deletions broadcast when a     *)
(* client times out, and full snapshots on request.                        *)
(*                                                                         *)
(* Everything is keyed by uuid, so one client is modelled.  An entry is    *)
(* reduced to the age of its heartbeat, in seconds (last_heartbeat against *)
(* the synchronised clocks): Tick ages all of them.  UDP loses, repeats    *)
(* and reorders, within the second in which a message is sent, or, for     *)
(* deletions (which carry no time), also beyond it (LateDels).  Servers    *)
(* that are linked share SyncAuthSecret, so sync_verify accepts what       *)
(* sync_send_msg signs.  The handlers run on several worker threads; each  *)
(* has one critical section that matters, and two of them interleave like  *)
(* two deliveries.                                                         *)
(***************************************************************************)
EXTENDS Integers, FiniteSets

CONSTANTS
    Servers,
    Links,          \* sync_addrs_ of each server; one with none does not
                    \* take part (sync_enabled)
    Homes,          \* servers the client sends heartbeats to: nat_servers[0]
    TTL,            \* 90: age at which an entry has not timed out yet
    SYNC_HOP_MAX,   \* 3
    SnapEvery,      \* SYNC_SNAPSHOT_INTERVAL in rounds of the timer
    Phase,          \* rounds until each server asks: they started one by one
    MaxBeats,       \* bound: heartbeats in one second
    MaxFaults,      \* bound: messages lost or delivered twice, restarts and
                    \* removals by an operator
    Crashing,       \* bound: the servers that may be restarted
    LateDels        \* bound: a deletion may take longer than its second

ASSUME LinkAssumption ==
    /\ Links \in [Servers -> SUBSET Servers]
    /\ \A s \in Servers : s \notin Links[s] /\ Links[s] # {}
    /\ Homes \subseteq Servers /\ Crashing \subseteq Servers
ASSUME TimeAssumption ==
    /\ TTL \in Nat \ {0} /\ SYNC_HOP_MAX \in Nat \ {0} /\ SnapEvery \in Nat \ {0}
    /\ Phase \in [Servers -> 0 .. (SnapEvery - 1)]
ASSUME BoundAssumption ==
    MaxBeats \in Nat /\ MaxFaults \in Nat /\ LateDels \in BOOLEAN

SYNC_HOP_SNAP == 0      \* 0xFF in the code: a hop no increment has

\* All ages that time out behave alike.
Old == TTL + 1
Age == 0 .. Old
Older(a) == IF a = Old THEN Old ELSE a + 1

VARIABLES
    alive,      \* the client runs
    peers,      \* peers_ of each server: {} or {age}
    seen,       \* sync_seen_: whose entry of this second's heartbeat was seen
    done,       \* servers whose timer had this second's round
    snap,       \* rounds until the next snapshot request
    net,
    beats,      \* heartbeats so far in this second
    beat,       \* history: age of the client's last heartbeat, {} before
    calm,       \* history: nothing but heartbeats happened in this second
    left        \* faults that may still happen

timer == <<done, snap>>
vars == <<alive, peers, seen, timer, net, beats, beat, calm, left>>

\* The messages: send_peer_entry's, and the two without content.
send_peer_entry(s, t, hop, age) ==
    [type |-> "PEER_ENTRY", from |-> s, to |-> t, hop |-> hop, age |-> age]
Del(s, t) == [type |-> "PEER_DEL", from |-> s, to |-> t]
SnapshotReq(s, t) == [type |-> "SNAPSHOT_REQ", from |-> s, to |-> t]

Message ==
    [type : {"PEER_ENTRY"}, from : Servers, to : Servers, hop : Nat, age : Age]
        \cup [type : {"PEER_DEL", "SNAPSHOT_REQ"}, from : Servers, to : Servers]

\* request_sync_snapshot, to all synchronisation peers.
request_sync_snapshot(s) == {SnapshotReq(s, t) : t \in Links[s]}

\* The servers run and the client has not been seen yet.
Init ==
    /\ alive = TRUE
    /\ peers = [s \in Servers |-> {}]
    /\ seen = [s \in Servers |-> {}]
    /\ done = {}
    /\ snap = Phase
    /\ net = {}
    /\ beats = 0
    /\ beat = {}
    /\ calm = TRUE
    /\ left = MaxFaults

-----------------------------------------------------------------------------
(* PeerManager *)

upsert(s) == [peers EXCEPT ![s] = {0}]

\* Faulty variant of upsert_synced: the entry counts from when it arrived.
upsert_synced_arrival(s, hb) == [peers EXCEPT ![s] = {0}]

\* Takes over hb_time, be it older than what the server has.
upsert_synced(s, hb) == [peers EXCEPT ![s] = {hb}]

remove(s) == [peers EXCEPT ![s] = {}]

\* One of the bounded number of things that go wrong.
Fault == left > 0 /\ left' = left - 1

-----------------------------------------------------------------------------
(* The client *)

broadcast_peer_entry(s) == {send_peer_entry(s, t, 1, 0) : t \in Links[s]}

\* handle_heartbeat past its gates.
handle_heartbeat(s) ==
    /\ alive
    /\ s \in Homes
    /\ beats < MaxBeats
    /\ beats' = beats + 1
    /\ beat' = {0}
    /\ peers' = upsert(s)
    /\ net' = net \cup broadcast_peer_entry(s)
    /\ UNCHANGED <<alive, seen, timer, calm, left>>

ClientStops ==
    /\ alive
    /\ alive' = FALSE
    /\ UNCHANGED <<peers, seen, timer, net, beats, beat, calm, left>>

\* MSG_DELETE_UID_REQ: an operator removes the uuid here; nothing is broadcast.
delete_uid(s) ==
    /\ Fault
    /\ peers[s] # {}
    /\ peers' = remove(s)
    /\ calm' = FALSE
    /\ UNCHANGED <<alive, seen, timer, net, beats, beat>>

-----------------------------------------------------------------------------
(* Synchronisation.  rest is the network without the message handled, or   *)
(* with it when it is delivered again.                                     *)

\* broadcast_sync_msg: to all but the server the message came from.
Others(m) == Links[m.to] \ {m.from}

\* seen_sync_entry: increments are told apart by uuid, hb_time and sender.
\* All of them are of this second, and sync_seen_ keeps a key for 300 s.
seen_sync_entry(m) == m.hop # SYNC_HOP_SNAP /\ m.from \in seen[m.to]

\* Faulty variant of SeenNow: hb_time is not part of the key.
SeenNow_any_time == seen

\* No key of an earlier second fits the increments of a new one.
SeenNow == [s \in Servers |-> {}]

Forwards(m) == m.hop # SYNC_HOP_SNAP /\ m.hop < SYNC_HOP_MAX

handle_sync_entry(m, rest) ==
    /\ m.type = "PEER_ENTRY"
    /\ \/ /\ seen_sync_entry(m)
          /\ net' = rest
          /\ UNCHANGED <<peers, seen>>
       \/ /\ ~ seen_sync_entry(m)
          /\ peers' = upsert_synced(m.to, m.age)
          /\ seen' = IF m.hop = SYNC_HOP_SNAP THEN seen
                     ELSE [seen EXCEPT ![m.to] = @ \cup {m.from}]
          /\ net' = rest \cup
                 (IF Forwards(m)
                  THEN {send_peer_entry(m.to, t, m.hop + 1, m.age) : t \in Others(m)} ELSE {})
    /\ calm' = (calm /\ m.hop # SYNC_HOP_SNAP)

\* A deletion is forwarded whether or not the server had the entry.
handle_sync_del(m, rest) ==
    /\ m.type = "PEER_DEL"
    /\ net' = rest \cup {Del(m.to, t) : t \in Others(m)}
    /\ peers' = remove(m.to)
    /\ calm' = FALSE
    /\ UNCHANGED seen

send_sync_snapshot(s, to) ==
    {send_peer_entry(s, to, SYNC_HOP_SNAP, a) : a \in peers[s]}

handle_sync_snapshot_req(m, rest) ==
    /\ m.type = "SNAPSHOT_REQ"
    /\ net' = rest \cup send_sync_snapshot(m.to, m.from)
    /\ UNCHANGED <<peers, seen, calm>>

Handle(m, rest) ==
    /\ \/ handle_sync_entry(m, rest)
       \/ handle_sync_del(m, rest)
       \/ handle_sync_snapshot_req(m, rest)
    /\ UNCHANGED <<alive, timer, beats, beat>>

-----------------------------------------------------------------------------
(* timer_thread, once a second on each server.  Broadcasting what was      *)
(* collected only after the critical section is no different from a        *)
(* deletion that takes its time.                                           *)

\* cleanup_timeout_and_collect
TimedOut(s) == \E a \in peers[s] : a > TTL

timer_thread(s) ==
    /\ s \notin done
    /\ done' = done \cup {s}
    /\ peers' = IF TimedOut(s) THEN remove(s) ELSE peers
    /\ snap' = [snap EXCEPT ![s] = IF @ = 0 THEN SnapEvery - 1 ELSE @ - 1]
    /\ net' = net
           \cup (IF TimedOut(s) THEN {Del(s, t) : t \in Links[s]} ELSE {})
           \cup (IF snap[s] = 0 THEN request_sync_snapshot(s) ELSE {})
    /\ calm' = (calm /\ ~ TimedOut(s))
    /\ UNCHANGED <<alive, seen, beats, beat, left>>

-----------------------------------------------------------------------------
(* Time, the network and crashes *)

\* A second is over: every timer has had its round, and what was sent has
\* arrived or is lost, but for deletions.
Tick ==
    /\ done = Servers
    /\ \A m \in net : LateDels /\ m.type = "PEER_DEL"
    /\ done' = {}
    /\ peers' = [s \in Servers |-> {Older(a) : a \in peers[s]}]
    /\ beat' = {Older(a) : a \in beat}
    /\ seen' = SeenNow
    /\ beats' = 0
    /\ calm' = TRUE
    /\ UNCHANGED <<alive, snap, net, left>>

Receive(m) == Handle(m, net \ {m}) /\ UNCHANGED left

Duplicate(m) == Handle(m, net) /\ Fault

Lose(m) ==
    /\ Fault
    /\ net' = net \ {m}
    /\ calm' = FALSE
    /\ UNCHANGED <<alive, peers, seen, timer, beats, beat>>

\* The registry is in memory only; the server asks for snapshots as it starts.
Restart(s) ==
    /\ Fault
    /\ s \in Crashing
    /\ peers' = remove(s)
    /\ seen' = [seen EXCEPT ![s] = {}]
    /\ done' = done \ {s}
    /\ snap' = [snap EXCEPT ![s] = 0]
    /\ net' = net \cup request_sync_snapshot(s)
    /\ calm' = FALSE
    /\ UNCHANGED <<alive, beats, beat>>

Next ==
    \/ ClientStops \/ Tick
    \/ \E s \in Servers :
          handle_heartbeat(s) \/ delete_uid(s) \/ timer_thread(s) \/ Restart(s)
    \/ \E m \in net : Receive(m) \/ Duplicate(m) \/ Lose(m)

Spec == Init /\ [][Next]_vars

-----------------------------------------------------------------------------
(* Properties *)

TypeOK ==
    /\ alive \in BOOLEAN /\ calm \in BOOLEAN
    /\ peers \in [Servers -> {{}} \cup {{a} : a \in Age}]
    /\ seen \in [Servers -> SUBSET Servers]
    /\ done \subseteq Servers
    /\ snap \in [Servers -> 0 .. (SnapEvery - 1)]
    /\ net \subseteq Message
    /\ \A m \in net : m.type = "PEER_ENTRY" => m.hop \in 0 .. SYNC_HOP_MAX
    /\ beats \in 0 .. MaxBeats
    /\ beat \in {{}} \cup {{a} : a \in Age}
    /\ left \in Nat

\* No server, and no message, knows of a heartbeat the client did not send:
\* copies passed around in snapshots, however often, never make it younger.
NoneFresher ==
    /\ \A s \in Servers : \A a \in peers[s] : \E b \in beat : a >= b
    /\ \A m \in net : m.type = "PEER_ENTRY" => \E b \in beat : m.age >= b

\* The links form a tree, and dist[v][s] <= SYNC_HOP_MAX is the number of
\* links between s and v: one link of s leads towards v, the others away.
TreeDistance(dist) ==
    /\ dist \in [Servers -> [Servers -> 0 .. SYNC_HOP_MAX]]
    /\ \A v \in Servers :
        /\ dist[v][v] = 0
        /\ \A u \in Links[v] : dist[v][u] = 1
        /\ \A s \in Servers \ {v} : \E u \in Links[s] :
              /\ dist[v][u] = dist[v][s] - 1
              /\ \A w \in Links[s] \ {u} : dist[v][w] = dist[v][s] + 1

\* In a second in which nothing else happens (entries may be repeated), a
\* heartbeat reaches every server within SYNC_HOP_MAX links of the one that
\* got it: dropping entries already seen, in this second or an earlier one,
\* never cuts off a server behind the one that drops.
HeartbeatReachesAll ==
    (calm /\ beats > 0 /\ \A m \in net : m.type # "PEER_ENTRY")
        => \A s \in Servers : peers[s] = {0}

-----------------------------------------------------------------------------
(* Liveness: threads run, time passes, messages that are not lost arrive. *)

Addressed(s, t) == {m \in net : m.from = s /\ m.to = t}

FairSpec ==
    /\ Spec
    /\ WF_vars(Tick)
    /\ \A s \in Servers : WF_vars(timer_thread(s))
    /\ \A s \in Servers : \A t \in Links[s] :
           WF_vars(\E m \in Addressed(s, t) : Receive(m))

\* A client that stopped is forgotten by all servers for good: they do not
\* keep telling one another of it.
Forgotten == ~ alive ~> [](\A s \in Servers : peers[s] = {})

\* Loop prevention ("防环", src/README.md:240; "避免广播风暴", no broadcast
\* storm, in the developer guide): a deletion is not passed around for ever.
DeletionsDieOut == []<>(\A m \in net : m.type # "PEER_DEL")
=============================================================================
