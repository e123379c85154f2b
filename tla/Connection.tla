----------------------------- MODULE Connection -----------------------------
(***************************************************************************)
(* How two clients get and keep a path to one another (P2PClient.cpp):     *)
(* CONNECT through the signalling server, ICE agents that exchange their   *)
(* descriptions through it, fallback to the relay when punching times out, *)
(* and the choice of the path for every frame.                             *)
(*                                                                         *)
(* All entry points of a client run under its mutex and are one step each. *)
(* A frame is a "ping", which is answered (PING, DATA), or a "pong", which *)
(* is not (PONG, ACK, and CLOSE, which a session takes without an effect). *)
(* The callbacks on_connected and on_disconnected are set, juice_create    *)
(* succeeds, and punch_socks is empty: nothing fills it.                   *)
(***************************************************************************)
EXTENDS Integers, FiniteSets

CONSTANTS
    Clients,
    Dialers,        \* clients whose applications call connect
    Configs,        \* configurations, the same for all clients
    Networks,       \* what the NATs may let through: sets of "ice", "direct"
    MaxDials,       \* bound: calls of connect that send a request
    MaxCloses,      \* bound: calls of disconnect
    MaxFaults,      \* bound: messages lost or repeated, registrations expired
    MaxLate,        \* bound: deadlines that pass before the signalling is done
    MaxUpsets       \* bound: faults and such deadlines together

\* proxies: the configuration names a relay; offers: the server does
\* (pick_proxy), in its answers to a CONNECT; room: the relay has some left.
Config ==
    [auto_relay : BOOLEAN, force_relay : BOOLEAN, proxies : BOOLEAN, offers : BOOLEAN,
     room : BOOLEAN]

ASSUME ConfigAssumption ==
    Configs \subseteq Config /\ Networks \subseteq SUBSET {"ice", "direct"}
ASSUME DialAssumption == Dialers \subseteq Clients
ASSUME BoundAssumption ==
    /\ MaxDials \in Nat /\ MaxCloses \in Nat
    /\ MaxFaults \in Nat /\ MaxLate \in Nat /\ MaxUpsets \in Nat

Pairs == {p \in Clients \X Clients : p[1] # p[2]}

VARIABLES
    cfg,
    open,           \* the direct paths the NATs let through: "ice", "direct"
    conn,           \* conns_: conn[<<a, b>>] is a's connection to b
    session,        \* the pairs <<a, b>> for which a has a session in sessions_
    known,          \* those for which b's address is in a's addr_to_peer_
    proxies,        \* clients whose proxies_ is not empty
    relay_registered,   \* clients whose relay_registered_ is set
    pending_remote_sdp,
    relay,          \* clients registered at the relay
    net,
    agents,         \* agents created so far: each has its own description
    left            \* what may still happen: dials, closes, faults, late answers

client == <<conn, session, known, proxies, relay_registered, pending_remote_sdp>>
vars == <<cfg, open, client, relay, net, agents, left>>

\* time is now against punch_deadline: "early" before it, "due" from then on,
\* "late" connect_timeout_ms after it.  A number that is 0 stands for none.
Conn ==
    [on : BOOLEAN, connecting : BOOLEAN, connected : BOOLEAN,
     have_direct : BOOLEAN, direct_ok : BOOLEAN, relay_ok : BOOLEAN,
     time : {"early", "due", "late"}, self : BOOLEAN,
     juice : Nat, remote_sdp : Nat, ice : {"gathering", "gathered", "connected", "completed"}]

\* conns_[peer] of a peer without a connection: punch_deadline is 0.
NewConn ==
    [on |-> TRUE, connecting |-> FALSE, connected |-> FALSE,
     have_direct |-> FALSE, direct_ok |-> FALSE, relay_ok |-> FALSE,
     time |-> "late", self |-> FALSE, juice |-> 0, remote_sdp |-> 0, ice |-> "gathering"]
NoConn == [NewConn EXCEPT !.on = FALSE]

\* The signalling messages, those to and from the relay, and frames.
Req(a, b) == [type |-> "CONNECT_REQ", from |-> a, to |-> b]
Ack(a, b, result) == [type |-> "CONNECT_ACK", from |-> b, to |-> a, result |-> result]
Invite(a, b) == [type |-> "CONNECT_INVITE", from |-> a, to |-> b]
send_ice_sdp(b, sdp) == [type |-> "ICE_SDP", to |-> b, sdp |-> sdp]
RegisterRsp(a, result) == [type |-> "REGISTER_RSP", to |-> a, result |-> result]

\* agent is the ICE agent a frame is for, 0 when it goes by another path.
Frame(a, b, via, kind, agent) ==
    [type |-> "FRAME", from |-> a, to |-> b, via |-> via, kind |-> kind, agent |-> agent]

\* start() of all clients.
Init ==
    /\ cfg \in Configs
    /\ open \in Networks
    /\ conn = [p \in Pairs |-> NoConn]
    /\ session = {}
    /\ known = {}
    /\ proxies = IF cfg.proxies THEN Clients ELSE {}
    /\ relay_registered = {}
    /\ pending_remote_sdp = [a \in Clients |-> 0]
    /\ relay = {}
    /\ net = {}
    /\ agents = 0
    /\ left = [dials |-> MaxDials, closes |-> MaxCloses, faults |-> MaxFaults,
               late |-> MaxLate]

-----------------------------------------------------------------------------
(* Parts of the handlers *)

\* conns_[peer]
At(a, b) == IF conn[<<a, b>>].on THEN conn[<<a, b>>] ELSE NewConn

RelayReady(a, c) ==
    \/ c.relay_ok
    \/ /\ a \in relay_registered /\ a \in proxies
       /\ cfg.force_relay \/ c.time # "early"

\* send_tunnel_via: the path a frame takes, or none.
Route(a, c) ==
    IF c.juice # 0 /\ c.direct_ok THEN {"ice"}
    ELSE IF c.have_direct /\ (c.direct_ok \/ ~ RelayReady(a, c)) THEN {"direct"}
    ELSE IF RelayReady(a, c) /\ a \in relay_registered /\ a \in proxies THEN {"relay"}
    ELSE {}

Frames(a, b) == {m \in net : m.type = "FRAME" /\ m.from = a /\ m.to = b}

\* The agents of a and b have one another's descriptions, and a way through.
Paired(a, b) ==
    /\ "ice" \in open
    /\ conn[<<a, b>>].juice # 0 /\ conn[<<a, b>>].remote_sdp = conn[<<b, a>>].juice
    /\ conn[<<b, a>>].juice # 0 /\ conn[<<b, a>>].remote_sdp = conn[<<a, b>>].juice

\* juice_send refuses a frame before the agent has found a way; nobody looks
\* at what it returns.
Sent(a, b, c, kind) ==
    {Frame(a, b, via, kind, IF via = "ice" THEN c.remote_sdp ELSE 0) :
        via \in {v \in Route(a, c) : v = "ice" => c.ice \in {"connected", "completed"}}}

\* Of the frames on their way from a to b only the last one sent is kept:
\* another ping always follows.
send_tunnel_via(a, b, c, kind, rest) ==
    IF Sent(a, b, c, kind) = {} THEN rest
    ELSE (rest \ Frames(a, b)) \cup Sent(a, b, c, kind)

\* ensure_ice_agent: agents' descriptions are told apart by their number.
ensure_ice_agent(c) ==
    IF c.juice # 0 \/ cfg.force_relay THEN c
    ELSE [c EXCEPT !.juice = agents + 1, !.ice = "gathering"]

Created(c) == IF ensure_ice_agent(c) = c THEN 0 ELSE 1

\* juice_set_remote_description keeps the description an agent has.
apply_remote_ice_sdp(c, sdp) ==
    IF c.juice = 0 \/ sdp = 0 \/ c.remote_sdp # 0 THEN c ELSE [c EXCEPT !.remote_sdp = sdp]

\* The list of proxies in an ACK or INVITE, taken if there was none.
parse_proxies(a) == IF cfg.offers \/ cfg.proxies THEN proxies \cup {a} ELSE proxies

Unchanged == UNCHANGED <<cfg, open>>

\* Faulty variant of close_conn: the addresses of the peer stay.
close_conn_keeps_address(a, b) ==
    /\ conn' = [conn EXCEPT ![<<a, b>>] = NoConn]
    /\ session' = session \ {<<a, b>>}
    /\ known' = known

close_conn(a, b) ==
    /\ conn' = [conn EXCEPT ![<<a, b>>] = NoConn]
    /\ session' = session \ {<<a, b>>}
    /\ known' = known \ {<<a, b>>}

-----------------------------------------------------------------------------
(* The application *)

connect(a, b) ==
    /\ left.dials > 0
    /\ ~ At(a, b).connecting /\ ~ At(a, b).connected
    /\ LET c == [At(a, b) EXCEPT !.connecting = TRUE, !.have_direct = FALSE,
                     !.direct_ok = FALSE, !.relay_ok = FALSE, !.time = "early", !.self = TRUE]
       IN  /\ conn' = [conn EXCEPT ![<<a, b>>] = ensure_ice_agent(c)]
           /\ agents' = agents + Created(c)
    /\ net' = net \cup {Req(a, b)}
    /\ left' = [left EXCEPT !.dials = @ - 1]
    /\ UNCHANGED <<session, known, proxies, relay_registered, pending_remote_sdp, relay>>
    /\ Unchanged

disconnect(a, b) ==
    /\ left.closes > 0
    /\ conn[<<a, b>>].on
    /\ close_conn(a, b)
    /\ net' = send_tunnel_via(a, b, conn[<<a, b>>], "pong", net)
    /\ left' = [left EXCEPT !.closes = @ - 1]
    /\ UNCHANGED <<proxies, relay_registered, pending_remote_sdp, relay, agents>>
    /\ Unchanged

\* A message of the application to a peer it is connected with.
send(a, b) ==
    /\ conn[<<a, b>>].connected
    /\ session' = session \cup {<<a, b>>}
    /\ net' = send_tunnel_via(a, b, conn[<<a, b>>], "ping", net)
    /\ UNCHANGED <<conn, known, proxies, relay_registered, pending_remote_sdp,
                   relay, agents, left>>
    /\ Unchanged

-----------------------------------------------------------------------------
(* The worker thread's ticks *)

\* A retransmission or a keep-alive.
tick_sessions(a, b) ==
    /\ <<a, b>> \in session
    /\ net' = IF conn[<<a, b>>].on THEN send_tunnel_via(a, b, conn[<<a, b>>], "ping", net) ELSE net
    /\ UNCHANGED <<conn, session, known, proxies, relay_registered, pending_remote_sdp,
                   relay, agents, left>>
    /\ Unchanged

CanRegister(a) == cfg.auto_relay /\ a \notin relay_registered /\ a \in proxies

\* The request and the relay's answer to it: do_register, or a refusal for want
\* of room.  rest is the network without the answer.
relay_register(a, rest) ==
    /\ relay' = IF cfg.room THEN relay \cup {a} ELSE relay
    /\ net' = rest \cup {RegisterRsp(a, IF cfg.room THEN "ok" ELSE "refused")}

tick_relay(a) ==
    /\ CanRegister(a)
    /\ relay_register(a, net)
    /\ UNCHANGED <<client, agents, left>>
    /\ Unchanged

\* do_punch: an agent does its own punching; without one a session is made.
tick_conn_punch(a, b) ==
    /\ conn[<<a, b>>].have_direct /\ conn[<<a, b>>].time = "early"
    /\ session' = IF conn[<<a, b>>].juice # 0 THEN session ELSE session \cup {<<a, b>>}
    /\ UNCHANGED <<conn, known, net, relay>>

no_response(a, b) ==
    /\ ~ cfg.force_relay
    /\ ~ conn[<<a, b>>].have_direct
    /\ conn[<<a, b>>].time = "late"
    /\ close_conn(a, b)
    /\ UNCHANGED <<net, relay>>

\* Faulty variant of NeedRelay: the end of punching goes unnoticed.
NeedRelay_forced(c) == cfg.force_relay

NeedRelay(c) ==
    cfg.force_relay \/ (c.have_direct /\ c.time # "early" /\ ~ c.direct_ok)

tick_conn_relay(a, b) ==
    /\ NeedRelay(conn[<<a, b>>])
    /\ cfg.auto_relay /\ a \in proxies
    /\ session' = session \cup {<<a, b>>}
    /\ LET sent == send_tunnel_via(a, b, conn[<<a, b>>], "ping", net)
       IN  IF CanRegister(a) THEN relay_register(a, sent) ELSE net' = sent /\ UNCHANGED relay
    /\ UNCHANGED <<conn, known>>

no_relay(a, b) ==
    /\ ~ cfg.force_relay
    /\ NeedRelay(conn[<<a, b>>])
    /\ ~ cfg.auto_relay \/ a \notin proxies
    /\ close_conn(a, b)
    /\ UNCHANGED <<net, relay>>

\* relay_ok comes with connected, so tick_conn_fsm has nothing to do.
tick_connections(a, b) ==
    /\ conn[<<a, b>>].connecting /\ ~ conn[<<a, b>>].connected
    /\ \/ tick_conn_punch(a, b)
       \/ no_response(a, b)
       \/ tick_conn_relay(a, b)
       \/ no_relay(a, b)
    /\ UNCHANGED <<proxies, relay_registered, pending_remote_sdp, agents, left>>
    /\ Unchanged

-----------------------------------------------------------------------------
(* Messages.  rest is the network without the message handled, or with it  *)
(* when it is delivered again.                                             *)

\* The server: the destination is registered or not, the source logged in
\* or not (result 3, which only the login takes notice of).
connect_req(m, rest) ==
    /\ m.type = "CONNECT_REQ"
    /\ \E answer \in {{Ack(m.from, m.to, "ok"), Invite(m.from, m.to)},
                      {Ack(m.from, m.to, "not_found")}, {}} : net' = rest \cup answer
    /\ UNCHANGED <<client, relay, agents>>

on_connect_ack(m, rest) ==
    LET a == m.to
        b == m.from
        c == [At(a, b) EXCEPT !.connecting = TRUE]
    IN  /\ m.type = "CONNECT_ACK"
        /\ net' = rest
        /\ \/ /\ m.result = "not_found"
              /\ close_conn(a, b)
              /\ UNCHANGED proxies
           \/ /\ m.result = "ok"
              /\ conn' = [conn EXCEPT ![<<a, b>>] =
                     [c EXCEPT !.have_direct = ~ cfg.force_relay,
                               !.time = IF cfg.force_relay THEN "due" ELSE "early"]]
              /\ known' = IF cfg.force_relay THEN known ELSE known \cup {<<a, b>>}
              /\ proxies' = parse_proxies(a)
              /\ UNCHANGED session
        /\ UNCHANGED <<relay_registered, pending_remote_sdp, relay, agents>>

on_connect_invite(m, rest) ==
    LET b == m.to
        a == m.from
        c == [At(b, a) EXCEPT !.connecting = TRUE, !.direct_ok = FALSE, !.self = TRUE,
                  !.have_direct = ~ cfg.force_relay,
                  !.time = IF cfg.force_relay THEN "due" ELSE "early"]
    IN  /\ m.type = "CONNECT_INVITE"
        /\ net' = rest
        /\ conn' = [conn EXCEPT ![<<b, a>>] =
               apply_remote_ice_sdp(ensure_ice_agent(c), pending_remote_sdp[b])]
        /\ agents' = agents + Created(c)
        /\ pending_remote_sdp' =
               IF cfg.force_relay THEN pending_remote_sdp
               ELSE [pending_remote_sdp EXCEPT ![b] = 0]
        /\ known' = IF cfg.force_relay THEN known ELSE known \cup {<<b, a>>}
        /\ proxies' = parse_proxies(b)
        /\ UNCHANGED <<session, relay_registered, relay>>

\* Faulty variant of on_ice_sdp: a description is kept for an invitation
\* only, also when a connection waits for it.
on_ice_sdp_kept(m, rest) ==
    /\ m.type = "ICE_SDP"
    /\ net' = rest
    /\ pending_remote_sdp' = [pending_remote_sdp EXCEPT ![m.to] = m.sdp]
    /\ UNCHANGED <<conn, session, known, proxies, relay_registered, relay, agents>>

\* A description does not say whose it is: it goes to the first connection
\* that waits for one, or is kept for the next invitation.
on_ice_sdp(m, rest) ==
    LET a == m.to
        Targets == {b \in Clients \ {a} : /\ conn[<<a, b>>].connecting
                                          /\ conn[<<a, b>>].juice # 0
                                          /\ conn[<<a, b>>].remote_sdp = 0}
    IN  /\ m.type = "ICE_SDP"
        /\ net' = rest
        /\ \/ /\ Targets = {}
              /\ pending_remote_sdp' = [pending_remote_sdp EXCEPT ![a] = m.sdp]
              /\ UNCHANGED conn
           \/ /\ \E b \in Targets :
                    conn' = [conn EXCEPT ![<<a, b>>] = apply_remote_ice_sdp(@, m.sdp)]
              /\ UNCHANGED pending_remote_sdp
        /\ UNCHANGED <<session, known, proxies, relay_registered, relay, agents>>

\* A refusal is only reported; tick_relay asks again.
register_rsp(m, rest) ==
    /\ m.type = "REGISTER_RSP"
    /\ relay_registered' =
           IF m.result = "ok" THEN relay_registered \cup {m.to} ELSE relay_registered
    /\ net' = rest
    /\ UNCHANGED <<conn, session, known, proxies, pending_remote_sdp, relay, agents>>

-----------------------------------------------------------------------------
(* Frames and ICE *)

\* on_tunnel_frame: a's session takes the frame and answers over the path
\* that connection c has before the frame is taken into account.
on_tunnel_frame(a, b, c, kind, rest) ==
    /\ session' = session \cup {<<a, b>>}
    /\ net' = IF kind = "ping" THEN send_tunnel_via(a, b, c, "pong", rest) ELSE rest

on_juice_recv(a, b, kind, rest) ==
    /\ conn[<<a, b>>].self
    /\ on_tunnel_frame(a, b, conn[<<a, b>>], kind, rest)
    /\ UNCHANGED conn

handle_packet(a, b, kind, rest) ==
    /\ "direct" \in open /\ <<a, b>> \in known
    /\ on_tunnel_frame(a, b, At(a, b), kind, rest)
    /\ conn' = [conn EXCEPT ![<<a, b>>] =
           [At(a, b) EXCEPT !.connected = @ \/ ~ At(a, b).direct_ok, !.direct_ok = TRUE]]

\* The relay passes the frame on to a registered client; a peer that is not
\* known gets a connection.
relay_data(a, b, kind, rest) ==
    /\ a \in relay
    /\ on_tunnel_frame(a, b, At(a, b), kind, rest)
    /\ conn' = [conn EXCEPT ![<<a, b>>] =
           [At(a, b) EXCEPT !.connected = @ \/ ~ At(a, b).relay_ok, !.relay_ok = TRUE]]

Arrives(m) ==
    \/ m.via = "ice" /\ conn[<<m.to, m.from>>].juice = m.agent /\ conn[<<m.to, m.from>>].self
    \/ m.via = "direct" /\ "direct" \in open /\ <<m.to, m.from>> \in known
    \/ m.via = "relay" /\ m.to \in relay

on_frame(m, rest) ==
    /\ m.type = "FRAME"
    /\ \/ m.via = "ice" /\ Arrives(m) /\ on_juice_recv(m.to, m.from, m.kind, rest)
       \/ m.via = "direct" /\ handle_packet(m.to, m.from, m.kind, rest)
       \/ m.via = "relay" /\ relay_data(m.to, m.from, m.kind, rest)
       \/ ~ Arrives(m) /\ net' = rest /\ UNCHANGED <<conn, session>>
    /\ UNCHANGED <<known, proxies, relay_registered, pending_remote_sdp, relay, agents>>

on_juice_gathering_done(a, b) ==
    /\ conn[<<a, b>>].juice # 0 /\ conn[<<a, b>>].ice = "gathering"
    /\ conn[<<a, b>>].self
    /\ conn' = [conn EXCEPT ![<<a, b>>].ice = "gathered"]
    /\ net' = net \cup {send_ice_sdp(b, conn[<<a, b>>].juice)}
    /\ UNCHANGED <<session, known, proxies, relay_registered, pending_remote_sdp,
                   relay, agents, left>>
    /\ Unchanged

\* Faulty variant of on_juice_state: connected without a path.
on_juice_state_no_path(a, b) ==
    /\ Paired(a, b)
    /\ conn[<<a, b>>].self
    /\ \E s \in {<<"gathered", "connected">>, <<"connected", "completed">>} :
          /\ conn[<<a, b>>].ice = s[1]
          /\ conn' = [conn EXCEPT ![<<a, b>>] =
                 [@ EXCEPT !.ice = s[2], !.connected = TRUE]]
    /\ UNCHANGED <<session, known, proxies, relay_registered, pending_remote_sdp,
                   relay, net, agents, left>>
    /\ Unchanged

\* JUICE_STATE_CONNECTED, and then JUICE_STATE_COMPLETED.
on_juice_state(a, b) ==
    /\ Paired(a, b)
    /\ conn[<<a, b>>].self
    /\ \E s \in {<<"gathered", "connected">>, <<"connected", "completed">>} :
          /\ conn[<<a, b>>].ice = s[1]
          /\ conn' = [conn EXCEPT ![<<a, b>>] =
                 [@ EXCEPT !.ice = s[2], !.direct_ok = TRUE, !.connected = TRUE]]
    /\ UNCHANGED <<session, known, proxies, relay_registered, pending_remote_sdp,
                   relay, net, agents, left>>
    /\ Unchanged

-----------------------------------------------------------------------------
(* Time, the network, the relay's time-out *)

Handle(m, rest) ==
    /\ \/ connect_req(m, rest) \/ on_connect_ack(m, rest) \/ on_connect_invite(m, rest)
       \/ on_ice_sdp(m, rest) \/ register_rsp(m, rest) \/ on_frame(m, rest)
    /\ Unchanged

MayUpset == (MaxFaults - left.faults) + (MaxLate - left.late) < MaxUpsets

Fault == MayUpset /\ left.faults > 0 /\ left' = [left EXCEPT !.faults = @ - 1]

SignallingDone == \A m \in net : m.type \in {"FRAME", "REGISTER_RSP"}

\* Time passes whatever is under way.
Elapse(a, b) ==
    /\ conn[<<a, b>>].connecting
    /\ IF SignallingDone THEN UNCHANGED left
       ELSE MayUpset /\ left.late > 0 /\ left' = [left EXCEPT !.late = @ - 1]
    /\ \E s \in {<<"early", "due">>, <<"due", "late">>} :
          conn[<<a, b>>].time = s[1] /\ conn' = [conn EXCEPT ![<<a, b>>].time = s[2]]
    /\ UNCHANGED <<session, known, proxies, relay_registered, pending_remote_sdp,
                   relay, net, agents>>
    /\ Unchanged

Receive(m) == Handle(m, net \ {m}) /\ UNCHANGED left

Duplicate(m) == Handle(m, net) /\ Fault

Lose(m) ==
    /\ Fault
    /\ net' = net \ {m}
    /\ UNCHANGED <<client, relay, agents>>
    /\ Unchanged

\* REG_TTL is over: no frame renews a registration, and no tick does.
RelayForgets(a) ==
    /\ Fault
    /\ a \in relay
    /\ relay' = relay \ {a}
    /\ UNCHANGED <<client, net, agents>>
    /\ Unchanged

Next ==
    \/ \E p \in Pairs :
          \/ p[1] \in Dialers /\ connect(p[1], p[2])
          \/ disconnect(p[1], p[2]) \/ send(p[1], p[2]) \/ tick_sessions(p[1], p[2])
          \/ tick_connections(p[1], p[2]) \/ Elapse(p[1], p[2])
          \/ on_juice_gathering_done(p[1], p[2]) \/ on_juice_state(p[1], p[2])
    \/ \E a \in Clients : tick_relay(a) \/ RelayForgets(a)
    \/ \E m \in net : Receive(m) \/ Duplicate(m) \/ Lose(m)

Spec == Init /\ [][Next]_vars

-----------------------------------------------------------------------------
(* Properties *)

Message ==
    [type : {"CONNECT_REQ", "CONNECT_INVITE"}, from : Clients, to : Clients]
        \cup [type : {"CONNECT_ACK"}, from : Clients, to : Clients, result : {"ok", "not_found"}]
        \cup [type : {"ICE_SDP"}, to : Clients, sdp : Nat \ {0}]
        \cup [type : {"REGISTER_RSP"}, to : Clients, result : {"ok", "refused"}]
        \cup [type : {"FRAME"}, from : Clients, to : Clients,
              via : {"ice", "direct", "relay"}, kind : {"ping", "pong"}, agent : Nat]

TypeOK ==
    /\ cfg \in Configs
    /\ open \in Networks
    /\ conn \in [Pairs -> Conn]
    /\ session \subseteq Pairs
    /\ known \subseteq Pairs
    /\ proxies \subseteq Clients
    /\ relay_registered \subseteq proxies
    /\ pending_remote_sdp \in [Clients -> Nat]
    /\ relay \subseteq Clients
    /\ net \subseteq Message
    /\ agents \in Nat
    /\ left \in [dials : 0 .. MaxDials, closes : 0 .. MaxCloses, faults : 0 .. MaxFaults,
                late : 0 .. MaxLate]

\* What belongs to a connection goes with it: no session, address or agent
\* of a peer without one (handle_packet would make a connection without a
\* name), and the callbacks of an agent find self set.
NoOrphans ==
    \A p \in Pairs :
        /\ p \in session \/ p \in known => conn[p].on
        /\ conn[p].juice # 0 => conn[p].self

\* The frames of a connected client leave it, with two exceptions: a relay
\* connected it before answering its own registration; or a frame by the
\* direct path connected it, and send_tunnel_via prefers an ICE agent that
\* has not found a way (juice_send then fails, unnoticed) to the path that is
\* proven.
ConnectedSends ==
    \A p \in Pairs :
        conn[p].connected /\ Sent(p[1], p[2], conn[p], "ping") = {}
            => \/ conn[p].relay_ok /\ p[1] \notin relay_registered
               \/ p \in known /\ conn[p].juice # 0 /\ conn[p].direct_ok

-----------------------------------------------------------------------------
(* Liveness: the worker thread ticks, ICE agents do their work, time       *)
(* passes, messages that are not lost arrive.                              *)

FairSpec ==
    /\ Spec
    /\ WF_vars(\E m \in net : m.type \notin {"FRAME", "REGISTER_RSP"} /\ Receive(m))
    /\ WF_vars(\E p \in Pairs : on_juice_gathering_done(p[1], p[2]) \/ on_juice_state(p[1], p[2]))
    /\ WF_vars(\E p \in Pairs : Elapse(p[1], p[2]))
    /\ \A a \in Clients :
          /\ WF_vars(tick_relay(a))
          /\ WF_vars(\E m \in net : m.type = "REGISTER_RSP" /\ m.to = a /\ Receive(m))
    /\ \A p \in Pairs :
          /\ WF_vars(tick_connections(p[1], p[2]))
          /\ WF_vars(\E m \in Frames(p[1], p[2]) : Receive(m))

\* Connecting comes to an end, or to the relay: the path is there, the
\* connection is closed for want of an answer or of a relay, or punching is
\* over and the client tries the relay, whatever is lost, late or refused.
\* The relay is tried without an end: the code has no time-out there.
ConnectingSettles ==
    \A p \in Pairs :
        conn[p].connecting ~> \/ conn[p].connected
                              \/ ~ conn[p].on
                              \/ NeedRelay(conn[p]) /\ (cfg.force_relay \/ p[1] \in proxies)

\* Where ICE can get through, both ends come to use it, unless the
\* signalling is later than the deadline: a description that overtakes the
\* invitation is kept for it (pending_remote_sdp_).
DirectWhenOpen ==
    \A p \in Pairs :
        ("ice" \in open /\ ~ cfg.force_relay /\ conn[<<p[2], p[1]>>].on /\ conn[p].on)
            ~> (conn[p].direct_ok \/ ~ conn[p].on \/ left.late < MaxLate)
=============================================================================
