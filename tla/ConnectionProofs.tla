-------------------------- MODULE ConnectionProofs --------------------------
(***************************************************************************)
(* Theorems about Connection, for any clients, configurations, networks,   *)
(* faults and numbers of calls.                                            *)
(***************************************************************************)
EXTENDS Connection, TLAPS

-----------------------------------------------------------------------------
(* The inductive invariant *)

\* A connection: empty when there is none; with a path when connected.
GoodConn(c) ==
    /\ ~ c.on => c = NoConn
    /\ c.juice # 0 => c.self
    /\ cfg.force_relay => c.juice = 0 /\ ~ c.have_direct
    /\ c.connected => c.relay_ok \/ c.have_direct \/ (c.juice # 0 /\ c.direct_ok)

\* An agent that has found a way through.
Through(c) == c.ice \in {"connected", "completed"}

\* Sessions and addresses belong to connections; an address is that of a peer
\* whose ACK or INVITE has set have_direct; the direct path is proven by a
\* frame from such an address or by an agent.
ConnInv ==
    \A p \in Pairs :
        /\ GoodConn(conn[p])
        /\ p \in session => conn[p].on
        /\ p \in known => conn[p].have_direct /\ conn[p].connecting
        /\ conn[p].direct_ok => p \in known \/ Through(conn[p])

\* The messages under way, with the relays known to the clients P.
NetOK(n, P) ==
    /\ n \subseteq Message
    /\ \A m \in n :
          /\ m.type \notin {"ICE_SDP", "REGISTER_RSP"} => m.from # m.to
          /\ m.type = "REGISTER_RSP" => m.to \in P

IInv == TypeOK /\ ConnInv /\ NetOK(net, proxies)

-----------------------------------------------------------------------------
(* Lemmas *)

\* A pair is its two members.
LEMMA PairMembers ==
    ASSUME NEW p \in Pairs
    PROVE  p[1] \in Clients /\ p[2] \in Clients /\ p[1] # p[2] /\ <<p[1], p[2]>> = p
BY DEF Pairs

\* A step that replaces one connection by a good one.
LEMMA Update ==
    ASSUME TypeOK, ConnInv, cfg' = cfg,
           NEW a \in Clients, NEW b \in Clients, a # b, NEW d \in Conn, GoodConn(d),
           conn' = [conn EXCEPT ![<<a, b>>] = d],
           session' \subseteq session \cup {<<a, b>>},
           known' \subseteq known \cup {<<a, b>>},
           <<a, b>> \in session' => d.on,
           <<a, b>> \in known' => d.have_direct /\ d.connecting,
           known \subseteq known' \cup {<<a, b>>},
           d.direct_ok => <<a, b>> \in known' \/ Through(d)
    PROVE  /\ ConnInv'
           /\ conn' \in [Pairs -> Conn] /\ session' \subseteq Pairs /\ known' \subseteq Pairs
<1> DEFINE q == <<a, b>>
<1>1. q \in Pairs
  BY DEF Pairs
<1>2. conn' = [conn EXCEPT ![q] = d]
  OBVIOUS
<1>3. conn \in [Pairs -> Conn] /\ session \subseteq Pairs /\ known \subseteq Pairs
  BY DEF TypeOK
<1>4. \A p \in Pairs : conn'[p] = IF p = q THEN d ELSE conn[p]
  BY <1>1, <1>2, <1>3
<1>5. conn' \in [Pairs -> Conn]
  BY <1>1, <1>2, <1>3
<1>6. session' \subseteq Pairs /\ known' \subseteq Pairs
  BY <1>1, <1>3
<1>7. ASSUME NEW p \in Pairs
      PROVE  /\ GoodConn(conn[p])'
             /\ p \in session' => conn'[p].on
             /\ p \in known' => conn'[p].have_direct /\ conn'[p].connecting
             /\ conn'[p].direct_ok => p \in known' \/ Through(conn'[p])
  <2>1. CASE p = q
    BY <2>1, <1>4 DEF GoodConn, NoConn, NewConn, Through
  <2>2. CASE p # q
    BY <2>2, <1>4 DEF GoodConn, NoConn, NewConn, ConnInv, Through
  <2> QED BY <2>1, <2>2
<1> QED BY <1>5, <1>6, <1>7 DEF ConnInv, Through

\* A step that touches no connection, session or address.
LEMMA Keep ==
    ASSUME TypeOK, ConnInv, cfg' = cfg, conn' = conn, session' = session, known' = known
    PROVE  /\ ConnInv'
           /\ conn' \in [Pairs -> Conn] /\ session' \subseteq Pairs /\ known' \subseteq Pairs
BY DEF TypeOK, ConnInv, GoodConn, NoConn, NewConn, Through

\* What the invariant says of one connection.
LEMMA ConnFacts ==
    ASSUME TypeOK, ConnInv, NEW a \in Clients, NEW b \in Clients, a # b
    PROVE  /\ <<a, b>> \in Pairs
           /\ conn[<<a, b>>] \in Conn /\ GoodConn(conn[<<a, b>>])
           /\ At(a, b) \in Conn /\ GoodConn(At(a, b)) /\ At(a, b).on
           /\ conn[<<a, b>>].on => At(a, b) = conn[<<a, b>>]
           /\ ~ conn[<<a, b>>].on => At(a, b) = NewConn /\ conn[<<a, b>>] = NoConn
           /\ <<a, b>> \in session => conn[<<a, b>>].on
           /\ <<a, b>> \in known => conn[<<a, b>>].have_direct /\ conn[<<a, b>>].connecting
           /\ conn[<<a, b>>].direct_ok => <<a, b>> \in known \/ Through(conn[<<a, b>>])
           /\ At(a, b).direct_ok => <<a, b>> \in known \/ Through(At(a, b))
           /\ ~ NoConn.direct_ok
           /\ NoConn \in Conn /\ NewConn \in Conn
           /\ GoodConn(NoConn) /\ GoodConn(NewConn)
<1>1. <<a, b>> \in Pairs
  BY DEF Pairs
<1>2. NoConn \in Conn /\ NewConn \in Conn /\ NewConn.on /\ ~ NewConn.direct_ok /\ ~ NoConn.direct_ok
  BY DEF NoConn, NewConn, Conn
<1>3. GoodConn(NoConn) /\ GoodConn(NewConn)
  BY DEF NoConn, NewConn, GoodConn
<1>4. conn[<<a, b>>] \in Conn /\ GoodConn(conn[<<a, b>>])
  BY <1>1 DEF TypeOK, ConnInv
<1>5. ~ conn[<<a, b>>].on => conn[<<a, b>>] = NoConn
  BY <1>4 DEF GoodConn
<1>6. /\ <<a, b>> \in session => conn[<<a, b>>].on
      /\ <<a, b>> \in known => conn[<<a, b>>].have_direct /\ conn[<<a, b>>].connecting
      /\ conn[<<a, b>>].direct_ok => <<a, b>> \in known \/ Through(conn[<<a, b>>])
  BY <1>1 DEF ConnInv
<1> QED BY <1>1, <1>2, <1>3, <1>4, <1>5, <1>6 DEF At

\* Frames are messages between two clients.
LEMMA SendFacts ==
    ASSUME TypeOK, NEW a \in Clients, NEW b \in Clients, a # b, NEW c \in Conn,
           NEW kind \in {"ping", "pong"}, NEW rest, NEW P, NetOK(rest, P)
    PROVE  NetOK(send_tunnel_via(a, b, c, kind, rest), P)
<1>1. Route(a, c) \subseteq {"ice", "direct", "relay"}
  BY DEF Route
<1>2. \A m \in Sent(a, b, c, kind) : m \in Message /\ m.type = "FRAME" /\ m.from = a /\ m.to = b
  BY <1>1 DEF Sent, Frame, Message, Conn
<1>3. send_tunnel_via(a, b, c, kind, rest) \subseteq rest \cup Sent(a, b, c, kind)
  BY DEF send_tunnel_via
<1> QED BY <1>2, <1>3 DEF NetOK

\* A new agent, for a connection whose callbacks find self.
LEMMA AgentFacts ==
    ASSUME TypeOK, NEW c \in Conn, GoodConn(c), c.on, c.self
    PROVE  /\ ensure_ice_agent(c) \in Conn /\ GoodConn(ensure_ice_agent(c))
           /\ ensure_ice_agent(c).on /\ ensure_ice_agent(c).self
           /\ ensure_ice_agent(c).have_direct = c.have_direct
           /\ ensure_ice_agent(c).connecting = c.connecting
           /\ ensure_ice_agent(c).direct_ok = c.direct_ok
           /\ agents + Created(c) \in Nat
<1>1. agents \in Nat
  BY DEF TypeOK
<1>2. Created(c) \in Nat
  BY DEF Created
<1>3. CASE c.juice # 0 \/ cfg.force_relay
  BY <1>1, <1>2, <1>3 DEF ensure_ice_agent
<1>4. CASE ~ (c.juice # 0 \/ cfg.force_relay)
  <2> DEFINE d == [c EXCEPT !.juice = agents + 1, !.ice = "gathering"]
  <2>1. ensure_ice_agent(c) = d
    BY <1>4 DEF ensure_ice_agent
  <2>2. d \in Conn
    <3>1. agents + 1 \in Nat
      BY <1>1
    <3> HIDE DEF d
    <3>2. d = [c EXCEPT !.juice = agents + 1, !.ice = "gathering"]
      BY DEF d
    <3> QED BY <3>1, <3>2 DEF Conn
  <2>3. /\ d.on = c.on /\ d.self = c.self /\ d.have_direct = c.have_direct
        /\ d.connecting = c.connecting /\ d.connected = c.connected
        /\ d.relay_ok = c.relay_ok /\ d.direct_ok = c.direct_ok
    BY DEF Conn
  <2>4. GoodConn(d)
    BY <1>4, <2>3 DEF GoodConn
  <2> QED BY <1>1, <1>2, <2>1, <2>2, <2>3, <2>4
<1> QED BY <1>3, <1>4

\* A remote description changes nothing else of a connection.
LEMMA SdpFacts ==
    ASSUME NEW c \in Conn, GoodConn(c), c.on, NEW sdp \in Nat
    PROVE  LET d == apply_remote_ice_sdp(c, sdp)
           IN  /\ d \in Conn /\ GoodConn(d) /\ d.on
               /\ d.have_direct = c.have_direct /\ d.connecting = c.connecting
               /\ d.direct_ok = c.direct_ok /\ d.ice = c.ice
<1>1. CASE apply_remote_ice_sdp(c, sdp) = c
  BY <1>1
<1>2. CASE apply_remote_ice_sdp(c, sdp) = [c EXCEPT !.remote_sdp = sdp]
  BY <1>2 DEF Conn, GoodConn
<1> QED BY <1>1, <1>2 DEF apply_remote_ice_sdp

-----------------------------------------------------------------------------
(* The application's calls and the ticks *)

\* connect() keeps the invariant.
LEMMA ConnectStep ==
    ASSUME IInv, NEW a \in Clients, NEW b \in Clients, a # b, connect(a, b)
    PROVE  IInv'
<1> DEFINE c == [At(a, b) EXCEPT !.connecting = TRUE, !.have_direct = FALSE,
                     !.direct_ok = FALSE, !.relay_ok = FALSE, !.time = "early", !.self = TRUE]
<1> USE DEF IInv
<1>1. At(a, b) \in Conn /\ GoodConn(At(a, b)) /\ At(a, b).on
  BY ConnFacts
<1>2. ~ At(a, b).connected /\ ~ At(a, b).connecting
  BY DEF connect
<1>3. c \in Conn /\ c.on /\ c.self /\ c.connecting /\ c.connected = At(a, b).connected
      /\ c.juice = At(a, b).juice /\ ~ c.have_direct /\ ~ c.direct_ok
  BY <1>1 DEF Conn
<1>4. GoodConn(c)
  BY <1>1, <1>2, <1>3 DEF GoodConn
<1>5. /\ ensure_ice_agent(c) \in Conn /\ GoodConn(ensure_ice_agent(c)) /\ ensure_ice_agent(c).on
      /\ ~ ensure_ice_agent(c).direct_ok
      /\ agents + Created(c) \in Nat
  BY <1>3, <1>4, AgentFacts
<1>6. /\ conn' = [conn EXCEPT ![<<a, b>>] = ensure_ice_agent(c)] /\ agents' = agents + Created(c)
      /\ session' = session /\ known' = known /\ cfg' = cfg
  BY DEF connect, Unchanged
<1>7. <<a, b>> \notin known
  BY <1>2, ConnFacts DEF NoConn, NewConn
<1>8. /\ ConnInv'
      /\ conn' \in [Pairs -> Conn] /\ session' \subseteq Pairs /\ known' \subseteq Pairs
  BY <1>5, <1>6, <1>7, Update
<1>9. NetOK(net', proxies')
  BY DEF connect, NetOK, Req, Message
<1>10. left' \in [dials : 0 .. MaxDials, closes : 0 .. MaxCloses, faults : 0 .. MaxFaults,
               late : 0 .. MaxLate]
  BY BoundAssumption DEF connect, TypeOK
<1> QED BY <1>5, <1>6, <1>8, <1>9, <1>10 DEF connect, TypeOK, Unchanged, NetOK

\* A connection that is closed takes its session and addresses along.
LEMMA CloseFacts ==
    ASSUME IInv, NEW a \in Clients, NEW b \in Clients, a # b, close_conn(a, b), cfg' = cfg
    PROVE  /\ ConnInv'
           /\ conn' \in [Pairs -> Conn] /\ session' \subseteq Pairs /\ known' \subseteq Pairs
BY ConnFacts, Update DEF IInv, close_conn

\* disconnect() keeps the invariant.
LEMMA DisconnectStep ==
    ASSUME IInv, NEW a \in Clients, NEW b \in Clients, a # b, disconnect(a, b)
    PROVE  IInv'
<1> USE DEF IInv
<1>1. close_conn(a, b) /\ cfg' = cfg
  BY DEF disconnect, Unchanged
<1>2. /\ ConnInv'
      /\ conn' \in [Pairs -> Conn] /\ session' \subseteq Pairs /\ known' \subseteq Pairs
  BY <1>1, CloseFacts
<1>3. NetOK(net', proxies')
  BY ConnFacts, SendFacts DEF disconnect
<1>4. left' \in [dials : 0 .. MaxDials, closes : 0 .. MaxCloses, faults : 0 .. MaxFaults,
               late : 0 .. MaxLate]
  BY BoundAssumption DEF disconnect, TypeOK
<1> QED BY <1>2, <1>3, <1>4 DEF disconnect, TypeOK, Unchanged, NetOK

\* send() and Session::tick keep the invariant.
LEMMA SendStep ==
    ASSUME IInv, NEW a \in Clients, NEW b \in Clients, a # b,
           send(a, b) \/ tick_sessions(a, b)
    PROVE  IInv'
<1> USE DEF IInv
<1>1. NetOK(net', proxies') /\ cfg' = cfg /\ conn' = conn /\ known' = known
  BY ConnFacts, SendFacts DEF send, tick_sessions, Unchanged
<1>2. conn[<<a, b>>].connected => conn[<<a, b>>].on
  BY ConnFacts DEF NoConn, NewConn
<1>3. /\ ConnInv'
      /\ conn' \in [Pairs -> Conn] /\ session' \subseteq Pairs /\ known' \subseteq Pairs
  <2>1. CASE send(a, b)
    <3>1. conn' = [conn EXCEPT ![<<a, b>>] = conn[<<a, b>>]]
      BY <1>1, ConnFacts DEF TypeOK
    <3>2. session' = session \cup {<<a, b>>} /\ conn[<<a, b>>].on
      BY <2>1, <1>2 DEF send
    <3> QED BY <1>1, <3>1, <3>2, ConnFacts, Update
  <2>2. CASE tick_sessions(a, b)
    BY <2>2, <1>1, Keep DEF tick_sessions
  <2> QED BY <2>1, <2>2
<1> QED BY <1>1, <1>3 DEF send, tick_sessions, TypeOK, Unchanged, NetOK

\* Only clients that know a relay register.
LEMMA RegisterFacts ==
    ASSUME TypeOK, NEW a \in Clients, NEW n, NetOK(n, proxies), CanRegister(a),
           relay_register(a, n)
    PROVE  NetOK(net', proxies) /\ relay' \subseteq Clients
<1>1. relay' \subseteq Clients
  BY DEF relay_register, TypeOK
<1> DEFINE result == IF cfg.room THEN "ok" ELSE "refused"
<1>2. result \in {"ok", "refused"} /\ a \in proxies
  BY DEF CanRegister
<1>3. net' = n \cup {RegisterRsp(a, result)}
  BY DEF relay_register
<1> HIDE DEF result
<1> QED BY <1>1, <1>2, <1>3 DEF RegisterRsp, NetOK, Message

\* tick_relay keeps the invariant.
LEMMA RelayStep ==
    ASSUME IInv, NEW a \in Clients, tick_relay(a)
    PROVE  IInv'
<1> USE DEF IInv
<1>1. NetOK(net', proxies') /\ relay' \subseteq Clients
  BY RegisterFacts DEF tick_relay, client
<1>2. cfg' = cfg /\ conn' = conn /\ session' = session /\ known' = known
  BY DEF tick_relay, client, Unchanged
<1>3. ConnInv'
  BY <1>2, Keep
<1> QED BY <1>1, <1>2, <1>3 DEF tick_relay, client, TypeOK, Unchanged, NetOK

\* tick_connections keeps the invariant.
LEMMA ConnectionsStep ==
    ASSUME IInv, NEW a \in Clients, NEW b \in Clients, a # b, tick_connections(a, b)
    PROVE  IInv'
<1> USE DEF IInv
<1>1. cfg' = cfg /\ proxies' = proxies
  BY DEF tick_connections, Unchanged
<1>2. conn[<<a, b>>].on
  BY ConnFacts DEF tick_connections, NoConn, NewConn
<1>3. ASSUME conn' = conn, known' = known, session' \subseteq session \cup {<<a, b>>}
      PROVE  /\ ConnInv'
             /\ conn' \in [Pairs -> Conn] /\ session' \subseteq Pairs /\ known' \subseteq Pairs
  <2>1. conn' = [conn EXCEPT ![<<a, b>>] = conn[<<a, b>>]]
    BY <1>3, ConnFacts DEF TypeOK
  <2> QED BY <1>1, <1>2, <1>3, <2>1, ConnFacts, Update
<1>4. /\ ConnInv' /\ NetOK(net', proxies') /\ relay' \subseteq Clients
      /\ conn' \in [Pairs -> Conn] /\ session' \subseteq Pairs /\ known' \subseteq Pairs
  <2>1. CASE tick_conn_punch(a, b)
    BY <2>1, <1>1, <1>3 DEF tick_conn_punch, TypeOK
  <2>2. CASE no_response(a, b)
    BY <2>2, <1>1, CloseFacts DEF no_response, TypeOK
  <2>3. CASE tick_conn_relay(a, b)
    <3>1. NetOK(send_tunnel_via(a, b, conn[<<a, b>>], "ping", net), proxies)
      BY ConnFacts, SendFacts
    <3>2. NetOK(net', proxies') /\ relay' \subseteq Clients
      BY <2>3, <1>1, <3>1, RegisterFacts DEF tick_conn_relay, TypeOK
    <3> QED BY <2>3, <1>3, <3>2 DEF tick_conn_relay
  <2>4. CASE no_relay(a, b)
    BY <2>4, <1>1, CloseFacts DEF no_relay, TypeOK
  <2> QED BY <2>1, <2>2, <2>3, <2>4 DEF tick_connections
<1> QED BY <1>1, <1>4 DEF tick_connections, TypeOK, Unchanged, NetOK

-----------------------------------------------------------------------------
(* Messages *)

\* The fields of a message under way.
LEMMA FieldFacts ==
    ASSUME IInv, NEW m \in net
    PROVE  /\ m \in Message /\ m.to \in Clients
           /\ m.type \notin {"ICE_SDP", "REGISTER_RSP"} => m.from \in Clients /\ m.from # m.to
           /\ m.type = "ICE_SDP" => m.sdp \in Nat
           /\ m.type = "REGISTER_RSP" => m.to \in proxies
           /\ m.type = "FRAME" => m.kind \in {"ping", "pong"}
BY DEF IInv, NetOK, Message

\* What handling a message leaves behind.
Handled ==
    /\ ConnInv' /\ NetOK(net', proxies')
    /\ conn' \in [Pairs -> Conn] /\ session' \subseteq Pairs /\ known' \subseteq Pairs
    /\ proxies' \subseteq Clients /\ relay_registered' \subseteq proxies'
    /\ pending_remote_sdp' \in [Clients -> Nat]
    /\ relay' \subseteq Clients /\ agents' \in Nat

\* The server's handling of a CONNECT_REQ.
LEMMA RequestHandled ==
    ASSUME IInv, cfg' = cfg, NEW m \in net, NEW rest, rest \subseteq net, connect_req(m, rest)
    PROVE  Handled
<1> USE DEF IInv
<1>1. /\ m.from \in Clients /\ m.to \in Clients /\ m.from # m.to
  BY FieldFacts DEF connect_req
<1>2. NetOK(net', proxies')
  BY <1>1 DEF connect_req, client, NetOK, Message, Ack, Invite
<1>3. conn' = conn /\ session' = session /\ known' = known
  BY DEF connect_req, client
<1>4. ConnInv'
  BY <1>3, Keep
<1> QED BY <1>2, <1>3, <1>4 DEF Handled, connect_req, client, TypeOK

\* on_connect_ack, for a peer found and one that is not.
LEMMA AckHandled ==
    ASSUME IInv, cfg' = cfg, NEW m \in net, NEW rest, rest \subseteq net, on_connect_ack(m, rest)
    PROVE  Handled
<1> USE DEF IInv
<1> DEFINE a == m.to
           b == m.from
           c == [At(a, b) EXCEPT !.connecting = TRUE]
           d == [c EXCEPT !.have_direct = ~ cfg.force_relay,
                          !.time = IF cfg.force_relay THEN "due" ELSE "early"]
<1>1. a \in Clients /\ b \in Clients /\ a # b
  BY FieldFacts DEF on_connect_ack
<1>2. NetOK(net', proxies') /\ proxies' \subseteq Clients /\ proxies \subseteq proxies'
  BY <1>1 DEF on_connect_ack, parse_proxies, TypeOK, NetOK
<1>3. CASE m.result = "not_found" /\ close_conn(a, b)
  BY <1>1, <1>2, <1>3, CloseFacts DEF Handled, on_connect_ack, TypeOK
<1>4. CASE m.result = "ok"
  <2>1. At(a, b) \in Conn /\ GoodConn(At(a, b)) /\ At(a, b).on
    BY <1>1, ConnFacts
  <2>2. d \in Conn
    BY <2>1 DEF Conn
  <2>3. /\ d.on /\ d.connecting /\ d.have_direct = ~ cfg.force_relay /\ d.juice = At(a, b).juice
        /\ d.self = At(a, b).self /\ d.connected = At(a, b).connected
        /\ d.relay_ok = At(a, b).relay_ok /\ d.direct_ok = At(a, b).direct_ok
        /\ d.ice = At(a, b).ice
    BY <2>1 DEF Conn
  <2>4. GoodConn(d)
    BY <2>1, <2>3 DEF GoodConn
  <2>5. /\ conn' = [conn EXCEPT ![<<a, b>>] = d] /\ session' = session
        /\ known' = IF cfg.force_relay THEN known ELSE known \cup {<<a, b>>}
    BY <1>4 DEF on_connect_ack
  <2>6. cfg.force_relay => <<a, b>> \notin known
    BY <1>1, ConnFacts DEF GoodConn
  <2>7. d.direct_ok => <<a, b>> \in known' \/ Through(d)
    BY <1>1, <2>3, <2>5, ConnFacts DEF Through
  <2>8. /\ ConnInv'
        /\ conn' \in [Pairs -> Conn] /\ session' \subseteq Pairs /\ known' \subseteq Pairs
    BY <1>1, <2>2, <2>3, <2>4, <2>5, <2>6, <2>7, Update
  <2> QED BY <1>2, <2>8 DEF Handled, on_connect_ack, TypeOK
<1> QED BY <1>3, <1>4 DEF on_connect_ack

\* on_connect_invite, with the agent it makes and the description it finds.
LEMMA InviteHandled ==
    ASSUME IInv, cfg' = cfg, NEW m \in net, NEW rest, rest \subseteq net, on_connect_invite(m, rest)
    PROVE  Handled
<1> USE DEF IInv
<1> DEFINE b == m.to
           a == m.from
           c == [At(b, a) EXCEPT !.connecting = TRUE, !.direct_ok = FALSE, !.self = TRUE,
                     !.have_direct = ~ cfg.force_relay,
                     !.time = IF cfg.force_relay THEN "due" ELSE "early"]
           d == apply_remote_ice_sdp(ensure_ice_agent(c), pending_remote_sdp[b])
<1>1. a \in Clients /\ b \in Clients /\ b # a
  BY FieldFacts DEF on_connect_invite
<1>2. NetOK(net', proxies') /\ proxies' \subseteq Clients /\ proxies \subseteq proxies'
  BY <1>1 DEF on_connect_invite, parse_proxies, TypeOK, NetOK
<1>3. At(b, a) \in Conn /\ GoodConn(At(b, a)) /\ At(b, a).on
  BY <1>1, ConnFacts
<1>4. c \in Conn
  BY <1>3 DEF Conn
<1>5. /\ c.on /\ c.connecting /\ c.self /\ c.have_direct = ~ cfg.force_relay
      /\ c.juice = At(b, a).juice /\ c.connected = At(b, a).connected
      /\ c.relay_ok = At(b, a).relay_ok /\ ~ c.direct_ok
  BY <1>3 DEF Conn
<1>6. GoodConn(c)
  BY <1>3, <1>5 DEF GoodConn
<1>7. /\ d \in Conn /\ GoodConn(d) /\ d.on /\ d.connecting /\ d.have_direct = ~ cfg.force_relay
      /\ ~ d.direct_ok
      /\ agents + Created(c) \in Nat
  <2> DEFINE e == ensure_ice_agent(c)
  <2> HIDE DEF c
  <2>1. /\ e \in Conn /\ GoodConn(e) /\ e.on /\ e.have_direct = c.have_direct
        /\ e.connecting = c.connecting /\ e.direct_ok = c.direct_ok /\ agents + Created(c) \in Nat
    BY <1>4, <1>5, <1>6, AgentFacts
  <2>2. pending_remote_sdp[b] \in Nat
    BY <1>1 DEF TypeOK
  <2> HIDE DEF e
  <2>3. LET x == apply_remote_ice_sdp(e, pending_remote_sdp[b])
        IN  /\ x \in Conn /\ GoodConn(x) /\ x.on
            /\ x.have_direct = e.have_direct /\ x.connecting = e.connecting
            /\ x.direct_ok = e.direct_ok
    BY <2>1, <2>2, SdpFacts
  <2>4. d = apply_remote_ice_sdp(e, pending_remote_sdp[b])
    BY DEF e
  <2> QED BY <1>5, <2>1, <2>3, <2>4
<1>8. /\ conn' = [conn EXCEPT ![<<b, a>>] = d] /\ session' = session
      /\ known' = IF cfg.force_relay THEN known ELSE known \cup {<<b, a>>}
      /\ agents' = agents + Created(c)
  BY DEF on_connect_invite
<1>9. cfg.force_relay => <<b, a>> \notin known
  BY <1>1, ConnFacts DEF GoodConn
<1>10. /\ ConnInv'
       /\ conn' \in [Pairs -> Conn] /\ session' \subseteq Pairs /\ known' \subseteq Pairs
  BY <1>1, <1>7, <1>8, <1>9, Update
<1>11. pending_remote_sdp' \in [Clients -> Nat]
  BY DEF on_connect_invite, TypeOK
<1> QED BY <1>2, <1>7, <1>8, <1>10, <1>11 DEF Handled, on_connect_invite, TypeOK

\* on_ice_sdp, whichever connection takes the description.
LEMMA SdpHandled ==
    ASSUME IInv, cfg' = cfg, NEW m \in net, NEW rest, rest \subseteq net, on_ice_sdp(m, rest)
    PROVE  Handled
<1> USE DEF IInv
<1> DEFINE a == m.to
<1>1. a \in Clients /\ m.sdp \in Nat
  BY FieldFacts DEF on_ice_sdp
<1>2. NetOK(net', proxies') /\ session' = session /\ known' = known
  BY DEF on_ice_sdp, NetOK
<1>3. CASE conn' = conn /\ pending_remote_sdp' = [pending_remote_sdp EXCEPT ![a] = m.sdp]
  BY <1>1, <1>2, <1>3, Keep DEF Handled, on_ice_sdp, TypeOK
<1>4. CASE \E b \in Clients \ {a} :
              /\ conn[<<a, b>>].connecting
              /\ conn' = [conn EXCEPT ![<<a, b>>] = apply_remote_ice_sdp(@, m.sdp)]
              /\ pending_remote_sdp' = pending_remote_sdp
  <2>1. PICK b \in Clients \ {a} :
            /\ conn[<<a, b>>].connecting
            /\ conn' = [conn EXCEPT ![<<a, b>>] = apply_remote_ice_sdp(@, m.sdp)]
            /\ pending_remote_sdp' = pending_remote_sdp
    BY <1>4
  <2> DEFINE d == apply_remote_ice_sdp(conn[<<a, b>>], m.sdp)
  <2>2. conn[<<a, b>>] \in Conn /\ GoodConn(conn[<<a, b>>]) /\ conn[<<a, b>>].on
    BY <1>1, <2>1, ConnFacts DEF NoConn, NewConn
  <2>3. /\ d \in Conn /\ GoodConn(d) /\ d.on
        /\ d.have_direct = conn[<<a, b>>].have_direct /\ d.connecting = conn[<<a, b>>].connecting
        /\ d.direct_ok = conn[<<a, b>>].direct_ok /\ d.ice = conn[<<a, b>>].ice
    BY <1>1, <2>2, SdpFacts
  <2>4. conn' = [conn EXCEPT ![<<a, b>>] = d]
    BY <2>1
  <2>5. /\ ConnInv'
        /\ conn' \in [Pairs -> Conn] /\ session' \subseteq Pairs /\ known' \subseteq Pairs
    BY <1>1, <1>2, <2>3, <2>4, ConnFacts, Update DEF Through
  <2> QED BY <1>2, <2>1, <2>5 DEF Handled, on_ice_sdp, TypeOK
<1> QED BY <1>3, <1>4 DEF on_ice_sdp

\* The answer of the relay.
LEMMA RegisterHandled ==
    ASSUME IInv, cfg' = cfg, NEW m \in net, NEW rest, rest \subseteq net, register_rsp(m, rest)
    PROVE  Handled
<1> USE DEF IInv
<1>1. m.to \in proxies /\ NetOK(net', proxies')
  BY FieldFacts DEF register_rsp, NetOK
<1>2. conn' = conn /\ session' = session /\ known' = known
  BY DEF register_rsp
<1> QED BY <1>1, <1>2, Keep DEF Handled, register_rsp, TypeOK

\* Frames by the three paths, and those that do not arrive.
LEMMA FrameHandled ==
    ASSUME IInv, cfg' = cfg, NEW m \in net, NEW rest, rest \subseteq net, on_frame(m, rest)
    PROVE  Handled
<1> USE DEF IInv
<1> DEFINE a == m.to
           b == m.from
<1>1. a \in Clients /\ b \in Clients /\ a # b
  BY FieldFacts DEF on_frame
<1>3. NetOK(rest, proxies) /\ proxies' = proxies /\ known' = known
  BY DEF on_frame, NetOK
<1>4. ASSUME NEW c \in Conn, on_tunnel_frame(a, b, c, m.kind, rest)
      PROVE  NetOK(net', proxies') /\ session' = session \cup {<<a, b>>}
  BY <1>1, <1>3, <1>4, SendFacts DEF on_tunnel_frame
<1>5. /\ ConnInv' /\ NetOK(net', proxies')
      /\ conn' \in [Pairs -> Conn] /\ session' \subseteq Pairs /\ known' \subseteq Pairs
  <2>1. CASE on_juice_recv(a, b, m.kind, rest)
    <3>1. conn[<<a, b>>] \in Conn /\ GoodConn(conn[<<a, b>>]) /\ conn[<<a, b>>].on
      BY <2>1, <1>1, ConnFacts DEF on_juice_recv, NoConn, NewConn
    <3>2. conn' = [conn EXCEPT ![<<a, b>>] = conn[<<a, b>>]]
      BY <2>1, <1>1, ConnFacts DEF on_juice_recv, TypeOK
    <3>3. NetOK(net', proxies') /\ session' = session \cup {<<a, b>>}
      BY <2>1, <1>4, <3>1 DEF on_juice_recv
    <3> QED BY <1>1, <1>3, <3>1, <3>2, <3>3, ConnFacts, Update
  <2>2. CASE handle_packet(a, b, m.kind, rest)
    <3> DEFINE d == [At(a, b) EXCEPT !.connected = @ \/ ~ At(a, b).direct_ok, !.direct_ok = TRUE]
    <3>1. /\ At(a, b) \in Conn /\ GoodConn(At(a, b)) /\ At(a, b).on
          /\ At(a, b).have_direct /\ At(a, b).connecting
      BY <2>2, <1>1, ConnFacts DEF handle_packet, NoConn, NewConn
    <3>2. d \in Conn
      BY <3>1 DEF Conn
    <3>3. /\ d.on /\ d.have_direct /\ d.connecting /\ d.juice = At(a, b).juice
          /\ d.self = At(a, b).self
      BY <3>1 DEF Conn
    <3>4. GoodConn(d)
      BY <3>1, <3>3 DEF GoodConn
    <3>5. NetOK(net', proxies') /\ session' = session \cup {<<a, b>>}
      BY <2>2, <1>4, <3>1 DEF handle_packet
    <3>6. conn' = [conn EXCEPT ![<<a, b>>] = d]
      BY <2>2 DEF handle_packet
    <3>7. <<a, b>> \in known
      BY <2>2 DEF handle_packet
    <3> QED BY <1>1, <1>3, <3>2, <3>3, <3>4, <3>5, <3>6, <3>7, Update
  <2>3. CASE relay_data(a, b, m.kind, rest)
    <3> DEFINE d == [At(a, b) EXCEPT !.connected = @ \/ ~ At(a, b).relay_ok, !.relay_ok = TRUE]
    <3>1. At(a, b) \in Conn /\ GoodConn(At(a, b)) /\ At(a, b).on
      BY <1>1, ConnFacts
    <3>2. d \in Conn
      BY <3>1 DEF Conn
    <3>3. /\ d.on /\ d.have_direct = At(a, b).have_direct /\ d.connecting = At(a, b).connecting
          /\ d.juice = At(a, b).juice /\ d.self = At(a, b).self /\ d.relay_ok
          /\ d.direct_ok = At(a, b).direct_ok /\ d.ice = At(a, b).ice
      BY <3>1 DEF Conn
    <3>4. GoodConn(d)
      BY <3>1, <3>3 DEF GoodConn
    <3>5. NetOK(net', proxies') /\ session' = session \cup {<<a, b>>}
      BY <2>3, <1>4, <3>1 DEF relay_data
    <3>6. conn' = [conn EXCEPT ![<<a, b>>] = d]
      BY <2>3 DEF relay_data
    <3>7. <<a, b>> \in known => d.have_direct /\ d.connecting
      BY <1>1, <3>3, ConnFacts DEF NoConn, NewConn
    <3>8. d.direct_ok => <<a, b>> \in known \/ Through(d)
      BY <1>1, <3>3, ConnFacts DEF Through
    <3> QED BY <1>1, <1>3, <3>2, <3>3, <3>4, <3>5, <3>6, <3>7, <3>8, Update
  <2>4. CASE net' = rest /\ conn' = conn /\ session' = session
    BY <2>4, <1>3, Keep
  <2> QED BY <2>1, <2>2, <2>3, <2>4 DEF on_frame
<1> QED BY <1>3, <1>5 DEF Handled, on_frame, TypeOK

\* Every message is one of these.
LEMMA MessageStep ==
    ASSUME IInv, NEW m \in net, NEW rest, rest \subseteq net, Handle(m, rest)
    PROVE  Handled /\ cfg' = cfg /\ open' = open
<1>1. cfg' = cfg /\ open' = open
  BY DEF Handle, Unchanged
<1> QED BY <1>1, RequestHandled, AckHandled, InviteHandled, SdpHandled, RegisterHandled,
           FrameHandled DEF Handle

-----------------------------------------------------------------------------
(* ICE, time and faults *)

\* The callbacks of an agent and the passing of time change one connection.
LEMMA CallbackStep ==
    ASSUME IInv, NEW a \in Clients, NEW b \in Clients, a # b,
           on_juice_gathering_done(a, b) \/ on_juice_state(a, b) \/ Elapse(a, b)
    PROVE  IInv'
<1> USE DEF IInv
<1> DEFINE c == conn[<<a, b>>]
<1>1. c \in Conn /\ GoodConn(c) /\ (c.self \/ c.connecting => c.on)
  BY ConnFacts DEF NoConn, NewConn
<1>2. cfg' = cfg /\ session' = session /\ known' = known /\ proxies' = proxies
  BY DEF on_juice_gathering_done, on_juice_state, Elapse, Unchanged
<1>3. PICK d \in Conn :
          /\ conn' = [conn EXCEPT ![<<a, b>>] = d]
          /\ GoodConn(d) /\ d.on /\ d.have_direct = c.have_direct /\ d.connecting = c.connecting
          /\ d.direct_ok => <<a, b>> \in known \/ Through(d)
  <2>1. CASE on_juice_gathering_done(a, b)
    <3> DEFINE d == [c EXCEPT !.ice = "gathered"]
    <3>1. conn' = [conn EXCEPT ![<<a, b>>] = d] /\ c.on
      BY <2>1, <1>1 DEF on_juice_gathering_done
    <3>2. d \in Conn /\ GoodConn(d)
      BY <1>1, <3>1 DEF Conn, GoodConn
    <3>3. d.on /\ d.have_direct = c.have_direct /\ d.connecting = c.connecting
      BY <1>1, <3>1 DEF Conn
    <3>4. c.direct_ok => <<a, b>> \in known
      BY <2>1, ConnFacts DEF on_juice_gathering_done, Through
    <3>5. d.direct_ok = c.direct_ok
      BY <1>1 DEF Conn
    <3> QED BY <3>1, <3>2, <3>3, <3>4, <3>5
  <2>2. CASE on_juice_state(a, b)
    <3>1. PICK s \in {<<"gathered", "connected">>, <<"connected", "completed">>} :
              conn' = [conn EXCEPT ![<<a, b>>] =
                          [@ EXCEPT !.ice = s[2], !.direct_ok = TRUE, !.connected = TRUE]]
      BY <2>2 DEF on_juice_state
    <3> DEFINE d == [c EXCEPT !.ice = s[2], !.direct_ok = TRUE, !.connected = TRUE]
    <3>2. conn' = [conn EXCEPT ![<<a, b>>] = d] /\ c.on /\ c.juice # 0 /\ c.self
      BY <2>2, <3>1, <1>1 DEF on_juice_state, Paired
    <3>3. d \in Conn
      <4>1. s[2] \in {"gathering", "gathered", "connected", "completed"}
        BY <3>1
      <4> QED BY <1>1, <4>1 DEF Conn
    <3>4. /\ d.on /\ d.have_direct = c.have_direct /\ d.connecting = c.connecting
          /\ d.juice = c.juice /\ d.self = c.self /\ d.direct_ok /\ d.ice = s[2]
      BY <1>1, <3>2 DEF Conn
    <3>5. GoodConn(d)
      BY <1>1, <3>2, <3>4 DEF GoodConn
    <3>6. Through(d)
      <4>1. s[2] \in {"connected", "completed"}
        BY <3>1
      <4> HIDE DEF d
      <4> QED BY <3>4, <4>1 DEF Through
    <3> QED BY <3>2, <3>3, <3>4, <3>5, <3>6
  <2>3. CASE Elapse(a, b)
    <3>1. PICK s \in {<<"early", "due">>, <<"due", "late">>} :
              conn' = [conn EXCEPT ![<<a, b>>].time = s[2]]
      BY <2>3 DEF Elapse
    <3> DEFINE d == [c EXCEPT !.time = s[2]]
    <3>2. conn' = [conn EXCEPT ![<<a, b>>] = d] /\ c.on
      BY <2>3, <3>1, <1>1 DEF Elapse
    <3>3. d \in Conn
      BY <1>1 DEF Conn
    <3>4. /\ d.on /\ d.have_direct = c.have_direct /\ d.connecting = c.connecting
          /\ d.juice = c.juice /\ d.self = c.self /\ d.direct_ok = c.direct_ok
          /\ d.connected = c.connected /\ d.relay_ok = c.relay_ok /\ d.ice = c.ice
      BY <1>1, <3>2 DEF Conn
    <3>5. GoodConn(d)
      BY <1>1, <3>4 DEF GoodConn
    <3>6. d.direct_ok => <<a, b>> \in known \/ Through(d)
      BY <3>4, ConnFacts DEF Through
    <3> QED BY <3>2, <3>3, <3>4, <3>5, <3>6
  <2> QED BY <2>1, <2>2, <2>3
<1>4. /\ ConnInv'
      /\ conn' \in [Pairs -> Conn] /\ session' \subseteq Pairs /\ known' \subseteq Pairs
  BY <1>2, <1>3, ConnFacts, Update
<1>5. NetOK(net', proxies')
  BY <1>1, <1>2
     DEF on_juice_gathering_done, on_juice_state, Elapse, NetOK, send_ice_sdp, Message, Conn
<1>6. left' \in [dials : 0 .. MaxDials, closes : 0 .. MaxCloses, faults : 0 .. MaxFaults,
               late : 0 .. MaxLate]
  BY BoundAssumption DEF on_juice_gathering_done, on_juice_state, Elapse, TypeOK
<1> QED BY <1>2, <1>4, <1>5, <1>6
        DEF on_juice_gathering_done, on_juice_state, Elapse, TypeOK, Unchanged, NetOK

\* Messages received, received again and lost.
LEMMA NetworkStep ==
    ASSUME IInv, NEW m \in net, Receive(m) \/ Duplicate(m) \/ Lose(m)
    PROVE  IInv'
<1> USE DEF IInv
<1>1. left' \in [dials : 0 .. MaxDials, closes : 0 .. MaxCloses, faults : 0 .. MaxFaults,
               late : 0 .. MaxLate]
  BY BoundAssumption DEF Receive, Duplicate, Lose, Fault, TypeOK
<1>2. CASE Receive(m) \/ Duplicate(m)
  <2>1. Handled /\ cfg' = cfg /\ open' = open
    BY <1>2, MessageStep DEF Receive, Duplicate
  <2> QED BY <1>1, <2>1 DEF Handled, TypeOK, NetOK
<1>3. CASE Lose(m)
  <2>1. cfg' = cfg /\ conn' = conn /\ session' = session /\ known' = known
    BY <1>3 DEF Lose, client, Unchanged
  <2>2. NetOK(net', proxies')
    BY <1>3 DEF Lose, client, NetOK
  <2> QED BY <1>1, <1>3, <2>1, <2>2, Keep DEF Lose, client, TypeOK, Unchanged, NetOK
<1> QED BY <1>2, <1>3

\* The relay's time-out keeps the invariant.
LEMMA ForgetStep ==
    ASSUME IInv, NEW a \in Clients, RelayForgets(a)
    PROVE  IInv'
<1> USE DEF IInv
<1>1. left' \in [dials : 0 .. MaxDials, closes : 0 .. MaxCloses, faults : 0 .. MaxFaults,
               late : 0 .. MaxLate]
  BY BoundAssumption DEF RelayForgets, Fault, TypeOK
<1>2. cfg' = cfg /\ conn' = conn /\ session' = session /\ known' = known
  BY DEF RelayForgets, client, Unchanged
<1> QED BY <1>1, <1>2, Keep DEF RelayForgets, client, TypeOK, Unchanged, NetOK

-----------------------------------------------------------------------------
(* Theorems *)

\* The invariant holds always.
LEMMA Inductive == Spec => []IInv
<1>1. Init => IInv
  <2> SUFFICES ASSUME Init PROVE IInv
    OBVIOUS
  <2>1. NoConn \in Conn /\ GoodConn(NoConn)
    BY DEF NoConn, NewConn, Conn, GoodConn
  <2>2. TypeOK
    BY <2>1, BoundAssumption DEF Init, TypeOK
  <2>3. ConnInv /\ NetOK(net, proxies)
    BY <2>1 DEF Init, ConnInv, NetOK, NoConn, NewConn
  <2> QED BY <2>2, <2>3 DEF IInv
<1>2. IInv /\ [Next]_vars => IInv'
  <2> SUFFICES ASSUME IInv, [Next]_vars PROVE IInv'
    OBVIOUS
  <2>1. ASSUME NEW p \in Pairs,
               \/ connect(p[1], p[2]) \/ disconnect(p[1], p[2]) \/ send(p[1], p[2])
               \/ tick_sessions(p[1], p[2]) \/ tick_connections(p[1], p[2]) \/ Elapse(p[1], p[2])
               \/ on_juice_gathering_done(p[1], p[2]) \/ on_juice_state(p[1], p[2])
        PROVE  IInv'
    BY <2>1, PairMembers, ConnectStep, DisconnectStep, SendStep, ConnectionsStep, CallbackStep
  <2>2. ASSUME NEW a \in Clients, tick_relay(a) \/ RelayForgets(a)
        PROVE  IInv'
    BY <2>2, RelayStep, ForgetStep
  <2>3. ASSUME NEW m \in net, Receive(m) \/ Duplicate(m) \/ Lose(m)
        PROVE  IInv'
    BY <2>3, NetworkStep
  <2>4. CASE UNCHANGED vars
    BY <2>4 DEF vars, client, IInv, TypeOK, ConnInv, GoodConn, NoConn, NewConn, NetOK, Through
  <2> QED BY <2>1, <2>2, <2>3, <2>4 DEF Next
<1> QED BY <1>1, <1>2, PTL DEF Spec

\* Connections, sessions, tables and messages keep their types, and only a
\* client that knows a relay believes itself registered at one.
THEOREM ConnectionTypeOK == Spec => []TypeOK
<1>1. IInv => TypeOK
  BY DEF IInv
<1> QED BY <1>1, Inductive, PTL

\* close_conn leaves nothing behind, whatever calls, messages and callbacks
\* come in between.
THEOREM ConnectionNoOrphans == Spec => []NoOrphans
<1>1. IInv => NoOrphans
  BY DEF IInv, ConnInv, GoodConn, NoOrphans, NoConn, NewConn
<1> QED BY <1>1, Inductive, PTL

\* The frames of a connected client are sent, but for the two cases named:
\* connected through a relay that has not answered its own registration, or
\* by a direct frame while its agent has found no way.
THEOREM ConnectionSends == Spec => []ConnectedSends
<1>1. IInv => ConnectedSends
  <2> SUFFICES ASSUME IInv, NEW p \in Pairs, conn[p].connected,
                      Sent(p[1], p[2], conn[p], "ping") = {}
               PROVE  \/ conn[p].relay_ok /\ p[1] \notin relay_registered
                      \/ p \in known /\ conn[p].juice # 0 /\ conn[p].direct_ok
    BY DEF ConnectedSends
  <2>1. /\ GoodConn(conn[p]) /\ relay_registered \subseteq proxies
        /\ conn[p].direct_ok => p \in known \/ Through(conn[p])
    BY DEF IInv, ConnInv, TypeOK
  <2>2. \A via \in Route(p[1], conn[p]) : via = "ice" /\ ~ Through(conn[p])
    BY DEF Sent, Through
  <2>3. CASE conn[p].juice # 0 /\ conn[p].direct_ok
    <3>1. "ice" \in Route(p[1], conn[p])
      BY <2>3 DEF Route
    <3> QED BY <2>1, <2>2, <2>3, <3>1
  <2>4. CASE ~ (conn[p].juice # 0 /\ conn[p].direct_ok)
    <3>1. Route(p[1], conn[p]) = {}
      BY <2>2, <2>4 DEF Route
    <3> QED BY <2>1, <2>4, <3>1 DEF GoodConn, Route, RelayReady
  <2> QED BY <2>3, <2>4
<1> QED BY <1>1, Inductive, PTL
=============================================================================
