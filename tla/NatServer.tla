----------------------------- MODULE NatServer -----------------------------
(***************************************************************************)
(* The signalling server's work queue and worker threads, its table of     *)
(* proxy health and the choice of proxies for a CONNECT (NatServer.cpp,    *)
(* RecvProcess.cpp), up to the relay that the two clients of the CONNECT   *)
(* then use (P2PClient.cpp: the first of the list they keep).              *)
(*                                                                         *)
(* Abstractions.  Time counts in rounds of the timer thread, which asks    *)
(* all proxies every 10 s: an entry not seen since the round before is     *)
(* surely 10 s old, one seen since then may be.                            *)
(* What a proxy says of its load only weighs the draws; every proxy that   *)
(* can be drawn at all may be.  An ACK or INVITE reaches its client at     *)
(* once or not at all: the client keeps the first list that it gets, and   *)
(* nothing else of it is modelled here.  The gates of a CONNECT are in     *)
(* Auth.                                                                   *)
(***************************************************************************)
EXTENDS Naturals, FiniteSets, Bags, SequencesExt

CONSTANTS
    Proxy,
    Workers,        \* the number of threads of the pool
    Configs,        \* the lists of proxies the configuration may name
    Own,            \* the relay each client's own configuration names, or None
    None,
    QueueCap,       \* the limit of mq_: 8192 in the code
    CANDS,          \* candidates of an offer: 3 in the code
    MaxConnects,    \* bound: CONNECTs
    MaxEvents       \* bound: losses, queue drops, proxy changes and reloads

ASSUME ConfigAssumption == Configs \subseteq Seq(Proxy)
ASSUME BoundAssumption ==
    /\ Workers \in Nat \ {0} /\ QueueCap \in Nat \ {0} /\ CANDS \in Nat \ {0}
    /\ MaxConnects \in Nat /\ MaxEvents \in Nat
ASSUME NoneAssumption == None \notin Proxy

Clients == {"src", "dst"}

ASSUME OwnAssumption == Own \in [Clients -> Proxy \cup {None}]

\* down is a counter up to 255; pick_proxy asks whether it is below 2.
MaxDown == 2
\* Rounds since the last answer: 30 s are three, MaxAge stands for more.
MaxAge == 4

VARIABLES
    \* the server
    proxy_ips,      \* cfg_->proxy_ips
    proxy_health,   \* the proxies that have an entry in proxy_health_
    available,      \* those whose entry says available
    down,
    age,            \* rounds begun since last_seen
    mq,             \* mq_
    hand,           \* the bag of what the workers have taken from it
    \* proxies and clients
    status,         \* "open", "full" or "dead"
    asked,          \* proxies whose query or answer is under way
    request,        \* the CONNECT of src: "none", "sent", "answered", "dropped"
    relay,          \* proxies_[0] of each client
    \* bounds
    connects,
    events

health == <<proxy_health, available, down, age>>
queue == <<mq, hand>>
vars == <<proxy_ips, health, queue, status, asked, request, relay, connects, events>>

Avail(p, b) == [type |-> "AVAIL", from |-> p, available |-> b]
Connect == [type |-> "CONNECT"]
\* A CONNECT whose ACK is sent and whose INVITE is not.
Invite == [type |-> "INVITE"]

Packet == {Avail(p, b) : p \in Proxy, b \in BOOLEAN} \cup {Connect}

Init ==
    /\ proxy_ips \in Configs
    /\ proxy_health = {}
    /\ available = {}
    /\ down = [p \in Proxy |-> 0]
    /\ age = [p \in Proxy |-> 0]
    /\ mq = <<>>
    /\ hand = EmptyBag
    /\ status = [p \in Proxy |-> "open"]
    /\ asked = {}
    /\ request = "none"
    /\ relay = Own
    /\ connects = 0
    /\ events = 0

Event == events < MaxEvents /\ events' = events + 1

-----------------------------------------------------------------------------
(* The receiving thread and the queue *)

\* Faulty variant of recv_thread: never drops.
recv_thread_unbounded(pkt) ==
    /\ mq' = Append(mq, pkt)
    /\ request' = IF pkt = Connect THEN "sent" ELSE request
    /\ UNCHANGED <<hand, events>>

\* A packet that passes the gates of AntiAbuse joins the queue; when it is
\* full, the oldest one goes, and a CONNECT that goes is never answered.
recv_thread(pkt) ==
    IF Len(mq) < QueueCap
    THEN /\ mq' = Append(mq, pkt)
         /\ request' = IF pkt = Connect THEN "sent" ELSE request
         /\ UNCHANGED <<hand, events>>
    ELSE /\ Event
         /\ mq' = Append(Tail(mq), pkt)
         /\ request' = IF pkt = Connect THEN "sent"
                       ELSE IF Head(mq) = Connect THEN "dropped" ELSE request
         /\ UNCHANGED hand

\* The application of src asks for a connection to dst.
connect ==
    /\ connects < MaxConnects
    /\ request # "sent"
    /\ connects' = connects + 1
    /\ recv_thread(Connect)
    /\ UNCHANGED <<proxy_ips, health, status, asked, relay>>

\* A proxy answers a query: whether it has room.
ProxyAnswers(p) ==
    /\ p \in asked
    /\ asked' = asked \ {p}
    /\ recv_thread(Avail(p, status[p] = "open"))
    /\ UNCHANGED <<proxy_ips, health, status, relay, connects>>

\* A query or an answer is lost, or stopped at a gate.
Lose(p) ==
    /\ p \in asked
    /\ Event
    /\ asked' = asked \ {p}
    /\ UNCHANGED <<proxy_ips, health, queue, status, request, relay, connects>>

\* A proxy fills up, has room again, stops or starts.
StatusChanges(p) ==
    /\ Event
    /\ \E s \in {"open", "full", "dead"} \ {status[p]} :
        /\ status' = [status EXCEPT ![p] = s]
        /\ asked' = IF s = "dead" THEN asked \ {p} ELSE asked
    /\ UNCHANGED <<proxy_ips, health, queue, request, relay, connects>>

\* Faulty variant of take: the newest packet first.
take_newest ==
    /\ hand' = hand (+) SetToBag({Last(mq)})
    /\ mq' = Front(mq)

\* Faulty variant of take: the packet stays in the queue.
take_copy ==
    /\ hand' = hand (+) SetToBag({Head(mq)})
    /\ UNCHANGED mq

take ==
    /\ hand' = hand (+) SetToBag({Head(mq)})
    /\ mq' = Tail(mq)

proc_pool_thread ==
    /\ BagCardinality(hand) < Workers
    /\ mq # <<>>
    /\ take
    /\ UNCHANGED <<proxy_ips, health, status, asked, request, relay, connects, events>>

-----------------------------------------------------------------------------
(* Proxy health *)

\* Faulty variant of collect_proxy_avail: down is not reset.
collect_proxy_avail_down(p, b) ==
    /\ proxy_health' = proxy_health \cup {p}
    /\ available' = IF b THEN available \cup {p} ELSE available \ {p}
    /\ age' = [age EXCEPT ![p] = 0]
    /\ UNCHANGED down

collect_proxy_avail(p, b) ==
    /\ proxy_health' = proxy_health \cup {p}
    /\ available' = IF b THEN available \cup {p} ELSE available \ {p}
    /\ down' = [down EXCEPT ![p] = 0]
    /\ age' = [age EXCEPT ![p] = 0]

\* The case MSG_SP_ASK_EXTINFO_RSP.
sp_ask_extinfo_rsp(pkt) ==
    /\ pkt.type = "AVAIL"
    /\ collect_proxy_avail(pkt.from, pkt.available)
    /\ hand' = hand (-) SetToBag({pkt})
    /\ UNCHANGED <<proxy_ips, mq, status, asked, request, relay, connects, events>>

\* send_proxy_avail_query to every configured proxy.
send_proxy_avail_query ==
    asked' = asked \cup {p \in Range(proxy_ips) : status[p] # "dead"}

mark_proxy_stale(stale) ==
    /\ down' = [p \in Proxy |-> IF p \in stale /\ down[p] < MaxDown THEN down[p] + 1 ELSE down[p]]
    /\ available' = available \ stale

\* Faulty variant of timer_thread: asking a proxy counts as seeing it.
timer_thread_touch ==
    /\ send_proxy_avail_query
    /\ age' = [p \in Proxy |-> IF p \in Range(proxy_ips) THEN 0 ELSE age[p]]
    /\ UNCHANGED <<proxy_ips, proxy_health, available, down, queue, status, request, relay,
                   connects, events>>

\* timer_thread every 10 s: asks, and at once marks the entries last seen 10 s
\* ago or more.  A proxy that answered in the second in which it was asked
\* the last time is among them.
timer_thread ==
    /\ send_proxy_avail_query
    /\ age' = [p \in Proxy |-> IF p \in proxy_health /\ age[p] < MaxAge
                               THEN age[p] + 1 ELSE age[p]]
    /\ \E prompt \in SUBSET {p \in proxy_health : age[p] = 0} :
        mark_proxy_stale({p \in proxy_health : age[p] >= 1} \cup prompt)
    /\ UNCHANGED <<proxy_ips, proxy_health, queue, status, request, relay, connects, events>>

\* timer_thread takes over a changed configuration file.
reload ==
    /\ Event
    /\ proxy_ips' \in Configs \ {proxy_ips}
    /\ UNCHANGED <<health, queue, status, asked, request, relay, connects>>

-----------------------------------------------------------------------------
(* CONNECT *)

Healthy ==
    {p \in proxy_health : age[p] <= 3 /\ p \in available /\ down[p] < 2}

\* Faulty variant of AddCandidate: no look at what is there.
AddCandidate_dup(out, p) == IF Len(out) >= CANDS THEN out ELSE Append(out, p)

\* A candidate joins the others, unless dup finds it there.
AddCandidate(out, p) ==
    IF Len(out) >= CANDS \/ Contains(out, p) THEN out ELSE Append(out, p)

Added(out, ps) == FoldLeft(AddCandidate, out, ps)

\* What CANDS weighted draws may give: fewer when a proxy is drawn again.
Drawn ==
    IF Healthy = {} THEN {<<>>} ELSE {Added(<<>>, draws) : draws \in [1 .. CANDS -> Healthy]}

\* The configured proxies, in their order, fill up what was drawn.
pick_proxy == {Added(s, proxy_ips) : s \in Drawn}

\* on_connect_ack, on_connect_invite: a client without proxies takes the list
\* over, and uses the first of it alone.
Offer(c) ==
    \/ /\ \E out \in pick_proxy :
            relay' = IF relay[c] = None /\ out # <<>> THEN [relay EXCEPT ![c] = Head(out)] ELSE relay
       /\ UNCHANGED events
    \/ Event /\ UNCHANGED relay

\* A gate refuses, or dst is not registered.
connect_refused(pkt) ==
    /\ pkt = Connect
    /\ hand' = hand (-) SetToBag({pkt})
    /\ request' = "answered"
    /\ UNCHANGED <<proxy_ips, health, mq, status, asked, relay, connects, events>>

connect_ack(pkt) ==
    /\ pkt = Connect
    /\ hand' = (hand (-) SetToBag({pkt})) (+) SetToBag({Invite})
    /\ request' = "answered"
    /\ Offer("src")
    /\ UNCHANGED <<proxy_ips, health, mq, status, asked, connects>>

\* pick_proxy is asked anew for the INVITE.
connect_invite(pkt) ==
    /\ pkt = Invite
    /\ hand' = hand (-) SetToBag({pkt})
    /\ Offer("dst")
    /\ UNCHANGED <<proxy_ips, health, mq, status, asked, request, connects>>

process(pkt) ==
    /\ BagIn(pkt, hand)
    /\ \/ sp_ask_extinfo_rsp(pkt)
       \/ connect_refused(pkt)
       \/ connect_ack(pkt)
       \/ connect_invite(pkt)

-----------------------------------------------------------------------------

Next ==
    \/ connect \/ proc_pool_thread \/ timer_thread \/ reload
    \/ \E p \in Proxy : ProxyAnswers(p) \/ Lose(p) \/ StatusChanges(p)
    \/ \E pkt \in BagToSet(hand) : process(pkt)

Spec == Init /\ [][Next]_vars

-----------------------------------------------------------------------------
(* Properties *)

TypeOK ==
    /\ proxy_ips \in Configs
    /\ proxy_health \subseteq Proxy
    /\ available \subseteq proxy_health
    /\ down \in [Proxy -> 0 .. MaxDown]
    /\ age \in [Proxy -> 0 .. MaxAge]
    /\ mq \in Seq(Packet) /\ Len(mq) <= QueueCap
    /\ BagToSet(hand) \subseteq Packet \cup {Invite} /\ BagCardinality(hand) <= Workers
    /\ status \in [Proxy -> {"open", "full", "dead"}]
    /\ asked \subseteq Proxy
    /\ request \in {"none", "sent", "answered", "dropped"}
    /\ relay \in [Clients -> Proxy \cup {None}]
    /\ connects \in 0 .. MaxConnects
    /\ events \in 0 .. MaxEvents

\* Whatever is drawn, an offer names no proxy twice, names all configured
\* proxies unless it is full, and begins with a healthy proxy if there is one.
OfferSound ==
    \A out \in pick_proxy :
        /\ IsInjective(out)
        /\ Len(out) <= CANDS
        /\ Len(out) < CANDS => Range(proxy_ips) \subseteq Range(out)
        /\ Healthy # {} => Head(out) \in Healthy

\* A CONNECT that is not answered and not dropped is in the queue or with a
\* worker, once: none is lost between the threads and none is handled twice.
ConnectKept ==
    Cardinality({i \in DOMAIN mq : mq[i] = Connect})
        + (IF BagIn(Connect, hand) THEN hand[Connect] ELSE 0)
      = IF request = "sent" THEN 1 ELSE 0

\* The two clients of a CONNECT are sent candidates "for the relay fallback":
\* frames only get through when both use the same relay.
RelaysMeet ==
    (relay["src"] # None /\ relay["dst"] # None) => relay["src"] = relay["dst"]

-----------------------------------------------------------------------------
(* Liveness: the threads run, and what is not lost arrives. *)

FairSpec ==
    /\ Spec
    /\ WF_vars(timer_thread)
    /\ \A p \in Proxy : SF_vars(ProxyAnswers(p))
    /\ WF_vars(proc_pool_thread)
    /\ \A pkt \in Packet \cup {Invite} : WF_vars(process(pkt))

\* A CONNECT that joined the queue is answered, unless the queue dropped it.
Answered == request = "sent" ~> request \in {"answered", "dropped"}

\* A proxy that is dead for good is, in the end, never offered as healthy.
DeadLeaves == \A p \in Proxy :
    <>[](status[p] = "dead") => <>[](p \notin Healthy)

\* A configured proxy with room, for good, is healthy again and again,
\* although its prompt answers may be marked as missing every round.
OpenReturns == \A p \in Proxy :
    <>[](status[p] = "open" /\ p \in Range(proxy_ips)) => []<>(p \in Healthy)
=============================================================================
