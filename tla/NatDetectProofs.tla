-------------------------- MODULE NatDetectProofs --------------------------
(***************************************************************************)
(* Proofs about NatDetect, for every bound: the types, what the detection  *)
(* never says, and what it says when nothing disturbs it.                  *)
(***************************************************************************)
EXTENDS NatDetect, TLAPS

\* The public ports are 1 and 2.
LEMMA MappedType == ASSUME NEW at PROVE Mapped(at) \in 1 .. 2
  BY DEF Mapped

\* What a message in flight can be.
LEMMA MessageKinds ==
    /\ \A to \in Sockets : Probe(to) \in Message /\ Probe(to).type = "REQ" /\ Probe(to).to = to
    /\ \A from, at \in Sockets : /\ Reply(from, at) \in Message
                                 /\ Reply(from, at).type = "RSP"
                                 /\ Reply(from, at).from = from
                                 /\ Reply(from, at).at = at
    /\ \A m \in Message : \/ m.type = "REQ" /\ m.to \in Sockets /\ m = Probe(m.to)
                          \/ /\ m.type = "RSP" /\ m.from \in Sockets /\ m.at \in Sockets
                             /\ m = Reply(m.from, m.at)
  <1>1. ASSUME NEW to \in Sockets
        PROVE  Probe(to) \in Message /\ Probe(to).type = "REQ" /\ Probe(to).to = to
    BY DEF Message, Probe
  <1>2. ASSUME NEW from \in Sockets, NEW at \in Sockets
        PROVE  /\ Reply(from, at) \in Message
               /\ Reply(from, at).type = "RSP"
               /\ Reply(from, at).from = from
               /\ Reply(from, at).at = at
    <2>1. Reply(from, at) \in Message
      BY DEF Message
    <2>2. Reply(from, at) = [type |-> "RSP", from |-> from, at |-> at]
      BY DEF Reply
    <2> QED
      BY <2>1, <2>2
  <1>3. ASSUME NEW m \in Message
        PROVE  \/ m.type = "REQ" /\ m.to \in Sockets /\ m = Probe(m.to)
               \/ /\ m.type = "RSP" /\ m.from \in Sockets /\ m.at \in Sockets
                  /\ m = Reply(m.from, m.at)
    <2>1. CASE \E to \in Sockets : m = Probe(to)
      BY <1>1, <2>1
    <2>2. CASE \E from, at \in Sockets : m = Reply(from, at)
      BY <1>2, <2>2
    <2> QED
      BY <1>3, <2>1, <2>2 DEF Message
  <1> QED
    BY <1>1, <1>2, <1>3

\* A probe joins the network.
LEMMA Sent ==
    ASSUME TypeOK
    PROVE  send_req("main") \/ send_req("alt") => net' \subseteq Message /\ opened' \subseteq Sockets
  <1>1. Probe("main") \in Message /\ Probe("alt") \in Message
    BY MessageKinds DEF Sockets
  <1> QED
    BY <1>1 DEF send_req, TypeOK, Sockets

\* A datagram that arrives, once or again, leaves the types right.
LEMMA HandleType ==
    ASSUME TypeOK, NEW m \in net, NEW rest, rest \subseteq net, Handle(m, rest)
    PROVE  /\ net' \subseteq Message
           /\ phase' \in {"Idle", "Main", "Alt", "Done"}
           /\ got_main_idx0' \in BOOLEAN /\ got_main_idx1' \in BOOLEAN
           /\ mapped_port_main' \in 0 .. 2
           /\ nattype' \in NAT_UNKNOWN .. NAT_SYMMETRIC
           /\ UNCHANGED <<nat, opened, nat_type, starts, late>>
  <1> USE DEF NAT_UNKNOWN, NAT_FULL_CONE, NAT_PORT_RESTRICTED, NAT_SYMMETRIC
  <1>0. m \in Message /\ rest \subseteq Message
    BY DEF TypeOK
  <1>1. CASE try_fast_handle(m, rest)
    <2>1. m.to \in Sockets
      BY <1>0, <1>1, MessageKinds DEF try_fast_handle
    <2>2. dual_reply(m.to) \subseteq Message
      BY <2>1, MessageKinds DEF dual_reply, Sockets
    <2> QED
      BY <1>0, <1>1, <2>2 DEF try_fast_handle, detector, TypeOK
  <1>2. CASE Arrive(m, rest)
    <2>0. net' \subseteq Message /\ UNCHANGED <<nat, opened, nat_type, starts, late>>
      BY <1>0, <1>2 DEF Arrive
    <2>1. CASE UNCHANGED detector
      BY <2>0, <2>1 DEF detector, TypeOK
    <2>2. CASE feed_main(m)
      <3>1. Mapped(m.at) \in 1 .. 2
        BY MappedType
      <3>2. mapped_port_main' \in 0 .. 2
        BY <2>2, <3>1 DEF feed_main, TypeOK
      <3>3. phase' \in {"Idle", "Main", "Alt", "Done"} /\ nattype' \in NAT_UNKNOWN .. NAT_SYMMETRIC
        BY <2>2 DEF feed_main, TypeOK
      <3>4. got_main_idx0' \in BOOLEAN /\ got_main_idx1' \in BOOLEAN
        BY <2>2 DEF feed_main
      <3> QED
        BY <2>0, <3>2, <3>3, <3>4
    <2>3. CASE feed_alt(m)
      BY <2>0, <2>3 DEF feed_alt, classify, TypeOK
    <2> QED
      BY <1>2, <2>1, <2>2, <2>3 DEF Arrive, feed, feed_ignored
  <1> QED
    BY <1>1, <1>2 DEF Handle

\* Every variable keeps its type.
THEOREM NatDetectTypeOK == Spec => []TypeOK
  <1> USE DEF NAT_UNKNOWN, NAT_FULL_CONE, NAT_PORT_RESTRICTED, NAT_SYMMETRIC
  <1>1. Init => TypeOK
    <2> SUFFICES ASSUME Init PROVE TypeOK
      OBVIOUS
    <2>1. starts \in 0 .. MaxStarts /\ faults \in 0 .. MaxFaults
      BY BoundAssumption DEF Init
    <2>2. mapped_port_main \in 0 .. 2 /\ nattype \in NAT_UNKNOWN .. NAT_SYMMETRIC
          /\ nat_type \in NAT_UNKNOWN .. NAT_SYMMETRIC
      BY DEF Init
    <2>3. opened \subseteq Sockets /\ net \subseteq Message
      BY DEF Init, Sockets
    <2> QED
      BY <2>1, <2>2, <2>3 DEF Init, TypeOK
  <1>2. ASSUME TypeOK, [Next]_vars PROVE TypeOK'
    <2> USE <1>2, BoundAssumption
    <2>1. CASE start
      <3>1. net' \subseteq Message /\ opened' \subseteq Sockets
        BY <2>1, Sent DEF start
      <3>2. starts' \in 0 .. MaxStarts
        BY <2>1 DEF start, TypeOK
      <3>3. mapped_port_main' \in 0 .. 2
        BY <2>1 DEF start
      <3> QED
        BY <2>1, <3>1, <3>2, <3>3 DEF start, TypeOK
    <2>2. CASE tick
      <3>1. net' \subseteq Message /\ opened' \subseteq Sockets
        BY <2>2, Sent DEF tick
      <3>2. phase' \in {"Idle", "Main", "Alt", "Done"} /\ late' \in BOOLEAN
        BY <2>2 DEF tick, TypeOK
      <3> QED
        BY <2>2, <3>1, <3>2 DEF tick, TypeOK
    <2>3. CASE report
      BY <2>3 DEF report, detector, TypeOK
    <2>4. ASSUME NEW m \in net, NEW rest, rest \subseteq net, Handle(m, rest),
                 faults' \in 0 .. MaxFaults
          PROVE  TypeOK'
      BY <2>4, HandleType DEF TypeOK
    <2>5. ASSUME Fault PROVE faults' \in 0 .. MaxFaults
      BY <2>5 DEF Fault, TypeOK
    <2>6. ASSUME NEW m \in net, Receive(m) \/ Duplicate(m) PROVE TypeOK'
      <3>1. faults' \in 0 .. MaxFaults
        BY <2>5, <2>6 DEF Receive, Duplicate, TypeOK
      <3>2. net \ {m} \subseteq net /\ net \subseteq net
        OBVIOUS
      <3> QED
        BY <2>4, <2>6, <3>1, <3>2 DEF Receive, Duplicate
    <2>7. ASSUME NEW m \in net, Lose(m) PROVE TypeOK'
      BY <2>5, <2>7 DEF Lose, detector, TypeOK
    <2>8. CASE UNCHANGED vars
      BY <2>8 DEF vars, detector, TypeOK
    <2> QED
      BY <1>2, <2>1, <2>2, <2>3, <2>6, <2>7, <2>8 DEF Next
  <1> QED
    BY <1>1, <1>2, PTL DEF Spec

-----------------------------------------------------------------------------
(* What the detection never says *)

\* The invariant: but for a symmetric NAT that lets the other port in, the
\* port kept in phase Main is the one the main socket saw, and so is every
\* port it is compared with; phase Alt begins with that port known.
OnePort ==
    /\ phase = "Alt" => got_main_idx0
    /\ nat # "loose" => /\ got_main_idx0 => mapped_port_main = 1
                        /\ nattype # NAT_SYMMETRIC
                        /\ nat_type # NAT_SYMMETRIC

\* An answer of the main socket that the NAT lets in shows the first port.
LEMMA MainSeesOne ==
    ASSUME NEW m, m.from = "main", Passes(m), nat # "loose"
    PROVE  Mapped(m.at) = 1
  BY DEF Passes, Mapped, Unfiltered, Cone

\* A datagram that arrives, once or again, shows no second port.
LEMMA HandleOnePort ==
    ASSUME TypeOK, OnePort, NEW m \in net, NEW rest, Handle(m, rest)
    PROVE  OnePort'
  <1> USE DEF NAT_UNKNOWN, NAT_FULL_CONE, NAT_PORT_RESTRICTED, NAT_SYMMETRIC
  <1>0. nat' = nat /\ nat_type' = nat_type
    BY DEF Handle, try_fast_handle, Arrive
  <1>1. CASE UNCHANGED detector
    BY <1>0, <1>1 DEF OnePort, detector
  <1>2. CASE Passes(m) /\ feed_main(m)
    <2>1. m.from = "main" /\ nat # "loose" => Mapped(m.at) = 1
      BY <1>2, MainSeesOne
    <2>2. nat # "loose" => (got_main_idx0' => mapped_port_main' = 1)
      BY <1>2, <2>1 DEF feed_main, OnePort
    <2>3. phase' # "Alt" /\ (nat # "loose" => nattype' # NAT_SYMMETRIC)
      BY <1>2 DEF feed_main, OnePort
    <2> QED
      BY <1>0, <2>2, <2>3 DEF OnePort
  <1>3. CASE Passes(m) /\ feed_alt(m)
    <2>1. nat # "loose" => Mapped(m.at) = 1
      BY <1>3, MainSeesOne DEF feed_alt
    <2>2. nat # "loose" => mapped_port_main = 1
      BY <1>3 DEF feed_alt, OnePort
    <2> QED
      BY <1>0, <1>3, <2>1, <2>2 DEF feed_alt, classify, OnePort
  <1> QED
    BY <1>1, <1>2, <1>3 DEF Handle, try_fast_handle, Arrive, feed, feed_ignored

\* OnePort always holds.
LEMMA OnePortInvariant == Spec => []OnePort
  <1> USE DEF NAT_UNKNOWN, NAT_FULL_CONE, NAT_PORT_RESTRICTED, NAT_SYMMETRIC
  <1>1. Init => OnePort
    BY DEF Init, OnePort
  <1>2. ASSUME TypeOK, OnePort, [Next]_vars PROVE OnePort'
    <2> USE <1>2
    <2>1. CASE start
      BY <2>1 DEF start, OnePort
    <2>2. CASE tick
      BY <2>2 DEF tick, next_probe, OnePort
    <2>3. CASE report
      BY <2>3 DEF report, detector, OnePort
    <2>4. ASSUME NEW m \in net, Receive(m) \/ Duplicate(m) PROVE OnePort'
      BY <2>4, HandleOnePort DEF Receive, Duplicate
    <2>5. ASSUME NEW m \in net, Lose(m) PROVE OnePort'
      BY <2>5 DEF Lose, detector, OnePort
    <2>6. CASE UNCHANGED vars
      BY <2>6 DEF vars, detector, OnePort
    <2> QED
      BY <1>2, <2>1, <2>2, <2>3, <2>4, <2>5, <2>6 DEF Next
  <1> QED
    BY <1>1, <1>2, NatDetectTypeOK, PTL DEF Spec

\* No cone NAT is ever taken for a symmetric one, for any number of restarts,
\* losses and repetitions.
THEOREM NatDetectConeNotSymmetric == Spec => []ConeNotSymmetric
  <1>1. OnePort => ConeNotSymmetric
    BY DEF OnePort, ConeNotSymmetric, Cone
  <1> QED
    BY <1>1, OnePortInvariant, PTL

\* Behind a symmetric NAT that filters by port the client never reports
\* NAT_SYMMETRIC, the verdict NatDetect.h has for it.
THEOREM NatDetectSymmetricUnseen ==
    Spec => [](nat = "symmetric" => NAT_SYMMETRIC \notin {nattype, nat_type})
  <1>1. OnePort => (nat = "symmetric" => NAT_SYMMETRIC \notin {nattype, nat_type})
    BY DEF OnePort
  <1> QED
    BY <1>1, OnePortInvariant, PTL

-----------------------------------------------------------------------------
(* What the detection says when nothing disturbs it *)

Calm == starts <= 1 /\ ~ late /\ faults = 0

\* The first probe: its two answers are still to come or were counted, as far
\* as the NAT lets them in.
MainPart ==
    /\ opened = {"main"}
    /\ net \subseteq {Probe("main"), Reply("main", "main"), Reply("alt", "main")}
    /\ got_main_idx1 => nat \in Unfiltered
    /\ ~ (got_main_idx0 /\ got_main_idx1)
    /\ \/ nat \notin Unfiltered
       \/ Probe("main") \in net
       \/ /\ got_main_idx0 \/ Reply("main", "main") \in net
          /\ got_main_idx1 \/ Reply("alt", "main") \in net

\* The second probe is only sent behind a NAT with a filter.
AltPart ==
    /\ nat \notin Unfiltered
    /\ net \subseteq {Probe("alt"), Reply("main", "alt"), Reply("alt", "alt")}

Right == nattype = Expected

\* The invariant behind FirstTryRight.
FirstTry ==
    Calm => /\ starts = 0 <=> phase = "Idle"
            /\ phase = "Idle" => net = {} /\ opened = {"main"}
            /\ phase = "Main" => MainPart
            /\ phase = "Alt" => AltPart
            /\ phase = "Done" => Right

\* The datagrams of the two phases and their fields.
LEMMA Datagrams ==
    /\ \A to \in Sockets : Probe(to).type = "REQ" /\ Probe(to).to = to
    /\ \A from, at \in Sockets : /\ Reply(from, at).type = "RSP"
                                 /\ Reply(from, at).from = from
                                 /\ Reply(from, at).at = at
    /\ \A to, from, at \in Sockets : Probe(to) # Reply(from, at)
  <1>1. \A to, from, at \in Sockets : Probe(to).type # Reply(from, at).type
    BY MessageKinds
  <1> QED
    BY <1>1, MessageKinds

\* Undisturbed, a probe that arrives is replaced by its two answers.
LEMMA ProbeArrives ==
    ASSUME TypeOK, FirstTry, Calm, NEW m \in net, try_fast_handle(m, net \ {m})
    PROVE  FirstTry'
  <1>0. phase # "Idle"
    BY DEF FirstTry
  <1>1. m.type = "REQ" /\ UNCHANGED <<nat, opened, detector, starts>>
    BY DEF try_fast_handle
  <1>2. CASE phase = "Main"
    <2>1. m = Probe("main")
      BY <1>1, <1>2, Datagrams DEF FirstTry, MainPart, Sockets
    <2>2. net' = (net \ {m}) \cup {Reply("main", "main"), Reply("alt", "main")}
      BY <2>1, Datagrams DEF try_fast_handle, dual_reply, Sockets
    <2>3. MainPart'
      BY <1>1, <1>2, <2>2 DEF FirstTry, MainPart, detector
    <2> QED
      BY <1>1, <1>2, <2>3 DEF FirstTry, detector, Calm
  <1>3. CASE phase = "Alt"
    <2>1. m = Probe("alt")
      BY <1>1, <1>3, Datagrams DEF FirstTry, AltPart, Sockets
    <2>2. net' = (net \ {m}) \cup {Reply("main", "alt"), Reply("alt", "alt")}
      BY <2>1, Datagrams DEF try_fast_handle, dual_reply, Sockets
    <2>3. AltPart'
      BY <1>1, <1>3, <2>2 DEF FirstTry, AltPart, detector
    <2> QED
      BY <1>1, <1>3, <2>3 DEF FirstTry, detector, Calm
  <1>4. CASE phase = "Done"
    BY <1>1, <1>4 DEF FirstTry, Right, Expected, detector, Calm
  <1> QED
    BY <1>0, <1>2, <1>3, <1>4 DEF TypeOK

\* Undisturbed, an answer that arrives is counted as far as the NAT lets it
\* in, and ends the detection only with the right verdict.
LEMMA AnswerArrives ==
    ASSUME TypeOK, OnePort, FirstTry, Calm, NEW m \in net, Arrive(m, net \ {m})
    PROVE  FirstTry'
  <1> USE DEF NAT_UNKNOWN, NAT_FULL_CONE, NAT_PORT_RESTRICTED, NAT_SYMMETRIC
  <1>0. phase # "Idle"
    BY DEF FirstTry
  <1>1. m.type = "RSP" /\ UNCHANGED <<nat, opened, starts>> /\ net' = net \ {m}
    BY DEF Arrive
  <1>2. CASE phase = "Main"
    <2>0. MainPart /\ starts # 0
      BY <1>2 DEF FirstTry
    <2>1. m = Reply("main", "main") \/ m = Reply("alt", "main")
      BY <1>1, <2>0, Datagrams DEF MainPart, Sockets
    <2>2. m.from \in {"main", "alt"} /\ m.at = "main"
          /\ (m.from = "main" => m = Reply("main", "main"))
          /\ (m.from = "alt" => m = Reply("alt", "main"))
          /\ m # Probe("main")
      BY <2>1, Datagrams DEF Sockets
    <2>3. CASE ~ Passes(m)
      <3>1. UNCHANGED detector /\ nat \notin Unfiltered
        BY <2>3 DEF Arrive, Passes
      <3>2. MainPart'
        BY <1>1, <2>0, <3>1 DEF MainPart, detector
      <3> QED
        BY <1>1, <1>2, <2>0, <3>1, <3>2 DEF FirstTry, detector
    <2>4. CASE Passes(m)
      <3>1. feed_main(m)
        BY <1>2, <2>4 DEF Arrive, feed, feed_alt, feed_ignored
      <3>2. m.from = "alt" => nat \in Unfiltered
        BY <2>0, <2>2, <2>4 DEF Passes, MainPart
      <3>3. CASE got_main_idx0' /\ got_main_idx1'
        <4>1. nat \in Unfiltered
          BY <2>0, <2>2, <3>1, <3>2, <3>3 DEF feed_main, MainPart
        <4>2. phase' = "Done" /\ Right'
          BY <1>1, <3>1, <3>3, <4>1 DEF feed_main, Right, Expected
        <4> QED
          BY <1>1, <2>0, <4>2 DEF FirstTry
      <3>4. CASE ~ (got_main_idx0' /\ got_main_idx1')
        <4>1. phase' = "Main"
          BY <1>2, <3>1, <3>4 DEF feed_main
        <4>2. (got_main_idx1' => nat' \in Unfiltered) /\ opened' = {"main"}
          BY <1>1, <2>0, <2>2, <3>1, <3>2 DEF feed_main, MainPart
        <4>3. net' \subseteq {Probe("main"), Reply("main", "main"), Reply("alt", "main")}
          BY <1>1, <2>0 DEF MainPart
        <4>4. \/ nat' \notin Unfiltered
              \/ Probe("main") \in net'
              \/ /\ got_main_idx0' \/ Reply("main", "main") \in net'
                 /\ got_main_idx1' \/ Reply("alt", "main") \in net'
          <5>1. CASE m = Reply("main", "main")
            <6>1. m.from = "main" /\ m # Reply("alt", "main")
              BY <5>1, Datagrams DEF Sockets
            <6>2. got_main_idx0' /\ (got_main_idx1 => got_main_idx1')
              BY <3>1, <6>1 DEF feed_main
            <6> QED
              BY <1>1, <2>0, <2>2, <6>1, <6>2 DEF MainPart
          <5>2. CASE m = Reply("alt", "main")
            <6>1. m.from = "alt" /\ m # Reply("main", "main")
              BY <5>2, Datagrams DEF Sockets
            <6>2. got_main_idx1' /\ (got_main_idx0 => got_main_idx0')
              BY <3>1, <6>1 DEF feed_main
            <6> QED
              BY <1>1, <2>0, <2>2, <6>1, <6>2 DEF MainPart
          <5> QED
            BY <2>1, <5>1, <5>2
        <4>5. MainPart'
          BY <3>4, <4>2, <4>3, <4>4 DEF MainPart
        <4> QED
          BY <1>1, <2>0, <4>1, <4>5 DEF FirstTry
      <3> QED
        BY <3>3, <3>4
    <2> QED
      BY <2>3, <2>4
  <1>3. CASE phase = "Alt"
    <2>0. AltPart /\ starts # 0
      BY <1>3 DEF FirstTry
    <2>1. CASE UNCHANGED detector
      BY <1>1, <1>3, <2>0, <2>1 DEF FirstTry, AltPart, detector
    <2>2. CASE Passes(m) /\ feed_alt(m)
      <3>1. m.from = "main" /\ m.at = "alt"
        BY <1>1, <2>0, <2>2, Datagrams DEF feed_alt, AltPart, Sockets
      <3>2. nat = "restricted"
        BY <2>0, <2>2, <3>1 DEF Passes, AltPart
      <3>3. Mapped(m.at) = 1 /\ mapped_port_main = 1
        BY <1>3, <2>2, <3>1, <3>2, MainSeesOne DEF OnePort
      <3>4. phase' = "Done" /\ Right'
        BY <1>1, <2>2, <3>2, <3>3 DEF feed_alt, classify, Right, Expected, Unfiltered, Cone
      <3> QED
        BY <1>1, <2>0, <3>4 DEF FirstTry
    <2> QED
      BY <1>3, <2>1, <2>2 DEF Arrive, feed, feed_main, feed_ignored
  <1>4. CASE phase = "Done"
    <2>1. UNCHANGED detector
      BY <1>4 DEF Arrive, feed, feed_main, feed_alt, feed_ignored
    <2> QED
      BY <1>1, <1>4, <2>1 DEF FirstTry, Right, Expected, detector, Calm
  <1> QED
    BY <1>0, <1>2, <1>3, <1>4 DEF TypeOK

\* The first attempt, with nothing lost, late or repeated, has the result that
\* the steps described in NatDetect.h lead to, if it has one.
THEOREM NatDetectFirstTryRight == Spec => []FirstTryRight
  <1>1. Init => FirstTry
    BY DEF Init, FirstTry
  <1>2. ASSUME TypeOK, TypeOK', OnePort, FirstTry, [Next]_vars PROVE FirstTry'
    <2> SUFFICES ASSUME Calm' PROVE FirstTry'
      BY DEF FirstTry
    <2> USE <1>2
    <2>1. CASE start
      <3>1. starts = 0 /\ Calm
        BY <2>1 DEF start, Calm, TypeOK
      <3>2. net' = {Probe("main")} /\ opened' = {"main"}
        BY <2>1, <3>1 DEF start, send_req, FirstTry
      <3>3. MainPart' /\ phase' = "Main" /\ starts' # 0
        BY <2>1, <3>1, <3>2 DEF start, MainPart
      <3> QED
        BY <3>3 DEF FirstTry
    <2>2. CASE tick
      <3>1. Calm /\ net = {} /\ UNCHANGED <<nat, starts, got_main_idx0, got_main_idx1>>
        BY <2>2 DEF tick, Calm, TypeOK
      <3>2. CASE phase = "Main" /\ ~ got_main_idx0
        <4>1. phase' = "Main" /\ net' = {Probe("main")} /\ opened' = {"main"} /\ starts # 0
          BY <2>2, <3>1, <3>2 DEF tick, send_req, FirstTry, MainPart
        <4>2. MainPart'
          BY <3>1, <3>2, <4>1 DEF FirstTry, MainPart
        <4> QED
          BY <3>1, <4>1, <4>2 DEF FirstTry
      <3>3. CASE ~ (phase = "Main" /\ ~ got_main_idx0)
        <4>1. phase' = "Alt" /\ net' = {Probe("alt")} /\ starts # 0
          BY <2>2, <3>1, <3>3 DEF tick, next_probe, send_req, FirstTry
        <4>2. nat \notin Unfiltered
          BY <2>2, <3>1, <3>3 DEF tick, next_probe, FirstTry, MainPart, AltPart
        <4> QED
          BY <3>1, <4>1, <4>2 DEF FirstTry, AltPart
      <3> QED
        BY <3>2, <3>3
    <2>3. CASE report
      BY <2>3 DEF report, detector, FirstTry, Right, Expected, Calm
    <2>4. ASSUME NEW m \in net, Receive(m) PROVE FirstTry'
      <3>1. Calm
        BY <2>4 DEF Receive, Handle, try_fast_handle, Arrive, Calm
      <3> QED
        BY <2>4, <3>1, ProbeArrives, AnswerArrives DEF Receive, Handle
    <2>5. ASSUME NEW m \in net, Duplicate(m) \/ Lose(m) PROVE FALSE
      BY <2>5 DEF Duplicate, Lose, Fault, Calm, TypeOK
    <2>6. CASE UNCHANGED vars
      BY <2>6 DEF vars, detector, FirstTry, MainPart, AltPart, Right, Expected, Calm
    <2> QED
      BY <1>2, <2>1, <2>2, <2>3, <2>4, <2>5, <2>6 DEF Next
  <1>3. FirstTry => FirstTryRight
    BY DEF FirstTry, FirstTryRight, Undisturbed, Calm, Right
  <1> QED
    BY <1>1, <1>2, <1>3, OnePortInvariant, NatDetectTypeOK, PTL DEF Spec
=============================================================================
