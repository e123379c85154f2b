----------------------------- MODULE NatDetect -----------------------------
(***************************************************************************)
(* The client's NAT type detection (NatDetect.h, driven by P2PClient.cpp)  *)
(* against the server's two sockets (NatTypeCheck.cpp) and a NAT between.  *)
(*                                                                         *)
(* The client probes the main port, then the alternative port.  Whatever   *)
(* socket a probe reaches, the server answers it from both: index 0 from   *)
(* the main socket, index 1 from the alternative one, each with the public *)
(* port the probe came from.                                               *)
(*                                                                         *)
(* Abstractions.  Time is left out: tick may find its deadline (3 s after  *)
(* the last probe) passed while answers are still under way, and late      *)
(* remembers that it did.  The NAT keeps its mappings for the time of a    *)
(* detection.  Equal datagrams in flight at the same time count as one.    *)
(***************************************************************************)
EXTENDS Naturals

CONSTANTS
    MaxStarts,      \* bound: heartbeat answers that start the detection
    MaxFaults       \* bound: datagrams lost or delivered twice

ASSUME BoundAssumption == MaxStarts \in Nat \ {0} /\ MaxFaults \in Nat

NAT_UNKNOWN == 0
NAT_FULL_CONE == 1
NAT_PORT_RESTRICTED == 2
NAT_SYMMETRIC == 3

Sockets == {"main", "alt"}

\* Both sockets of the server have the same address.  A NAT lets in what comes
\* from an address the client has sent to ("open", and "loose", which is
\* symmetric), or only what comes from such a port ("restricted", and
\* "symmetric").
Nats == {"open", "restricted", "loose", "symmetric"}
Unfiltered == {"open", "loose"}
Cone == {"open", "restricted"}

VARIABLES
    \* the NAT
    nat,                \* one of Nats
    opened,             \* server ports the client has sent to
    \* NatDetect
    phase,              \* phase_
    got_main_idx0,
    got_main_idx1,
    mapped_port_main,
    nattype,            \* nattype_
    \* P2PClient
    nat_type,           \* nat_type_: what heartbeats report
    \* network and environment
    net,
    starts,             \* history: how often start was called
    late,               \* history: a deadline passed with datagrams under way
    faults              \* datagrams lost or repeated so far

detector == <<phase, got_main_idx0, got_main_idx1, mapped_port_main, nattype>>
vars == <<nat, opened, detector, nat_type, net, starts, late, faults>>

Probe(to) == [type |-> "REQ", to |-> to]

\* send_rsp, from a socket to the mapping that the client uses towards at.
Reply(from, at) == [type |-> "RSP", from |-> from, at |-> at]

\* Faulty variant of dual_reply: answers from the socket probed, as index 0.
dual_reply_one_socket(to) == {Reply("main", to)}

dual_reply(to) == {Reply("main", to), Reply("alt", to)}

Message == {Probe(to) : to \in Sockets} \cup {Reply(from, at) : from, at \in Sockets}

\* A cone NAT has one public port, a symmetric one a port per destination.
Mapped(at) == IF nat \notin Cone /\ at = "alt" THEN 2 ELSE 1

\* Which answers the NAT lets in.
Passes(m) ==
    \/ nat \in Unfiltered
    \/ nat = "restricted" /\ m.from \in opened
    \/ nat = "symmetric" /\ m.from = m.at

\* The client has talked to the main port before: the heartbeats.
Init ==
    /\ nat \in Nats
    /\ opened = {"main"}
    /\ phase = "Idle"
    /\ got_main_idx0 = FALSE
    /\ got_main_idx1 = FALSE
    /\ mapped_port_main = 0
    /\ nattype = NAT_UNKNOWN
    /\ nat_type = NAT_UNKNOWN
    /\ net = {}
    /\ starts = 0
    /\ late = FALSE
    /\ faults = 0

-----------------------------------------------------------------------------
(* The client *)

send_req(to) ==
    /\ net' = net \cup {Probe(to)}
    /\ opened' = opened \cup {to}

\* Faulty variant of start: the answers to the probe before still count.
start_keeps_answers ==
    /\ phase # "Done"
    /\ starts < MaxStarts
    /\ starts' = starts + 1
    /\ phase' = "Main"
    /\ mapped_port_main' = 0
    /\ send_req("main")
    /\ UNCHANGED <<nat, got_main_idx0, got_main_idx1, nattype, nat_type, late, faults>>

\* A heartbeat answer starts the detection, and starts it anew as long as it
\* has no result, whatever phase it is in.
start ==
    /\ phase # "Done"
    /\ starts < MaxStarts
    /\ starts' = starts + 1
    /\ phase' = "Main"
    /\ mapped_port_main' = 0
    /\ got_main_idx0' = FALSE
    /\ got_main_idx1' = FALSE
    /\ send_req("main")
    /\ UNCHANGED <<nat, nattype, nat_type, late, faults>>

classify(port) ==
    /\ nattype' = IF port = mapped_port_main THEN NAT_PORT_RESTRICTED ELSE NAT_SYMMETRIC
    /\ phase' = "Done"

\* feed in phase Main: both answers in mean a NAT without a filter.
feed_main(m) ==
    /\ phase = "Main"
    /\ got_main_idx0' = (got_main_idx0 \/ m.from = "main")
    /\ got_main_idx1' = (got_main_idx1 \/ m.from = "alt")
    /\ mapped_port_main' = IF m.from = "main" THEN Mapped(m.at) ELSE mapped_port_main
    /\ IF got_main_idx0' /\ got_main_idx1'
       THEN nattype' = NAT_FULL_CONE /\ phase' = "Done"
       ELSE UNCHANGED <<nattype, phase>>

\* feed in phase Alt: index 0 only, though the probe went to the other port.
\* got_alt_ is set and used in this one step.
feed_alt(m) ==
    /\ phase = "Alt"
    /\ m.from = "main"
    /\ classify(Mapped(m.at))
    /\ UNCHANGED <<got_main_idx0, got_main_idx1, mapped_port_main>>

feed_ignored(m) ==
    /\ phase \notin {"Main", "Alt"} \/ (phase = "Alt" /\ m.from = "alt")
    /\ UNCHANGED detector

feed(m) == feed_main(m) \/ feed_alt(m) \/ feed_ignored(m)

\* Faulty variant of next_probe: phase Alt is not repeated.
next_probe_once == phase = "Main"

\* tick past the deadline: what it probes next.
next_probe == phase \in {"Main", "Alt"}

tick ==
    /\ next_probe
    /\ IF phase = "Main" /\ ~ got_main_idx0
       THEN send_req("main") /\ UNCHANGED phase
       ELSE send_req("alt") /\ phase' = "Alt"
    /\ late' = (late \/ net # {})
    /\ UNCHANGED <<nat, got_main_idx0, got_main_idx1, mapped_port_main, nattype,
                   nat_type, starts, faults>>

\* tick_nat_detect takes over the result.
report ==
    /\ phase = "Done"
    /\ nat_type = NAT_UNKNOWN
    /\ nat_type' = nattype
    /\ UNCHANGED <<nat, opened, detector, net, starts, late, faults>>

-----------------------------------------------------------------------------
(* The server, the NAT and the network.  rest is the network without the   *)
(* datagram that arrives, or with it when it arrives again.                *)

\* try_fast_handle, on the receiving thread of either socket.
try_fast_handle(m, rest) ==
    /\ m.type = "REQ"
    /\ net' = rest \cup dual_reply(m.to)
    /\ UNCHANGED <<nat, opened, detector, nat_type, starts, late>>

Arrive(m, rest) ==
    /\ m.type = "RSP"
    /\ net' = rest
    /\ IF Passes(m) THEN feed(m) ELSE UNCHANGED detector
    /\ UNCHANGED <<nat, opened, nat_type, starts, late>>

Handle(m, rest) == try_fast_handle(m, rest) \/ Arrive(m, rest)

Receive(m) == Handle(m, net \ {m}) /\ UNCHANGED faults

Fault == faults < MaxFaults /\ faults' = faults + 1

Duplicate(m) == Handle(m, net) /\ Fault

Lose(m) ==
    /\ Fault
    /\ net' = net \ {m}
    /\ UNCHANGED <<nat, opened, detector, nat_type, starts, late>>

Next ==
    \/ start \/ tick \/ report
    \/ \E m \in net : Receive(m) \/ Duplicate(m) \/ Lose(m)

Spec == Init /\ [][Next]_vars

-----------------------------------------------------------------------------
(* Properties *)

TypeOK ==
    /\ nat \in Nats
    /\ opened \subseteq Sockets
    /\ phase \in {"Idle", "Main", "Alt", "Done"}
    /\ got_main_idx0 \in BOOLEAN /\ got_main_idx1 \in BOOLEAN
    /\ mapped_port_main \in 0 .. 2
    /\ nattype \in NAT_UNKNOWN .. NAT_SYMMETRIC
    /\ nat_type \in NAT_UNKNOWN .. NAT_SYMMETRIC
    /\ net \subseteq Message
    /\ starts \in 0 .. MaxStarts
    /\ late \in BOOLEAN
    /\ faults \in 0 .. MaxFaults

\* The first attempt, with nothing lost, repeated or late.
Undisturbed == starts = 1 /\ ~ late /\ faults = 0

\* The verdict that the steps described at the top of NatDetect.h lead to.
Expected ==
    IF nat \in Unfiltered THEN NAT_FULL_CONE
    ELSE IF nat \in Cone THEN NAT_PORT_RESTRICTED ELSE NAT_SYMMETRIC

\* If an undisturbed detection has a result, it is the expected one.
FirstTryRight == (phase = "Done" /\ Undisturbed) => nattype = Expected

\* No cone NAT is taken for a symmetric one, however often the detection is
\* started over and whatever is lost, late or repeated: the two ports that
\* classify compares are those of answers, never a port that was reset.
ConeNotSymmetric == nat \in Cone => NAT_SYMMETRIC \notin {nattype, nat_type}

-----------------------------------------------------------------------------
(* Liveness: the event loop ticks, datagrams that are not lost arrive. *)

FairSpec ==
    /\ Spec
    /\ WF_vars(tick) /\ WF_vars(report)
    /\ \A m \in Message : WF_vars(m \in net /\ Receive(m))

\* A detection that was started comes to a result and the client reports it,
\* although heartbeats may start it over and probes and answers get lost.
\* The exception is a symmetric NAT that filters by port: index 0, the answer
\* phase Alt waits for, comes from the socket that was not probed.
ResultReported ==
    (phase # "Idle" /\ nat # "symmetric") ~> (nat_type # NAT_UNKNOWN)
=============================================================================
