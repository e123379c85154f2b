------------------------------ MODULE Session ------------------------------
(***************************************************************************)
(* The reliable-UDP session of the client SDK (Session.h).                 *)
(*                                                                         *)
(* Two Session objects, one per endpoint, exchange tunnel frames through a *)
(* transport (punched path or relay) that may lose, duplicate, delay and   *)
(* reorder them.  Each object is at once a sender (next_seq_, pending_)    *)
(* and a receiver (expected_seq_, ooo_).  P2PClient calls every method     *)
(* with mu_ held, so a method is one atomic step.                          *)
(*                                                                         *)
(* Abstractions.  A payload with its channel id is the number of the       *)
(* reliable message it carries: message i of a side is the (i+1)-st one    *)
(* accepted by send().  The keep-alive clock and the retransmission clock  *)
(* become a free choice of what is due at a tick.  uint16_t is 0..SeqMod-1 *)
(* so that a model can use a smaller width.                                *)
(***************************************************************************)
EXTENDS Integers, Sequences, FiniteSets

CONSTANTS
    SeqMod,      \* 2^16: sequence numbers are uint16_t
    Window,      \* 64: frames send() keeps unacknowledged
    OooCap,      \* 64: frames handle_data keeps out of order
    Senders,     \* the sides whose application sends
    MaxMsgs,     \* bound: reliable messages a side sends
    MaxUnrel,    \* bound: unreliable messages a side sends
    KeepAlive,   \* the sides whose 15 s keep-alive falls due
    Lifetime     \* bound: how many messages late a frame can arrive

Side == {0, 1}
Peer(s) == 1 - s

ASSUME SeqModAssumption == SeqMod \in Nat /\ SeqMod > 1 /\ SeqMod % 2 = 0
ASSUME WindowAssumption == Window \in Nat \ {0} /\ OooCap \in Nat
ASSUME SideAssumption == Senders \subseteq Side /\ KeepAlive \subseteq Side
ASSUME BoundAssumption ==
    MaxMsgs \in Nat /\ MaxUnrel \in Nat /\ Lifetime \in Nat

VARIABLES
    sent,        \* history: reliable messages accepted by send()
    next_seq,    \* next_seq_
    pending,     \* pending_: frames sent and not acknowledged
    expected,    \* expected_seq_
    ooo,         \* ooo_ with slot_channel: seq -> buffered message
    delivered,   \* history: reliable messages given to on_data, in order
    usent,       \* history: unreliable messages sent
    udelivered,  \* history: unreliable messages given to on_data
    net          \* the frames in flight

senderVars == <<sent, next_seq, pending>>
receiverVars == <<expected, ooo, delivered>>
unrelVars == <<usent, udelivered>>
vars == <<senderVars, receiverVars, unrelVars, net>>

Seqs == 0 .. (SeqMod - 1)
Slot == [seq : Seqs, msg : Nat]

\* TT_DATA.  An unreliable frame carries sequence number 0 and no TF_RELIABLE.
DataFrame(to, flags, seq, msg) ==
    [type |-> "DATA", to |-> to, flags |-> flags, seq |-> seq, msg |-> msg]

Reliable(f) == f.type = "DATA" /\ "TF_RELIABLE" \in f.flags

\* Faulty variant of AckFrame: acknowledges the frame it still expects.
AckFrame_expected(to, exp, at) ==
    [type |-> "ACK", to |-> to, ack |-> exp, at |-> at]

\* TT_ACK as send_ack builds it for an endpoint whose expected_seq_ is exp.
\* The field at is history: how many messages had been delivered by then.
AckFrame(to, exp, at) ==
    [type |-> "ACK", to |-> to,
     ack |-> IF exp > 0 THEN exp - 1 ELSE 0, at |-> at]

PingFrame(to) == [type |-> "PING", to |-> to]
PongFrame(to) == [type |-> "PONG", to |-> to]

Frame ==
    [type : {"DATA"}, to : Side, flags : SUBSET {"TF_RELIABLE"},
     seq : Seqs, msg : Nat]
        \cup [type : {"ACK"}, to : Side, ack : Seqs, at : Nat]
        \cup [type : {"PING", "PONG"}, to : Side]

Init ==
    /\ sent = [s \in Side |-> 0]
    /\ next_seq = [s \in Side |-> 0]
    /\ pending = [s \in Side |-> <<>>]
    /\ expected = [s \in Side |-> 0]
    /\ ooo = [s \in Side |-> <<>>]
    /\ delivered = [s \in Side |-> <<>>]
    /\ usent = [s \in Side |-> 0]
    /\ udelivered = [s \in Side |-> {}]
    /\ net = {}

-----------------------------------------------------------------------------
(* Sending *)

\* External: the network holds back a frame for less than Lifetime messages.
\* Those left in flight when s sends its next message are the ones about
\* the last Lifetime messages of s.
InFlight(s) ==
    {f \in net :
        /\ (Reliable(f) /\ f.to # s) => sent[s] - f.msg < Lifetime
        /\ (f.type = "ACK" /\ f.to = s) => sent[s] - f.at < Lifetime}

\* Faulty variant of Send: lets one frame too many into the window.
Send_past_window(s) ==
    /\ s \in Senders
    /\ sent[s] < MaxMsgs
    /\ Len(pending[s]) <= Window
    /\ pending' = [pending EXCEPT ![s] =
           Append(@, [seq |-> next_seq[s], msg |-> sent[s]])]
    /\ next_seq' = [next_seq EXCEPT ![s] = (@ + 1) % SeqMod]
    /\ sent' = [sent EXCEPT ![s] = @ + 1]
    /\ net' = InFlight(s) \cup
           {DataFrame(Peer(s), {"TF_RELIABLE"}, next_seq[s], sent[s])}
    /\ UNCHANGED <<receiverVars, unrelVars>>

\* send(reliable = true).  With a full window it returns -2 and does nothing.
Send(s) ==
    /\ s \in Senders
    /\ sent[s] < MaxMsgs
    /\ Len(pending[s]) < Window
    /\ pending' = [pending EXCEPT ![s] =
           Append(@, [seq |-> next_seq[s], msg |-> sent[s]])]
    /\ next_seq' = [next_seq EXCEPT ![s] = (@ + 1) % SeqMod]
    /\ sent' = [sent EXCEPT ![s] = @ + 1]
    /\ net' = InFlight(s) \cup
           {DataFrame(Peer(s), {"TF_RELIABLE"}, next_seq[s], sent[s])}
    /\ UNCHANGED <<receiverVars, unrelVars>>

\* send(reliable = false): the frame is sent once and not kept.
SendUnreliable(s) ==
    /\ s \in Senders
    /\ usent[s] < MaxUnrel
    /\ usent' = [usent EXCEPT ![s] = @ + 1]
    /\ net' = net \cup {DataFrame(Peer(s), {}, 0, usent[s])}
    /\ UNCHANGED <<senderVars, receiverVars, udelivered>>

\* Faulty variant of Resent: only the keep-alive is sent.
Resent_ping_only(s, due, ping) == IF ping THEN {PingFrame(Peer(s))} ELSE {}

\* The frames tick() sends when the pending frames at positions due are
\* rto_ms_ old and, if ping holds, the last TT_PING is 15 s old.
Resent(s, due, ping) ==
    {DataFrame(Peer(s), {"TF_RELIABLE"}, pending[s][i].seq, pending[s][i].msg) :
        i \in due}
        \cup (IF ping THEN {PingFrame(Peer(s))} ELSE {})

tick(s) ==
    /\ \E due \in SUBSET DOMAIN pending[s], ping \in BOOLEAN :
           /\ ping => s \in KeepAlive
           /\ net' = net \cup Resent(s, due, ping)
    /\ UNCHANGED <<senderVars, receiverVars, unrelVars>>

-----------------------------------------------------------------------------
(* Receiving: on_frame.  rest is the network without the frame received,   *)
(* or with it when the network keeps a duplicate.                          *)

\* deliver() of the frame itself, then of the run of buffered frames behind
\* it: ooo_.begin() is the least key, and no key is behind expected_seq_
\* (OooAhead), so the loop stops at the first number n that is not a key.
handle_in_order(f, rest) ==
    LET s == f.to
        e == expected[s] + 1
    IN  /\ f.seq = expected[s]
        /\ \E n \in e .. SeqMod :
              /\ e .. (n - 1) \subseteq DOMAIN ooo[s]
              /\ n \notin DOMAIN ooo[s]
              /\ delivered' = [delivered EXCEPT ![s] =
                     (@ \o <<f.msg>>)
                         \o [i \in 1 .. (n - e) |-> ooo[s][e + i - 1]]]
              /\ expected' = [expected EXCEPT ![s] = n % SeqMod]
              /\ ooo' = [ooo EXCEPT ![s] =
                     [q \in DOMAIN ooo[s] \ (e .. (n - 1)) |-> ooo[s][q]]]
              /\ net' = rest \cup {AckFrame(Peer(s), n % SeqMod,
                                            Len(delivered[s]) + 1 + n - e)}

\* Faulty variant of handle_ahead: buffers frames from behind as well.
handle_ahead_or_behind(f, rest) ==
    LET s == f.to
    IN  /\ f.seq # expected[s]
        /\ Cardinality(DOMAIN ooo[s]) < OooCap
        /\ ooo' = [ooo EXCEPT ![s] =
               [q \in DOMAIN ooo[s] \cup {f.seq} |->
                   IF q = f.seq THEN f.msg ELSE ooo[s][q]]]
        /\ net' = rest \cup {AckFrame(Peer(s), expected[s], Len(delivered[s]))}
        /\ UNCHANGED <<expected, delivered>>

\* A frame ahead of expected_seq_ is copied into ooo_ while it has room.
handle_ahead(f, rest) ==
    LET s == f.to
    IN  /\ f.seq > expected[s]
        /\ Cardinality(DOMAIN ooo[s]) < OooCap
        /\ ooo' = [ooo EXCEPT ![s] =
               [q \in DOMAIN ooo[s] \cup {f.seq} |->
                   IF q = f.seq THEN f.msg ELSE ooo[s][q]]]
        /\ net' = rest \cup {AckFrame(Peer(s), expected[s], Len(delivered[s]))}
        /\ UNCHANGED <<expected, delivered>>

\* Faulty variant of handle_dropped: delivers a frame it has delivered before.
handle_dropped_delivers(f, rest) ==
    LET s == f.to
    IN  /\ f.seq # expected[s]
        /\ ~ (f.seq > expected[s] /\ Cardinality(DOMAIN ooo[s]) < OooCap)
        /\ delivered' = [delivered EXCEPT ![s] = Append(@, f.msg)]
        /\ net' = rest \cup {AckFrame(Peer(s), expected[s], Len(delivered[s]))}
        /\ UNCHANGED <<expected, ooo>>

\* Any other reliable frame is dropped, and acknowledged like the rest.
handle_dropped(f, rest) ==
    LET s == f.to
    IN  /\ f.seq # expected[s]
        /\ ~ (f.seq > expected[s] /\ Cardinality(DOMAIN ooo[s]) < OooCap)
        /\ net' = rest \cup {AckFrame(Peer(s), expected[s], Len(delivered[s]))}
        /\ UNCHANGED receiverVars

handle_data(f, rest) ==
    /\ Reliable(f)
    /\ \/ handle_in_order(f, rest)
       \/ handle_ahead(f, rest)
       \/ handle_dropped(f, rest)
    /\ UNCHANGED <<senderVars, unrelVars>>

handle_unreliable(f, rest) ==
    /\ f.type = "DATA" /\ ~ Reliable(f)
    /\ udelivered' = [udelivered EXCEPT ![f.to] = @ \cup {f.msg}]
    /\ net' = rest
    /\ UNCHANGED <<senderVars, receiverVars, usent>>

\* Faulty variant of Covered: the operands of the subtraction are swapped.
Covered_swapped(seq, ack) ==
    LET d == (ack - seq) % SeqMod IN d = 0 \/ 2 * d >= SeqMod

\* (int16_t)(seq - ack) <= 0
Covered(seq, ack) ==
    LET d == (seq - ack) % SeqMod IN d = 0 \/ 2 * d >= SeqMod

\* handle_ack pops the leading frames the acknowledgement covers.
handle_ack(f, rest) ==
    LET s == f.to
    IN  /\ f.type = "ACK"
        /\ \E k \in 0 .. Len(pending[s]) :
              /\ \A i \in 1 .. k : Covered(pending[s][i].seq, f.ack)
              /\ k < Len(pending[s]) => ~ Covered(pending[s][k + 1].seq, f.ack)
              /\ pending' = [pending EXCEPT ![s] = SubSeq(@, k + 1, Len(@))]
        /\ net' = rest
        /\ UNCHANGED <<sent, next_seq, receiverVars, unrelVars>>

reply_pong(f, rest) ==
    /\ f.type = "PING"
    /\ net' = rest \cup {PongFrame(Peer(f.to))}
    /\ UNCHANGED <<senderVars, receiverVars, unrelVars>>

handle_pong(f, rest) ==
    /\ f.type = "PONG"
    /\ net' = rest
    /\ UNCHANGED <<senderVars, receiverVars, unrelVars>>

on_frame(f, rest) ==
    \/ handle_data(f, rest)
    \/ handle_unreliable(f, rest)
    \/ handle_ack(f, rest)
    \/ reply_pong(f, rest)
    \/ handle_pong(f, rest)

Receive(f) ==
    /\ f \in net
    /\ \E rest \in {net, net \ {f}} : on_frame(f, rest)

\* External: the network loses a frame.
Lose(f) ==
    /\ f \in net
    /\ net' = net \ {f}
    /\ UNCHANGED <<senderVars, receiverVars, unrelVars>>

Next ==
    \/ \E s \in Side : Send(s) \/ SendUnreliable(s) \/ tick(s)
    \/ \E f \in net : Receive(f) \/ Lose(f)

Spec == Init /\ [][Next]_vars

-----------------------------------------------------------------------------
(* Properties *)

TypeOK ==
    /\ sent \in [Side -> Nat]
    /\ next_seq \in [Side -> Seqs]
    /\ pending \in [Side -> Seq(Slot)]
    /\ expected \in [Side -> Seqs]
    /\ DOMAIN ooo = Side
    /\ \A s \in Side : /\ DOMAIN ooo[s] \subseteq Seqs
                       /\ \A q \in DOMAIN ooo[s] : ooo[s][q] \in Nat
    /\ delivered \in [Side -> Seq(Nat)]
    /\ usent \in [Side -> Nat]
    /\ udelivered \in [Side -> SUBSET Nat]
    /\ net \subseteq Frame

\* Reliable messages reach on_data in the order send() accepted them, with
\* none skipped and none twice, whatever the network repeats or reorders
\* ("seq/ack", handle_data; "reliable, in-order delivery" of the guide).
InOrder ==
    \A s \in Side : \A i \in DOMAIN delivered[s] : delivered[s][i] = i - 1

\* ooo_ holds only frames ahead of expected_seq_ and inside the sender's
\* window, so begin() of the map is never a number already passed and the
\* drain loop of handle_data cannot be blocked by a stale entry.
OooAhead ==
    \A s \in Side : \A q \in DOMAIN ooo[s] :
        /\ expected[s] < q
        /\ q <= expected[s] + Window

\* The limit of ooo_ never drops a frame that the receiver lacks: the send
\* window fills first ("ooo_.size() < 64" in handle_data).
OooHasRoom ==
    \A f \in net :
        (Reliable(f) /\ f.seq > expected[f.to] /\ f.seq \notin DOMAIN ooo[f.to])
            => Cardinality(DOMAIN ooo[f.to]) < OooCap

\* Messages send() accepted that are no longer kept for retransmission.
Acked(s) == {i \in 0 .. (sent[s] - 1) :
                \A k \in DOMAIN pending[s] : pending[s][k].msg # i}

\* handle_ack forgets a frame only after the peer's application got it, with
\* the one exception of the very first message: send_ack has no value for
\* "nothing received yet" and says 0.
AckedExceptFirst ==
    \A s \in Side : \A i \in Acked(s) :
        i = 0 \/ i < Len(delivered[Peer(s)])

\* Two sessions implement a FIFO channel in each direction.  Its capacity is
\* one more than the window, because of the early acknowledgement of the
\* first message.
Channel == INSTANCE FifoChannel WITH Capacity <- Window + 1
ChannelSpec == Channel!Spec

-----------------------------------------------------------------------------
(* Liveness *)

\* worker_loop ticks every session at least every 50 ms and a frame is due
\* again after 400 ms, so a tick that resends everything pending keeps
\* happening.
TickAll(s) ==
    /\ pending[s] # <<>>
    /\ net' = net \cup Resent(s, DOMAIN pending[s], FALSE)
    /\ UNCHANGED <<senderVars, receiverVars, unrelVars>>

\* A frame sent again and again gets through again and again: UDP promises
\* nothing, and without this no protocol could deliver anything.  It is asked
\* only of the frame the receiver waits for, of those it has (which make it
\* acknowledge again) and of the newest acknowledgement.
FairNetwork ==
    \A s \in Senders :
        /\ SF_vars(\E f \in net : Reliable(f) /\ f.to = Peer(s)
                      /\ f.msg = Len(delivered[f.to]) /\ Receive(f))
        /\ SF_vars(\E f \in net : Reliable(f) /\ f.to = Peer(s)
                      /\ f.msg < Len(delivered[f.to]) /\ Receive(f))
        /\ SF_vars(\E f \in net : f.type = "ACK" /\ f.to = s
                      /\ f.at = Len(delivered[Peer(s)]) /\ Receive(f))

FairSpec == Spec /\ (\A s \in Senders : WF_vars(TickAll(s))) /\ FairNetwork

\* Every message send() accepted reaches the peer's application, once the
\* first one has: retransmission (tick) never gives up.
DeliveredOnceStarted ==
    \A s \in Senders, m \in 0 .. (MaxMsgs - 1) :
        (sent[s] > m /\ delivered[Peer(s)] # <<>>)
            ~> (Len(delivered[Peer(s)]) > m)

\* A full window opens again (send() returning -2 asks the caller to retry
\* later), once the first message has been delivered.
WindowReopens ==
    \A s \in Senders :
        (Len(pending[s]) = Window /\ delivered[Peer(s)] # <<>>)
            ~> (Len(pending[s]) < Window)

\* "Reliable, in-order delivery" of the developer guide, without proviso.
EventuallyDelivered ==
    \A s \in Senders, m \in 0 .. (MaxMsgs - 1) :
        (sent[s] > m) ~> (Len(delivered[Peer(s)]) > m)
=============================================================================
