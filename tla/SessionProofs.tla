--------------------------- MODULE SessionProofs ---------------------------
(***************************************************************************)
(* What a pair of sessions guarantees for every window, buffer limit and   *)
(* sequence-number width, as long as fewer messages than half the sequence *)
(* space are sent (NoWrap: the first 32768 of a session).                  *)
(***************************************************************************)
EXTENDS Session, FiniteSetTheorems, SequenceTheorems, TLAPS

NoWrap == 2 * MaxMsgs <= SeqMod

\* The first message of s still kept for retransmission.
First(s) == sent[s] - Len(pending[s])

\* Sender: numbers are not reused, and pending_ is the run First(s)..sent-1.
SenderInv ==
    \A s \in Side :
        /\ sent[s] <= MaxMsgs
        /\ next_seq[s] = sent[s]
        /\ Len(pending[s]) <= Window
        /\ Len(pending[s]) <= sent[s]
        /\ \A i \in 1 .. Len(pending[s]) :
               /\ pending[s][i].seq = First(s) + i - 1
               /\ pending[s][i].msg = First(s) + i - 1

\* Receiver: expected_seq_ counts the deliveries, and a buffered frame is
\* the message its number says.
ReceiverInv ==
    \A s \in Side :
        /\ expected[s] = Len(delivered[s])
        /\ expected[s] <= sent[Peer(s)]
        /\ \A q \in DOMAIN ooo[s] : /\ expected[s] < q
                                    /\ q < sent[Peer(s)]
                                    /\ ooo[s][q] = q

\* Network: a data frame carries a message that was sent, under its own
\* number; an acknowledgement never says more than was delivered, except
\* the 0 that stands for "nothing".
NetInv ==
    \A f \in net :
        /\ Reliable(f) => /\ f.seq = f.msg
                          /\ f.msg < sent[Peer(f.to)]
        /\ f.type = "ACK" => /\ f.at <= Len(delivered[Peer(f.to)])
                             /\ f.ack = IF f.at > 0 THEN f.at - 1 ELSE 0

\* What the sender has forgotten was delivered, except the first message.
AckInv ==
    \A s \in Side : First(s) <= 1 \/ First(s) <= Len(delivered[Peer(s)])

IInv == TypeOK /\ SenderInv /\ ReceiverInv /\ InOrder /\ NetInv /\ AckInv

-----------------------------------------------------------------------------
(* Arithmetic modulo SeqMod and the two endpoints *)

\* A number in [0, m) is its own remainder; one in [-m, 0) gains m: the uint16_t
\* arithmetic of Session.h while no sequence number wraps.
LEMMA ModSmall ==
    ASSUME NEW m \in Nat, NEW x \in Int, m > 0
    PROVE  /\ (0 <= x /\ x < m) => x % m = x
           /\ (- m <= x /\ x < 0) => x % m = x + m
  OBVIOUS

\* Below the wrap the int16_t comparison of handle_ack is the order of the
\* sequence numbers.
LEMMA CoveredIff ==
    ASSUME NoWrap, NEW a \in Nat, NEW b \in Nat, a < MaxMsgs, b < MaxMsgs
    PROVE  Covered(a, b) <=> a <= b
<1>1. CASE a >= b
  <2>1. (a - b) % SeqMod = a - b
    BY <1>1, ModSmall, SeqModAssumption, BoundAssumption DEF NoWrap
  <2>2. QED BY <1>1, <2>1, SeqModAssumption, BoundAssumption DEF NoWrap, Covered
<1>2. CASE a < b
  <2>1. (a - b) % SeqMod = a - b + SeqMod
    BY <1>2, ModSmall, SeqModAssumption, BoundAssumption DEF NoWrap
  <2>2. QED BY <1>2, <2>1, SeqModAssumption, BoundAssumption DEF NoWrap, Covered
<1>3. QED BY <1>1, <1>2

\* Length and elements of a concatenation: handle_data's run of deliveries.
LEMMA ConcatFacts ==
    ASSUME NEW a \in Seq(Nat), NEW b \in Seq(Nat)
    PROVE  /\ a \o b \in Seq(Nat)
           /\ Len(a \o b) = Len(a) + Len(b)
           /\ \A i \in 1 .. Len(a) : (a \o b)[i] = a[i]
           /\ \A i \in 1 .. Len(b) : (a \o b)[Len(a) + i] = b[i]
  OBVIOUS

\* What is left of a sequence when handle_ack drops its first k elements.
LEMMA SuffixFacts ==
    ASSUME NEW S, NEW q \in Seq(S), NEW k \in 0 .. Len(q)
    PROVE  /\ SubSeq(q, k + 1, Len(q)) \in Seq(S)
           /\ Len(SubSeq(q, k + 1, Len(q))) = Len(q) - k
           /\ \A i \in 1 .. (Len(q) - k) : SubSeq(q, k + 1, Len(q))[i] = q[k + i]
<1>1. Len(q) \in Nat /\ k \in Nat /\ k <= Len(q)
  OBVIOUS
<1>2. \A i \in (k + 1) .. Len(q) : q[i] \in S
  BY <1>1
<1>3. /\ SubSeq(q, k + 1, Len(q)) \in Seq(S)
      /\ Len(SubSeq(q, k + 1, Len(q))) =
             IF k + 1 <= Len(q) THEN Len(q) - (k + 1) + 1 ELSE 0
      /\ \A i \in 1 .. Len(q) - (k + 1) + 1 :
             SubSeq(q, k + 1, Len(q))[i] = q[(k + 1) + i - 1]
  BY <1>1, <1>2, SubSeqProperties
<1>4. Len(SubSeq(q, k + 1, Len(q))) = Len(q) - k
  BY <1>1, <1>3
<1>5. ASSUME NEW i \in 1 .. (Len(q) - k)
      PROVE  SubSeq(q, k + 1, Len(q))[i] = q[k + i]
  <2>1. i \in 1 .. Len(q) - (k + 1) + 1 /\ (k + 1) + i - 1 = k + i
    BY <1>1
  <2>2. QED BY <1>3, <2>1
<1>6. QED BY <1>3, <1>4, <1>5

\* The run that handle_data takes out of ooo_, as a sequence.
LEMMA RunFacts ==
    ASSUME NEW g, NEW b \in Nat, NEW n \in Nat,
           \A i \in 1 .. n : b + i - 1 \in Nat /\ g[b + i - 1] = b + i - 1
    PROVE  LET r == [i \in 1 .. n |-> g[b + i - 1]]
           IN  /\ r \in Seq(Nat) /\ Len(r) = n
               /\ \A i \in 1 .. n : r[i] = b + i - 1
<1> DEFINE r == [i \in 1 .. n |-> g[b + i - 1]]
<1>1. r \in [1 .. n -> Nat]
  OBVIOUS
<1>2. \A i \in 1 .. n : r[i] = b + i - 1
  OBVIOUS
<1> HIDE DEF r
<1>3. r \in Seq(Nat) /\ Len(r) = n
  BY <1>1
<1>4. QED BY <1>2, <1>3 DEF r

\* There are two endpoints, each the other's peer.
LEMMA PeerFacts ==
    \A s \in Side : /\ Peer(s) \in Side
                    /\ Peer(Peer(s)) = s
                    /\ Peer(s) # s
                    /\ \A t \in Side : t = s \/ t = Peer(s)
  BY DEF Side, Peer

-----------------------------------------------------------------------------
(* Every step preserves the invariant *)

\* A freshly constructed pair of sessions satisfies the invariant.
LEMMA InitIInv == Init => IInv
<1> SUFFICES ASSUME Init PROVE IInv  OBVIOUS
<1>1. TypeOK
  BY SeqModAssumption DEF Init, TypeOK, Side, Seqs, Slot
<1>2. SenderInv
  BY BoundAssumption, WindowAssumption DEF Init, SenderInv, Side, First
<1>3. ReceiverInv /\ InOrder /\ NetInv /\ AckInv
  BY PeerFacts DEF Init, ReceiverInv, InOrder, NetInv, AckInv, First
<1>4. QED BY <1>1, <1>2, <1>3 DEF IInv

\* send() keeps the invariant: the new frame extends pending_ and the network
\* by the next number.
LEMMA SendIInv ==
    ASSUME NoWrap, IInv, NEW s \in Side, Send(s)
    PROVE  IInv'
<1> DEFINE m == [seq |-> next_seq[s], msg |-> sent[s]]
           f0 == DataFrame(Peer(s), {"TF_RELIABLE"}, next_seq[s], sent[s])
<1>1. /\ sent[s] \in Nat /\ sent[s] < MaxMsgs /\ next_seq[s] = sent[s]
      /\ m \in Slot /\ pending[s] \in Seq(Slot)
      /\ Len(pending[s]) < Window
  BY DEF Send, IInv, TypeOK, SenderInv, Slot
<1>2. (next_seq[s] + 1) % SeqMod = sent[s] + 1
  <2>1. /\ next_seq[s] + 1 \in Int /\ 0 <= next_seq[s] + 1
        /\ next_seq[s] + 1 < SeqMod
    BY <1>1, SeqModAssumption, BoundAssumption DEF NoWrap
  <2>2. QED BY <1>1, <2>1, ModSmall, SeqModAssumption
<1>3. /\ sent' = [sent EXCEPT ![s] = sent[s] + 1]
      /\ next_seq' = [next_seq EXCEPT ![s] = sent[s] + 1]
      /\ pending' = [pending EXCEPT ![s] = Append(pending[s], m)]
      /\ UNCHANGED <<expected, ooo, delivered, usent, udelivered>>
  BY <1>2 DEF Send, receiverVars, unrelVars
<1>4. net' \subseteq net \cup {f0}
  BY DEF Send, InFlight
<1>5. f0 \in Frame
  BY <1>1, PeerFacts DEF DataFrame, Frame, IInv, TypeOK
<1>6. TypeOK'
  <2>1. sent[s] + 1 \in Seqs
    BY <1>1, SeqModAssumption, BoundAssumption DEF NoWrap, Seqs
  <2>2. Append(pending[s], m) \in Seq(Slot)
    BY <1>1
  <2>3. net' \subseteq Frame
    BY <1>4, <1>5 DEF IInv, TypeOK
  <2>4. sent' \in [Side -> Nat] /\ next_seq' \in [Side -> Seqs]
    BY <1>1, <1>3, <2>1 DEF IInv, TypeOK
  <2>5. pending' \in [Side -> Seq(Slot)]
    BY <1>3, <2>2 DEF IInv, TypeOK
  <2>6. QED BY <1>3, <2>3, <2>4, <2>5 DEF IInv, TypeOK
<1>7. SenderInv'
  <2> SUFFICES ASSUME NEW t \in Side
               PROVE  /\ sent'[t] <= MaxMsgs
                      /\ next_seq'[t] = sent'[t]
                      /\ Len(pending'[t]) <= Window
                      /\ Len(pending'[t]) <= sent'[t]
                      /\ \A i \in 1 .. Len(pending'[t]) :
                             /\ pending'[t][i].seq = First(t)' + i - 1
                             /\ pending'[t][i].msg = First(t)' + i - 1
    BY DEF SenderInv
  <2>1. CASE t = s
    <3>1. /\ sent'[s] = sent[s] + 1 /\ next_seq'[s] = sent[s] + 1
          /\ pending'[s] = Append(pending[s], m)
          /\ Len(pending'[s]) = Len(pending[s]) + 1
          /\ First(s)' = First(s)
      BY <1>1, <1>3, SMTT(30) DEF IInv, TypeOK, First
    <3>2. ASSUME NEW i \in 1 .. Len(pending'[s])
          PROVE  /\ pending'[s][i].seq = First(s) + i - 1
                 /\ pending'[s][i].msg = First(s) + i - 1
      <4>1. CASE i \in 1 .. Len(pending[s])
        <5>1. pending'[s][i] = pending[s][i]
          BY <1>1, <3>1, <4>1
        <5>2. QED BY <4>1, <5>1 DEF IInv, SenderInv
      <4>2. CASE i = Len(pending[s]) + 1
        <5>1. pending'[s][i] = m
          BY <1>1, <3>1, <4>2
        <5>2. QED BY <1>1, <4>2, <5>1 DEF First
      <4>3. QED BY <1>1, <3>1, <4>1, <4>2
    <3>3. /\ Len(pending[s]) \in Nat /\ Len(pending[s]) <= sent[s]
      BY <1>1 DEF IInv, SenderInv
    <3>4. QED
      BY <1>1, <2>1, <3>1, <3>2, <3>3, BoundAssumption, WindowAssumption
  <2>2. CASE t # s
    <3>1. /\ sent'[t] = sent[t] /\ next_seq'[t] = next_seq[t]
          /\ pending'[t] = pending[t] /\ First(t)' = First(t)
      BY <1>3, <2>2 DEF IInv, TypeOK, First
    <3>2. QED BY <3>1 DEF IInv, SenderInv
  <2>3. QED BY <2>1, <2>2
<1>8. \A t \in Side : sent[t] \in Nat /\ sent'[t] \in Nat /\ sent[t] <= sent'[t]
  BY <1>1, <1>3 DEF IInv, TypeOK
<1>9. ReceiverInv'
  <2> SUFFICES ASSUME NEW t \in Side
               PROVE  /\ expected[t] = Len(delivered[t])
                      /\ expected[t] <= sent'[Peer(t)]
                      /\ \A q \in DOMAIN ooo[t] : /\ expected[t] < q
                                                  /\ q < sent'[Peer(t)]
                                                  /\ ooo[t][q] = q
    BY <1>3 DEF ReceiverInv
  <2>1. Peer(t) \in Side /\ expected[t] \in Int /\ DOMAIN ooo[t] \subseteq Int
    BY PeerFacts, SeqModAssumption DEF IInv, TypeOK, Seqs
  <2>2. QED BY <1>8, <2>1 DEF IInv, ReceiverInv
<1>10. InOrder'
  BY <1>3 DEF IInv, InOrder
<1>11. NetInv'
  <2> SUFFICES ASSUME NEW f \in net'
               PROVE  /\ Reliable(f) => /\ f.seq = f.msg
                                        /\ f.msg < sent'[Peer(f.to)]
                      /\ f.type = "ACK" =>
                             /\ f.at <= Len(delivered[Peer(f.to)])
                             /\ f.ack = IF f.at > 0 THEN f.at - 1 ELSE 0
    BY <1>3 DEF NetInv, Reliable
  <2>1. CASE f \in net
    <3>1. f \in Frame /\ Peer(f.to) \in Side
      BY <2>1, PeerFacts DEF IInv, TypeOK, Frame
    <3>2. Reliable(f) => f.msg \in Nat
      BY <3>1 DEF Frame, Reliable
    <3>3. QED BY <1>8, <2>1, <3>1, <3>2 DEF IInv, NetInv
  <2>2. CASE f = f0
    <3>1. sent'[Peer(f0.to)] = sent[s] + 1
      BY <1>3, PeerFacts DEF DataFrame, IInv, TypeOK
    <3>2. QED BY <1>1, <2>2, <3>1 DEF DataFrame
  <2>3. QED BY <1>4, <2>1, <2>2
<1>12. AckInv'
  <2>1. \A t \in Side : First(t)' = First(t)
    BY <1>1, <1>3 DEF IInv, TypeOK, First
  <2>2. QED BY <1>3, <2>1 DEF IInv, AckInv
<1>13. QED BY <1>6, <1>7, <1>9, <1>10, <1>11, <1>12 DEF IInv

\* A frame that satisfies NetInv.
Harmless(f) ==
    /\ f \in Frame
    /\ Reliable(f) => f.seq = f.msg /\ f.msg < sent[Peer(f.to)]
    /\ f.type = "ACK" => /\ f.at <= Len(delivered[Peer(f.to)])
                         /\ f.ack = IF f.at > 0 THEN f.at - 1 ELSE 0

\* A step that changes nothing but the network and the unreliable messages,
\* and adds only harmless frames.
LEMMA NetStep ==
    ASSUME IInv,
           UNCHANGED <<sent, next_seq, pending, expected, ooo, delivered>>,
           usent' \in [Side -> Nat], udelivered' \in [Side -> SUBSET Nat],
           \A f \in net' : f \in net \/ Harmless(f)
    PROVE  IInv'
<1>1. TypeOK'
  BY DEF IInv, TypeOK, Harmless
<1>2. SenderInv' /\ ReceiverInv' /\ InOrder' /\ AckInv'
  BY DEF IInv, SenderInv, ReceiverInv, InOrder, AckInv, First
<1>3. NetInv'
  <2> SUFFICES ASSUME NEW f \in net'
               PROVE  /\ Reliable(f) => /\ f.seq = f.msg
                                        /\ f.msg < sent[Peer(f.to)]
                      /\ f.type = "ACK" =>
                             /\ f.at <= Len(delivered[Peer(f.to)])
                             /\ f.ack = IF f.at > 0 THEN f.at - 1 ELSE 0
    BY DEF NetInv, Reliable
  <2>1. CASE f \in net
    BY <2>1 DEF IInv, NetInv
  <2>2. CASE Harmless(f)
    BY <2>2 DEF Harmless
  <2>3. QED BY <2>1, <2>2
<1>4. QED BY <1>1, <1>2, <1>3 DEF IInv

\* An unreliable send() touches nothing the invariant is about.
LEMMA SendUnreliableIInv ==
    ASSUME IInv, NEW s \in Side, SendUnreliable(s)
    PROVE  IInv'
<1> DEFINE f0 == DataFrame(Peer(s), {}, 0, usent[s])
<1>1. Harmless(f0)
  BY PeerFacts, SeqModAssumption
     DEF DataFrame, Frame, IInv, TypeOK, Seqs, Reliable, Harmless
<1>2. /\ UNCHANGED <<sent, next_seq, pending, expected, ooo, delivered>>
      /\ usent' \in [Side -> Nat] /\ udelivered' \in [Side -> SUBSET Nat]
      /\ net' = net \cup {f0}
  BY DEF SendUnreliable, senderVars, receiverVars, IInv, TypeOK
<1>3. QED BY <1>1, <1>2, NetStep

\* tick() only repeats frames that are still pending.
LEMMA TickIInv ==
    ASSUME IInv, NEW s \in Side, tick(s)
    PROVE  IInv'
<1>1. PICK due \in SUBSET DOMAIN pending[s], ping \in BOOLEAN :
          net' = net \cup Resent(s, due, ping)
  BY DEF tick
<1> DEFINE new == Resent(s, due, ping)
<1>2. ASSUME NEW f \in new
      PROVE  Harmless(f)
  <2>1. CASE f = PingFrame(Peer(s))
    BY <2>1, PeerFacts DEF PingFrame, Frame, Reliable, Harmless
  <2>2. CASE \E i \in due : f = DataFrame(Peer(s), {"TF_RELIABLE"},
                                 pending[s][i].seq, pending[s][i].msg)
    <3>1. PICK i \in due : f = DataFrame(Peer(s), {"TF_RELIABLE"},
                                 pending[s][i].seq, pending[s][i].msg)
      BY <2>2
    <3>2. /\ pending[s] \in Seq(Slot)
          /\ i \in 1 .. Len(pending[s])
          /\ pending[s][i] \in Slot
      BY DEF IInv, TypeOK
    <3>3. /\ pending[s][i].seq = First(s) + i - 1
          /\ pending[s][i].msg = First(s) + i - 1
      BY <3>2 DEF IInv, SenderInv
    <3>4. First(s) + i - 1 < sent[s]
      BY <3>2 DEF First, IInv, TypeOK
    <3>5. QED
      BY <3>1, <3>2, <3>3, <3>4, PeerFacts
         DEF DataFrame, Frame, Slot, Reliable, Harmless
  <2>3. QED BY <2>1, <2>2 DEF Resent
<1>3. /\ UNCHANGED <<sent, next_seq, pending, expected, ooo, delivered>>
      /\ usent' \in [Side -> Nat] /\ udelivered' \in [Side -> SUBSET Nat]
  BY DEF tick, senderVars, receiverVars, unrelVars, IInv, TypeOK
<1>4. QED BY <1>1, <1>2, <1>3, NetStep

\* The acknowledgement of a receiver whose state does not change.
LEMMA AckHarmless ==
    ASSUME IInv, NEW s \in Side
    PROVE  Harmless(AckFrame(Peer(s), expected[s], Len(delivered[s])))
<1> DEFINE f == AckFrame(Peer(s), expected[s], Len(delivered[s]))
<1>1. /\ expected[s] \in Seqs /\ delivered[s] \in Seq(Nat)
      /\ expected[s] = Len(delivered[s])
  BY DEF IInv, TypeOK, ReceiverInv
<1>2. Len(delivered[s]) \in Nat
  BY <1>1
<1>3. f.ack \in Seqs /\ f.ack = IF f.at > 0 THEN f.at - 1 ELSE 0
  BY <1>1, <1>2, SeqModAssumption DEF AckFrame, Seqs
<1>4. /\ f = [type |-> "ACK", to |-> Peer(s), ack |-> f.ack, at |-> f.at]
      /\ f.at = Len(delivered[s]) /\ f.type = "ACK" /\ f.to = Peer(s)
  BY DEF AckFrame
<1>5. f \in Frame
  BY <1>2, <1>3, <1>4, PeerFacts DEF Frame
<1>6. QED
  BY <1>2, <1>3, <1>4, <1>5, PeerFacts DEF Harmless, Reliable

\* A frame handle_data drops changes nothing but for its acknowledgement.
LEMMA HandleDroppedIInv ==
    ASSUME IInv, NEW f \in net, NEW rest \in {net, net \ {f}},
           handle_dropped(f, rest), UNCHANGED <<senderVars, unrelVars>>
    PROVE  IInv'
<1>1. f.to \in Side
  BY DEF IInv, TypeOK, Frame
<1>2. /\ UNCHANGED <<sent, next_seq, pending, expected, ooo, delivered>>
      /\ usent' \in [Side -> Nat] /\ udelivered' \in [Side -> SUBSET Nat]
  BY DEF handle_dropped, senderVars, receiverVars, unrelVars, IInv, TypeOK
<1>3. net' \subseteq net \cup
          {AckFrame(Peer(f.to), expected[f.to], Len(delivered[f.to]))}
  BY DEF handle_dropped
<1>4. QED BY <1>1, <1>2, <1>3, AckHarmless, NetStep

\* An unreliable frame goes straight to on_data.
LEMMA HandleUnreliableIInv ==
    ASSUME IInv, NEW f \in net, NEW rest \in {net, net \ {f}},
           handle_unreliable(f, rest)
    PROVE  IInv'
<1>1. f.to \in Side /\ f.msg \in Nat
  BY DEF IInv, TypeOK, Frame, handle_unreliable
<1>2. /\ UNCHANGED <<sent, next_seq, pending, expected, ooo, delivered>>
      /\ usent' \in [Side -> Nat] /\ udelivered' \in [Side -> SUBSET Nat]
      /\ net' \subseteq net
  BY <1>1 DEF handle_unreliable, senderVars, receiverVars, IInv, TypeOK
<1>3. QED BY <1>2, NetStep

\* TT_PING, TT_PONG and the loss of a frame change the network only.
LEMMA PingPongIInv ==
    ASSUME IInv, NEW f \in net, NEW rest \in {net, net \ {f}},
           reply_pong(f, rest) \/ handle_pong(f, rest) \/ Lose(f)
    PROVE  IInv'
<1>1. f.to \in Side
  BY DEF IInv, TypeOK, Frame
<1>2. Harmless(PongFrame(Peer(f.to)))
  BY <1>1, PeerFacts DEF PongFrame, Frame, Reliable, Harmless
<1>3. /\ UNCHANGED <<sent, next_seq, pending, expected, ooo, delivered>>
      /\ usent' \in [Side -> Nat] /\ udelivered' \in [Side -> SUBSET Nat]
      /\ net' \subseteq net \cup {PongFrame(Peer(f.to))}
  BY DEF reply_pong, handle_pong, Lose, senderVars, receiverVars, unrelVars,
         IInv, TypeOK
<1>4. QED BY <1>2, <1>3, NetStep

\* handle_ack removes a prefix of pending_, and only frames delivered or the
\* first one.
LEMMA HandleAckIInv ==
    ASSUME NoWrap, IInv, NEW f \in net, NEW rest \in {net, net \ {f}},
           handle_ack(f, rest)
    PROVE  IInv'
<1> DEFINE s == f.to
           p == pending[s]
<1>1. /\ s \in Side /\ Peer(s) \in Side /\ f.ack \in Nat /\ f.at \in Nat
      /\ f.at <= Len(delivered[Peer(s)])
      /\ f.ack = IF f.at > 0 THEN f.at - 1 ELSE 0
  <2>1. f \in Frame /\ f.type = "ACK"
    BY DEF handle_ack, IInv, TypeOK
  <2>2. f.to \in Side /\ f.ack \in Seqs /\ f.at \in Nat
    BY <2>1 DEF Frame
  <2>3. QED BY <2>1, <2>2, PeerFacts, SeqModAssumption DEF IInv, NetInv, Seqs
<1>2. /\ p \in Seq(Slot) /\ Len(p) \in Nat /\ sent[s] \in Nat
      /\ sent[s] <= MaxMsgs /\ Len(p) <= sent[s] /\ Len(p) <= Window
      /\ Len(delivered[Peer(s)]) \in Nat
      /\ Len(delivered[Peer(s)]) <= sent[s]
      /\ First(s) = sent[s] - Len(p)
  BY <1>1, PeerFacts DEF IInv, TypeOK, SenderInv, ReceiverInv, First
<1>3. PICK k \in 0 .. Len(p) :
          /\ \A i \in 1 .. k : Covered(p[i].seq, f.ack)
          /\ pending' = [pending EXCEPT ![s] = SubSeq(p, k + 1, Len(p))]
  BY DEF handle_ack
<1> DEFINE p1 == SubSeq(p, k + 1, Len(p))
<1>4. /\ UNCHANGED <<sent, next_seq, expected, ooo, delivered, usent, udelivered>>
      /\ net' \subseteq net
  BY DEF handle_ack, receiverVars, unrelVars
<1>5. /\ p1 \in Seq(Slot) /\ Len(p1) = Len(p) - k
      /\ \A i \in 1 .. Len(p1) : p1[i] = p[k + i]
  BY <1>2, <1>3, SuffixFacts
<1>6. /\ pending'[s] = p1
      /\ \A t \in Side : t # s => pending'[t] = pending[t]
      /\ First(s)' = First(s) + k
      /\ \A t \in Side : t # s => First(t)' = First(t)
  <2>1. /\ pending'[s] = p1
        /\ \A t \in Side : t # s => pending'[t] = pending[t]
    BY <1>1, <1>3 DEF IInv, TypeOK
  <2>2. First(s)' = sent[s] - (Len(p) - k)
    BY <1>4, <1>5, <2>1 DEF First
  <2>3. First(s)' = First(s) + k
    BY <1>2, <1>3, <2>2
  <2>4. QED BY <1>4, <2>1, <2>3 DEF First
<1>7. TypeOK'
  BY <1>1, <1>3, <1>4, <1>5 DEF IInv, TypeOK
<1>8. SenderInv'
  <2> SUFFICES ASSUME NEW t \in Side
               PROVE  /\ sent[t] <= MaxMsgs
                      /\ next_seq[t] = sent[t]
                      /\ Len(pending'[t]) <= Window
                      /\ Len(pending'[t]) <= sent[t]
                      /\ \A i \in 1 .. Len(pending'[t]) :
                             /\ pending'[t][i].seq = First(t)' + i - 1
                             /\ pending'[t][i].msg = First(t)' + i - 1
    BY <1>4 DEF SenderInv
  <2>1. CASE t = s
    <3>1. /\ sent[s] <= MaxMsgs /\ next_seq[s] = sent[s]
          /\ Len(p1) <= Window /\ Len(p1) <= sent[s]
      BY <1>1, <1>2, <1>3, <1>5, WindowAssumption, SMTT(30) DEF IInv, SenderInv
    <3>2. ASSUME NEW i \in 1 .. Len(p1)
          PROVE  /\ p1[i].seq = First(s) + k + i - 1
                 /\ p1[i].msg = First(s) + k + i - 1
      <4>1. k + i \in 1 .. Len(p) /\ p1[i] = p[k + i]
        BY <1>2, <1>3, <1>5
      <4>2. /\ p[k + i].seq = First(s) + (k + i) - 1
            /\ p[k + i].msg = First(s) + (k + i) - 1
        BY <1>1, <4>1 DEF IInv, SenderInv
      <4>3. First(s) + (k + i) - 1 = First(s) + k + i - 1
        BY <1>2, <1>3, <1>5, SMTT(30)
      <4>4. QED BY <4>1, <4>2, <4>3
    <3>3. QED BY <1>6, <2>1, <3>1, <3>2
  <2>2. CASE t # s
    BY <1>6, <2>2 DEF IInv, SenderInv
  <2>3. QED BY <2>1, <2>2
<1>9. ReceiverInv' /\ InOrder'
  BY <1>4 DEF IInv, ReceiverInv, InOrder
<1>10. NetInv'
  BY <1>4 DEF IInv, NetInv, Reliable
<1>11. AckInv'
  <2>1. First(s) + k <= 1 \/ First(s) + k <= Len(delivered[Peer(s)])
    <3>1. CASE k = 0
      BY <1>1, <1>2, <3>1 DEF IInv, AckInv
    <3>2. CASE k > 0
      <4>1. k \in 1 .. Len(p) /\ p[k].seq = First(s) + k - 1
        BY <1>1, <1>3, <3>2 DEF IInv, SenderInv
      <4>2. /\ First(s) + k - 1 \in Nat /\ First(s) + k - 1 < MaxMsgs
            /\ f.ack < MaxMsgs
        BY <1>1, <1>2, <4>1, BoundAssumption, SMTT(30)
      <4>3. First(s) + k - 1 <= f.ack
        BY <1>1, <1>3, <4>1, <4>2, CoveredIff
      <4>4. First(s) \in Int
        BY <1>2
      <4>5. CASE f.at > 0
        BY <1>1, <1>2, <1>3, <4>3, <4>4, <4>5
      <4>6. CASE ~ (f.at > 0)
        BY <1>1, <1>2, <1>3, <4>3, <4>4, <4>6
      <4>7. QED BY <4>5, <4>6
    <3>3. QED BY <1>3, <3>1, <3>2
  <2>2. QED BY <1>4, <1>6, <2>1 DEF IInv, AckInv
<1>12. QED BY <1>7, <1>8, <1>9, <1>10, <1>11 DEF IInv

\* A frame ahead of expected_seq_ enters ooo_ inside the window.
LEMMA HandleAheadIInv ==
    ASSUME IInv, NEW f \in net, NEW rest \in {net, net \ {f}},
           Reliable(f), handle_ahead(f, rest), UNCHANGED <<senderVars, unrelVars>>
    PROVE  IInv'
<1> DEFINE s == f.to
           o1 == [q \in DOMAIN ooo[s] \cup {f.seq} |->
                     IF q = f.seq THEN f.msg ELSE ooo[s][q]]
           a == AckFrame(Peer(s), expected[s], Len(delivered[s]))
<1>1. /\ s \in Side /\ Peer(s) \in Side /\ f.seq \in Seqs /\ f.msg \in Nat
      /\ f.seq = f.msg /\ f.msg < sent[Peer(s)] /\ expected[s] < f.seq
  BY PeerFacts DEF handle_ahead, IInv, TypeOK, NetInv, Frame, Reliable, Seqs
<1>2. /\ UNCHANGED <<sent, next_seq, pending, expected, delivered>>
      /\ UNCHANGED <<usent, udelivered>>
      /\ ooo' = [ooo EXCEPT ![s] = o1]
      /\ net' \subseteq net \cup {a}
  BY DEF handle_ahead, senderVars, unrelVars
<1>3. Harmless(a)
  BY <1>1, AckHarmless
<1>4. /\ ooo'[s] = o1
      /\ \A t \in Side : t # s => ooo'[t] = ooo[t]
      /\ DOMAIN ooo' = Side
  BY <1>1, <1>2 DEF IInv, TypeOK
<1>5. /\ DOMAIN o1 = DOMAIN ooo[s] \cup {f.seq}
      /\ \A q \in DOMAIN o1 : /\ q \in Seqs
                              /\ o1[q] = q
                              /\ o1[q] \in Nat
                              /\ expected[s] < q
                              /\ q < sent[Peer(s)]
  <2>1. DOMAIN o1 = DOMAIN ooo[s] \cup {f.seq}
    OBVIOUS
  <2>2. ASSUME NEW q \in DOMAIN ooo[s]
        PROVE  /\ q \in Seqs /\ ooo[s][q] \in Nat /\ ooo[s][q] = q
               /\ expected[s] < q /\ q < sent[Peer(s)]
    BY <1>1 DEF IInv, TypeOK, ReceiverInv
  <2>3. QED BY <1>1, <2>1, <2>2
<1>6. TypeOK'
  <2>1. net' \subseteq Frame
    BY <1>2, <1>3 DEF IInv, TypeOK, Harmless
  <2>2. \A t \in Side : /\ DOMAIN ooo'[t] \subseteq Seqs
                        /\ \A q \in DOMAIN ooo'[t] : ooo'[t][q] \in Nat
    BY <1>4, <1>5 DEF IInv, TypeOK
  <2>3. QED BY <1>2, <1>4, <2>1, <2>2 DEF IInv, TypeOK
<1>7. SenderInv' /\ InOrder' /\ AckInv'
  BY <1>2 DEF IInv, SenderInv, InOrder, AckInv, First
<1>8. ReceiverInv'
  <2> SUFFICES ASSUME NEW t \in Side
               PROVE  /\ expected[t] = Len(delivered[t])
                      /\ expected[t] <= sent[Peer(t)]
                      /\ \A q \in DOMAIN ooo'[t] : /\ expected[t] < q
                                                   /\ q < sent[Peer(t)]
                                                   /\ ooo'[t][q] = q
    BY <1>2 DEF ReceiverInv
  <2>1. CASE t = s
    BY <1>4, <1>5, <2>1 DEF IInv, ReceiverInv
  <2>2. CASE t # s
    BY <1>4, <2>2 DEF IInv, ReceiverInv
  <2>3. QED BY <2>1, <2>2
<1>9. NetInv'
  BY <1>2, <1>3 DEF IInv, NetInv, Reliable, Harmless
<1>10. QED BY <1>6, <1>7, <1>8, <1>9 DEF IInv

\* The frame expected is delivered with the run buffered behind it, which is
\* the next messages in order; the count moves by at least one.
LEMMA HandleInOrderIInv ==
    ASSUME NoWrap, IInv, NEW f \in net, NEW rest \in {net, net \ {f}},
           Reliable(f), handle_in_order(f, rest),
           UNCHANGED <<senderVars, unrelVars>>
    PROVE  /\ IInv'
           /\ Len(delivered[f.to]) < Len(delivered'[f.to])
           /\ \A t \in Side : t # f.to => delivered'[t] = delivered[t]
<1> DEFINE s == f.to
           d == delivered[s]
           e == expected[s] + 1
<1>1. /\ s \in Side /\ Peer(s) \in Side /\ f.seq \in Nat /\ f.msg \in Nat
      /\ f.seq = f.msg /\ f.msg < sent[Peer(s)] /\ f.seq = expected[s]
  <2>1. f \in Frame /\ f.type = "DATA" /\ f.seq = expected[f.to]
    BY DEF handle_in_order, IInv, TypeOK, Reliable
  <2>2. f.to \in Side /\ f.seq \in Seqs /\ f.msg \in Nat
    BY <2>1 DEF Frame
  <2>3. QED BY <2>1, <2>2, PeerFacts, SeqModAssumption DEF IInv, NetInv, Seqs
<1>2. /\ d \in Seq(Nat) /\ Len(d) \in Nat /\ expected[s] = Len(d) /\ e = Len(d) + 1
      /\ e \in Nat
      /\ sent[Peer(s)] \in Nat /\ sent[Peer(s)] <= MaxMsgs
      /\ MaxMsgs < SeqMod
  <2>1. MaxMsgs < SeqMod
    BY BoundAssumption, SeqModAssumption DEF NoWrap
  <2>2. d \in Seq(Nat) /\ sent[Peer(s)] \in Nat
    BY <1>1 DEF IInv, TypeOK
  <2>3. sent[Peer(s)] <= MaxMsgs
    BY <1>1 DEF IInv, SenderInv
  <2>4. expected[s] = Len(d)
    BY <1>1 DEF IInv, ReceiverInv
  <2>5. Len(d) \in Nat
    BY <2>2
  <2>6. QED BY <2>1, <2>2, <2>3, <2>4, <2>5
<1>3. PICK n \in e .. SeqMod :
          /\ e .. (n - 1) \subseteq DOMAIN ooo[s]
          /\ n \notin DOMAIN ooo[s]
          /\ delivered' = [delivered EXCEPT ![s] =
                 (d \o <<f.msg>>) \o [i \in 1 .. (n - e) |-> ooo[s][e + i - 1]]]
          /\ expected' = [expected EXCEPT ![s] = n % SeqMod]
          /\ ooo' = [ooo EXCEPT ![s] =
                 [q \in DOMAIN ooo[s] \ (e .. (n - 1)) |-> ooo[s][q]]]
          /\ net' = rest \cup {AckFrame(Peer(s), n % SeqMod, Len(d) + 1 + n - e)}
  BY DEF handle_in_order
<1> DEFINE run == [i \in 1 .. (n - e) |-> ooo[s][e + i - 1]]
           d0 == d \o <<f.msg>>
           d1 == d0 \o run
           o1 == [q \in DOMAIN ooo[s] \ (e .. (n - 1)) |-> ooo[s][q]]
           a == AckFrame(Peer(s), n, n)
<1> HIDE DEF e
<1>4. \A q \in DOMAIN ooo[s] : /\ q \in Nat /\ ooo[s][q] = q /\ q \in Seqs
                               /\ expected[s] < q /\ q < sent[Peer(s)]
  BY <1>1, SeqModAssumption DEF IInv, TypeOK, ReceiverInv, Seqs
<1>5. /\ n \in Nat /\ e <= n /\ n <= sent[Peer(s)] /\ n < SeqMod /\ n \in Seqs
      /\ n % SeqMod = n
  <2>1. n \in Nat /\ e <= n
    BY <1>2, <1>3, SeqModAssumption
  <2>2. n <= sent[Peer(s)]
    <3>1. CASE n = e
      BY <1>1, <1>2, <3>1
    <3>2. CASE n # e
      <4>1. n - 1 \in e .. (n - 1)
        BY <1>2, <2>1, <3>2
      <4>2. n - 1 \in DOMAIN ooo[s]
        BY <1>3, <4>1
      <4>3. QED BY <1>2, <1>4, <2>1, <4>2
    <3>3. QED BY <3>1, <3>2
  <2>3. n < SeqMod
    BY <1>2, <2>1, <2>2, BoundAssumption, SeqModAssumption
  <2>4. QED BY <2>1, <2>2, <2>3, ModSmall, SeqModAssumption DEF Seqs
<1>a. e \in Nat /\ n \in Nat /\ n - e \in Nat
  BY <1>2, <1>5
<1>b. Len(d) = e - 1
  BY <1>2
<1>6. /\ d1 \in Seq(Nat) /\ Len(d1) = n
      /\ \A i \in 1 .. n : d1[i] = i - 1
  <2>1. ASSUME NEW i \in 1 .. (n - e)
        PROVE  e + i - 1 \in Nat /\ ooo[s][e + i - 1] = e + i - 1
    <3>1. e + i - 1 \in e .. (n - 1)
      BY <1>2, <1>5
    <3>2. QED BY <1>3, <1>4, <3>1
  <2>3. /\ run \in Seq(Nat) /\ Len(run) = n - e
        /\ \A i \in 1 .. (n - e) : run[i] = e + i - 1
    <3> HIDE DEF s
    <3>1. QED BY <1>a, <2>1, RunFacts
  <2>4. /\ d0 \in Seq(Nat) /\ Len(d0) = e
        /\ \A i \in 1 .. Len(d) : d0[i] = d[i]
        /\ d0[e] = f.msg
    BY <1>1, <1>2
  <2> HIDE DEF run, d0
  <2>5. d1 \in Seq(Nat) /\ Len(d1) = n
    <3>1. e + (n - e) = n
      BY <1>a
    <3>2. QED BY <2>3, <2>4, <3>1, ConcatFacts
  <2>6. ASSUME NEW i \in 1 .. n
        PROVE  d1[i] = i - 1
    <3>1. CASE i \in 1 .. Len(d)
      <4>1. d1[i] = d[i]
        BY <1>2, <2>3, <2>4, <3>1, ConcatFacts
      <4>2. d[i] = i - 1
        BY <1>1, <1>2, <3>1 DEF IInv, InOrder
      <4>3. QED BY <4>1, <4>2
    <3>2. CASE i = e
      BY <1>1, <1>2, <2>3, <2>4, <3>2, ConcatFacts
    <3>3. CASE i \in (e + 1) .. n
      <4>1. i - e \in 1 .. (n - e)
        BY <1>2, <1>5, <3>3
      <4>2. d1[i] = run[i - e]
        <5>1. d1[e + (i - e)] = run[i - e]
          <6>1. i - e \in 1 .. Len(run) /\ d0 \in Seq(Nat) /\ run \in Seq(Nat)
            BY <2>3, <2>4, <4>1
          <6>2. d1[Len(d0) + (i - e)] = run[i - e]
            BY <6>1, ConcatFacts
          <6>3. QED BY <2>4, <6>2
        <5>2. e + (i - e) = i
          BY <1>a, <3>3
        <5>3. QED BY <5>1, <5>2
      <4>3. run[i - e] = e + (i - e) - 1
        BY <2>3, <4>1
      <4>4. QED BY <1>a, <3>3, <4>2, <4>3
    <3>4. i \in 1 .. (e - 1) \/ i = e \/ i \in (e + 1) .. n
      BY <1>a
    <3>5. QED BY <1>b, <3>1, <3>2, <3>3, <3>4
  <2>7. QED BY <2>5, <2>6
<1>7. /\ delivered'[s] = d1 /\ expected'[s] = n /\ ooo'[s] = o1
      /\ \A t \in Side : t # s => /\ delivered'[t] = delivered[t]
                                  /\ expected'[t] = expected[t]
                                  /\ ooo'[t] = ooo[t]
      /\ DOMAIN ooo' = Side
  BY <1>1, <1>3, <1>5 DEF IInv, TypeOK
<1>8. /\ UNCHANGED <<sent, next_seq, pending, usent, udelivered>>
      /\ net' \subseteq net \cup {a}
  <2>1. Len(d) + 1 + n - e = n
    BY <1>2, <1>5
  <2>2. QED BY <1>3, <1>5, <2>1 DEF senderVars, unrelVars
<1>9. /\ DOMAIN o1 \subseteq DOMAIN ooo[s]
      /\ \A q \in DOMAIN o1 : o1[q] = ooo[s][q] /\ n < q
  BY <1>2, <1>3, <1>4, <1>5
<1>10. /\ a \in Frame /\ a.type = "ACK" /\ a.to = Peer(s) /\ a.at = n
       /\ a.ack = IF a.at > 0 THEN a.at - 1 ELSE 0
  <2>1. (IF n > 0 THEN n - 1 ELSE 0) \in Seqs
    BY <1>5, SeqModAssumption DEF Seqs
  <2>2. QED BY <1>1, <1>5, <2>1 DEF AckFrame, Frame
<1> HIDE DEF d1, o1, a
<1>11. TypeOK'
  <2>1. net' \subseteq Frame
    BY <1>8, <1>10 DEF IInv, TypeOK
  <2>2. \A t \in Side : /\ DOMAIN ooo'[t] \subseteq Seqs
                        /\ \A q \in DOMAIN ooo'[t] : ooo'[t][q] \in Nat
    BY <1>4, <1>7, <1>9 DEF IInv, TypeOK
  <2>3. delivered' \in [Side -> Seq(Nat)] /\ expected' \in [Side -> Seqs]
    <3>1. /\ delivered' = [delivered EXCEPT ![s] = d1]
          /\ expected' = [expected EXCEPT ![s] = n]
      BY <1>3, <1>5 DEF d1
    <3>2. QED BY <1>5, <1>6, <3>1 DEF IInv, TypeOK
  <2>4. QED BY <1>7, <1>8, <2>1, <2>2, <2>3 DEF IInv, TypeOK
<1>12. SenderInv'
  BY <1>8 DEF IInv, SenderInv, First
<1>13. ReceiverInv'
  <2> SUFFICES ASSUME NEW t \in Side
               PROVE  /\ expected'[t] = Len(delivered'[t])
                      /\ expected'[t] <= sent[Peer(t)]
                      /\ \A q \in DOMAIN ooo'[t] : /\ expected'[t] < q
                                                   /\ q < sent[Peer(t)]
                                                   /\ ooo'[t][q] = q
    BY <1>8 DEF ReceiverInv
  <2>1. CASE t = s
    BY <1>4, <1>5, <1>6, <1>7, <1>9, <2>1
  <2>2. CASE t # s
    BY <1>7, <2>2 DEF IInv, ReceiverInv
  <2>3. QED BY <2>1, <2>2
<1>14. InOrder'
  <2> SUFFICES ASSUME NEW t \in Side, NEW i \in DOMAIN delivered'[t]
               PROVE  delivered'[t][i] = i - 1
    BY DEF InOrder
  <2>1. CASE t = s
    BY <1>6, <1>7, <2>1
  <2>2. CASE t # s
    BY <1>7, <2>2 DEF IInv, InOrder
  <2>3. QED BY <2>1, <2>2
<1>15. \A t \in Side : /\ Len(delivered[t]) \in Nat /\ Len(delivered'[t]) \in Nat
                       /\ Len(delivered[t]) <= Len(delivered'[t])
  <2> SUFFICES ASSUME NEW t \in Side
               PROVE  /\ Len(delivered[t]) \in Nat /\ Len(delivered'[t]) \in Nat
                      /\ Len(delivered[t]) <= Len(delivered'[t])
    OBVIOUS
  <2>1. CASE t = s
    BY <1>2, <1>5, <1>6, <1>7, <2>1
  <2>2. CASE t # s
    BY <1>7, <2>2 DEF IInv, TypeOK
  <2>3. QED BY <2>1, <2>2
<1>16. NetInv'
  <2> SUFFICES ASSUME NEW g \in net'
               PROVE  /\ Reliable(g) => /\ g.seq = g.msg
                                        /\ g.msg < sent[Peer(g.to)]
                      /\ g.type = "ACK" =>
                             /\ g.at <= Len(delivered'[Peer(g.to)])
                             /\ g.ack = IF g.at > 0 THEN g.at - 1 ELSE 0
    BY <1>8 DEF NetInv, Reliable
  <2>1. CASE g \in net
    <3>1. Peer(g.to) \in Side /\ (g.type = "ACK" => g.at \in Nat)
      BY <2>1, PeerFacts DEF IInv, TypeOK, Frame
    <3>2. QED BY <1>15, <2>1, <3>1 DEF IInv, NetInv
  <2>2. CASE g = a
    BY <1>1, <1>5, <1>6, <1>7, <1>10, <2>2, PeerFacts DEF Reliable
  <2>3. QED BY <1>8, <2>1, <2>2
<1>17. AckInv'
  <2> SUFFICES ASSUME NEW t \in Side
               PROVE  First(t) <= 1 \/ First(t) <= Len(delivered'[Peer(t)])
    BY <1>8 DEF AckInv, First
  <2>1. First(t) \in Int /\ Peer(t) \in Side
    BY PeerFacts DEF First, IInv, TypeOK
  <2>2. QED BY <1>15, <2>1 DEF IInv, AckInv
<1>18. Len(d) < Len(delivered'[s])
  BY <1>2, <1>5, <1>6, <1>7
<1>19. QED BY <1>7, <1>11, <1>12, <1>13, <1>14, <1>16, <1>17, <1>18 DEF IInv

\* Every step, or stutter, keeps the invariant.
LEMMA NextIInv ==
    ASSUME NoWrap, IInv, [Next]_vars
    PROVE  IInv'
<1>1. CASE UNCHANGED vars
  BY <1>1, NetStep
     DEF vars, senderVars, receiverVars, unrelVars, IInv, TypeOK
<1>2. ASSUME NEW s \in Side, Send(s) PROVE IInv'
  BY <1>2, SendIInv
<1>3. ASSUME NEW s \in Side, SendUnreliable(s) PROVE IInv'
  BY <1>3, SendUnreliableIInv
<1>4. ASSUME NEW s \in Side, tick(s) PROVE IInv'
  BY <1>4, TickIInv
<1>5. ASSUME NEW f \in net, NEW rest \in {net, net \ {f}}, handle_data(f, rest)
      PROVE  IInv'
  <2>1. Reliable(f) /\ UNCHANGED <<senderVars, unrelVars>>
    BY <1>5 DEF handle_data
  <2>2. CASE handle_in_order(f, rest)
    BY <2>1, <2>2, HandleInOrderIInv
  <2>3. CASE handle_ahead(f, rest)
    BY <2>1, <2>3, HandleAheadIInv
  <2>4. CASE handle_dropped(f, rest)
    BY <2>1, <2>4, HandleDroppedIInv
  <2>5. QED BY <1>5, <2>2, <2>3, <2>4 DEF handle_data
<1>6. ASSUME NEW f \in net, Receive(f) PROVE IInv'
  BY <1>5, <1>6, HandleUnreliableIInv, HandleAckIInv, PingPongIInv
     DEF Receive, on_frame
<1>7. ASSUME NEW f \in net, Lose(f) PROVE IInv'
  BY <1>7, PingPongIInv
<1>8. QED BY <1>1, <1>2, <1>3, <1>4, <1>6, <1>7 DEF Next

\* The inductive invariant holds in every reachable state.
THEOREM SessionInvariant ==
    ASSUME NoWrap
    PROVE  Spec => []IInv
<1>1. Init => IInv
  BY InitIInv
<1>2. IInv /\ [Next]_vars => IInv'
  BY NextIInv
<1>3. QED BY <1>1, <1>2, PTL DEF Spec

-----------------------------------------------------------------------------
(* What follows from it *)

\* Type correctness of the two sessions and of every frame in flight.
THEOREM SessionTypeOK ==
    ASSUME NoWrap
    PROVE  Spec => []TypeOK
<1>1. IInv => TypeOK
  BY DEF IInv
<1>2. QED BY <1>1, SessionInvariant, PTL

\* handle_data hands messages to on_data in the order of send(), without a
\* gap or a repetition, on a network that loses, repeats and reorders.
THEOREM SessionInOrder ==
    ASSUME NoWrap
    PROVE  Spec => []InOrder
<1>1. IInv => InOrder
  BY DEF IInv
<1>2. QED BY <1>1, SessionInvariant, PTL

\* The distance between what was sent and what was delivered.
LEMMA WindowBound ==
    ASSUME IInv, NEW s \in Side
    PROVE  /\ sent[s] \in Nat /\ expected[Peer(s)] \in Nat
           /\ sent[s] <= expected[Peer(s)] + Window + 1
           /\ expected[Peer(s)] > 0 => sent[s] <= expected[Peer(s)] + Window
<1>1. /\ Peer(s) \in Side /\ sent[s] \in Nat /\ expected[Peer(s)] \in Nat
      /\ Len(pending[s]) \in Nat /\ Len(pending[s]) <= Window
      /\ expected[Peer(s)] = Len(delivered[Peer(s)])
  BY PeerFacts, SeqModAssumption
     DEF IInv, TypeOK, SenderInv, ReceiverInv, Seqs
<1>2. \/ sent[s] - Len(pending[s]) <= 1
      \/ sent[s] - Len(pending[s]) <= expected[Peer(s)]
  BY <1>1 DEF IInv, AckInv, First
<1>3. QED BY <1>1, <1>2, WindowAssumption

\* Buffered frames are ahead of expected_seq_ and inside the window.
THEOREM SessionOooAhead ==
    ASSUME NoWrap
    PROVE  Spec => []OooAhead
<1>1. ASSUME IInv PROVE OooAhead
  <2> SUFFICES ASSUME NEW s \in Side, NEW q \in DOMAIN ooo[s]
               PROVE  expected[s] < q /\ q <= expected[s] + Window
    BY DEF OooAhead
  <2>1. /\ q \in Nat /\ expected[s] < q /\ q < sent[Peer(s)]
        /\ Peer(s) \in Side /\ Peer(Peer(s)) = s
    BY <1>1, PeerFacts, SeqModAssumption DEF IInv, TypeOK, ReceiverInv, Seqs
  <2>2. /\ sent[Peer(s)] \in Nat /\ expected[s] \in Nat
        /\ sent[Peer(s)] <= expected[s] + Window + 1
    BY <1>1, <2>1, WindowBound
  <2>3. QED BY <2>1, <2>2, WindowAssumption
<1>2. QED BY <1>1, SessionInvariant, PTL

\* handle_ack forgets only delivered messages, the first one excepted.
THEOREM SessionAckedExceptFirst ==
    ASSUME NoWrap
    PROVE  Spec => []AckedExceptFirst
<1>1. ASSUME IInv PROVE AckedExceptFirst
  <2> SUFFICES ASSUME NEW s \in Side, NEW i \in Acked(s), i # 0
               PROVE  i < Len(delivered[Peer(s)])
    BY DEF AckedExceptFirst
  <2>1. /\ sent[s] \in Nat /\ pending[s] \in Seq(Slot)
        /\ Len(pending[s]) \in Nat /\ First(s) = sent[s] - Len(pending[s])
        /\ Len(delivered[Peer(s)]) \in Nat
    BY <1>1, PeerFacts DEF IInv, TypeOK, First
  <2>2. i \in Nat /\ i < sent[s] /\ i > 0
    BY <2>1 DEF Acked
  <2>3. i < First(s)
    <3> SUFFICES ASSUME i >= First(s) PROVE FALSE
      BY <2>1, <2>2
    <3> DEFINE k == i - First(s) + 1
    <3>1. k \in 1 .. Len(pending[s])
      BY <2>1, <2>2
    <3>2. pending[s][k].msg = First(s) + k - 1
      BY <1>1, <3>1 DEF IInv, SenderInv
    <3>3. pending[s][k].msg = i
      BY <2>1, <2>2, <3>2
    <3>4. QED BY <2>1, <3>1, <3>3 DEF Acked
  <2>4. QED BY <1>1, <2>1, <2>2, <2>3 DEF IInv, AckInv
<1>2. QED BY <1>1, SessionInvariant, PTL

\* With a buffer no smaller than the window, ooo_ always has room for a
\* frame the receiver lacks.
THEOREM SessionOooHasRoom ==
    ASSUME NoWrap, Window <= OooCap
    PROVE  Spec => []OooHasRoom
<1>1. ASSUME IInv PROVE OooHasRoom
  <2> SUFFICES ASSUME NEW f \in net, Reliable(f), f.seq > expected[f.to],
                      f.seq \notin DOMAIN ooo[f.to]
               PROVE  Cardinality(DOMAIN ooo[f.to]) < OooCap
    BY DEF OooHasRoom
  <2> DEFINE s == f.to
             K == DOMAIN ooo[s]
             R == (expected[s] + 1) .. (expected[s] + Window)
  <2>1. /\ s \in Side /\ Peer(s) \in Side /\ Peer(Peer(s)) = s
        /\ f.seq \in Nat /\ f.seq < sent[Peer(s)]
    <3>1. f \in Frame /\ f.type = "DATA"
      BY <1>1 DEF IInv, TypeOK, Reliable
    <3>2. f.to \in Side /\ f.seq \in Seqs
      BY <3>1 DEF Frame
    <3>3. QED BY <1>1, <3>1, <3>2, PeerFacts, SeqModAssumption
              DEF IInv, NetInv, Seqs
  <2>2. /\ sent[Peer(s)] \in Nat /\ expected[s] \in Nat
        /\ sent[Peer(s)] <= expected[s] + Window + 1
    BY <1>1, <2>1, WindowBound
  <2>3. \A q \in K : q \in Nat /\ expected[s] < q /\ q < sent[Peer(s)]
    BY <1>1, <2>1, SeqModAssumption DEF IInv, TypeOK, ReceiverInv, Seqs
  <2>4. K \cup {f.seq} \subseteq R
    BY <2>1, <2>2, <2>3, WindowAssumption
  <2>5. IsFiniteSet(R) /\ Cardinality(R) = Window
    <3> DEFINE a == expected[s] + 1
               b == expected[s] + Window
    <3>1. a \in Int /\ b \in Int /\ ~ (a > b) /\ b - a + 1 = Window
      BY <2>2, WindowAssumption
    <3> HIDE DEF a, b
    <3>2. IsFiniteSet(a .. b) /\ Cardinality(a .. b) = Window
      BY <3>1, FS_Interval
    <3>3. QED BY <3>2 DEF a, b
  <2>6. /\ IsFiniteSet(K \cup {f.seq})
        /\ Cardinality(K \cup {f.seq}) <= Window
    BY <2>4, <2>5, FS_Subset
  <2>7. IsFiniteSet(K)
    BY <2>4, <2>5, FS_Subset
  <2>8. Cardinality(K \cup {f.seq}) = Cardinality(K) + 1
    BY <2>7, FS_AddElement
  <2>9. Cardinality(K) \in Nat
    BY <2>7, FS_CardinalityType
  <2>10. QED BY <2>6, <2>8, <2>9, WindowAssumption
<1>2. QED BY <1>1, SessionInvariant, PTL

-----------------------------------------------------------------------------
(* Two sessions implement a pair of FIFO channels *)

\* send() is a Send of the FIFO channel.
LEMMA SendRefines ==
    ASSUME IInv, NEW s \in Side, Send(s)
    PROVE  Channel!Send(s)
<1>1. /\ Peer(s) = 1 - s /\ Peer(s) \in Side
      /\ expected[Peer(s)] = Len(delivered[Peer(s)])
      /\ sent[s] \in Nat /\ Len(pending[s]) \in Nat
      /\ Len(delivered[Peer(s)]) \in Nat
  BY PeerFacts DEF Peer, IInv, TypeOK, ReceiverInv
<1>2. \/ sent[s] - Len(pending[s]) <= 1
      \/ sent[s] - Len(pending[s]) <= Len(delivered[Peer(s)])
  BY <1>1 DEF IInv, AckInv, First
<1>3. /\ sent[s] < MaxMsgs /\ Len(pending[s]) < Window
      /\ sent' = [sent EXCEPT ![s] = sent[s] + 1] /\ UNCHANGED delivered
  BY DEF Send, receiverVars
<1>4. sent[s] - Len(delivered[Peer(s)]) < Window + 1
  BY <1>1, <1>2, <1>3, WindowAssumption
<1>5. QED BY <1>1, <1>3, <1>4 DEF Channel!Send

\* The in-order case of handle_data is a Deliver of the FIFO channel.
LEMMA DeliverRefines ==
    ASSUME NoWrap, IInv, NEW f \in net, NEW rest \in {net, net \ {f}},
           Reliable(f), handle_in_order(f, rest),
           UNCHANGED <<senderVars, unrelVars>>
    PROVE  \E n \in 1 .. MaxMsgs : Channel!Deliver(f.to, n)
<1> DEFINE s == f.to
           d == delivered[s]
           d1 == delivered'[s]
           n == Len(d1) - Len(d)
           more == [i \in 1 .. n |-> Len(d) + i - 1]
<1>1. /\ s \in Side /\ Peer(s) \in Side /\ Peer(s) = 1 - s
      /\ UNCHANGED sent
  BY PeerFacts DEF Peer, IInv, TypeOK, Frame, senderVars
<1>2. /\ IInv' /\ Len(d) < Len(d1)
      /\ \A t \in Side : t # s => delivered'[t] = delivered[t]
  BY HandleInOrderIInv
<1>3. /\ d \in Seq(Nat) /\ Len(d) \in Nat
      /\ \A i \in 1 .. Len(d) : d[i] = i - 1
  <2>1. d \in Seq(Nat)
    BY <1>1 DEF IInv, TypeOK
  <2>2. \A i \in DOMAIN d : d[i] = i - 1
    BY <1>1 DEF IInv, InOrder
  <2> HIDE DEF d
  <2>3. QED BY <2>1, <2>2
<1>4. /\ d1 \in Seq(Nat) /\ Len(d1) \in Nat
      /\ \A i \in 1 .. Len(d1) : d1[i] = i - 1
  <2>1. delivered' \in [Side -> Seq(Nat)] /\ InOrder'
    BY <1>2 DEF IInv, TypeOK
  <2>2. \A i \in DOMAIN d1 : d1[i] = i - 1
    BY <1>1, <2>1 DEF InOrder
  <2>3. QED BY <1>1, <2>1, <2>2
<1>5. /\ Len(d1) <= sent[1 - s] /\ sent[1 - s] <= MaxMsgs
      /\ sent[1 - s] \in Nat
  BY <1>1, <1>2 DEF IInv, TypeOK, SenderInv, ReceiverInv
<1>6. n \in 1 .. MaxMsgs /\ Len(d) + n = Len(d1)
  BY <1>2, <1>3, <1>4, <1>5, BoundAssumption
<1>7. d1 = d \o more
  <2> HIDE DEF d1, n
  <2>1. /\ n \in Nat /\ more \in Seq(Nat) /\ Len(more) = n
        /\ \A i \in 1 .. n : more[i] = Len(d) + i - 1
    BY <1>3, <1>6
  <2> HIDE DEF more, d
  <2>2. /\ d \o more \in Seq(Nat) /\ Len(d \o more) = Len(d1)
        /\ \A i \in 1 .. Len(d) : (d \o more)[i] = d[i]
        /\ \A i \in 1 .. n : (d \o more)[Len(d) + i] = more[i]
    BY <1>3, <1>6, <2>1, ConcatFacts
  <2>3. ASSUME NEW i \in 1 .. Len(d1)
        PROVE  (d \o more)[i] = i - 1
    <3>1. CASE i \in 1 .. Len(d)
      BY <1>3, <2>2, <3>1
    <3>2. CASE i \notin 1 .. Len(d)
      <4>1. i - Len(d) \in 1 .. n /\ Len(d) + (i - Len(d)) = i
        BY <1>3, <1>4, <1>6, <2>1, <3>2
      <4>2. (d \o more)[i] = more[i - Len(d)]
        BY <2>2, <4>1
      <4>3. more[i - Len(d)] = Len(d) + (i - Len(d)) - 1
        BY <2>1, <4>1
      <4>4. QED BY <4>1, <4>2, <4>3
    <3>3. QED BY <3>1, <3>2
  <2>4. QED BY <1>4, <2>2, <2>3, SeqEqual
<1>8. delivered' = [delivered EXCEPT ![s] = d1]
  <2>1. delivered \in [Side -> Seq(Nat)] /\ delivered' \in [Side -> Seq(Nat)]
    BY <1>2 DEF IInv, TypeOK
  <2>2. QED BY <1>1, <1>2, <2>1
<1>9. Channel!Deliver(s, n)
  <2>1. delivered' = [delivered EXCEPT ![s] = d \o more]
    BY <1>7, <1>8
  <2>2. QED BY <1>1, <1>5, <1>6, <2>1 DEF Channel!Deliver
<1>10. QED BY <1>6, <1>9

\* The pair of sessions implements the FIFO channels of FifoChannel, whose
\* capacity is the send window plus one.
THEOREM SessionImplementsFifo ==
    ASSUME NoWrap
    PROVE  Spec => ChannelSpec
<1>1. Init => Channel!Init
  BY DEF Init, Channel!Init, Side, Channel!Side
<1>2. IInv /\ [Next]_vars => [Channel!Next]_<<sent, delivered>>
  <2> SUFFICES ASSUME IInv, [Next]_vars, ~ UNCHANGED <<sent, delivered>>
               PROVE  Channel!Next
    OBVIOUS
  <2>1. Channel!Side = Side
    BY DEF Side, Channel!Side
  <2>2. ASSUME NEW s \in Side, Send(s) PROVE Channel!Next
    BY <2>1, <2>2, SendRefines DEF Channel!Next
  <2>3. ASSUME NEW f \in net, Receive(f) PROVE Channel!Next
    <3>1. PICK rest \in {net, net \ {f}} : on_frame(f, rest)
      BY <2>3 DEF Receive
    <3>2. handle_data(f, rest)
      BY <3>1 DEF on_frame, handle_unreliable, handle_ack, reply_pong,
                  handle_pong, senderVars, receiverVars
    <3>3. /\ handle_in_order(f, rest) /\ Reliable(f)
          /\ UNCHANGED <<senderVars, unrelVars>>
      BY <3>2 DEF handle_data, handle_ahead, handle_dropped, senderVars,
                  receiverVars
    <3>4. f.to \in Side
      BY DEF IInv, TypeOK, Frame
    <3>5. QED BY <2>1, <3>3, <3>4, DeliverRefines DEF Channel!Next
  <2>4. QED
    BY <2>2, <2>3 DEF Next, SendUnreliable, tick, Lose, vars, senderVars,
                      receiverVars
<1>3. QED
  BY <1>1, <1>2, SessionInvariant, PTL DEF Spec, ChannelSpec, Channel!Spec

-----------------------------------------------------------------------------
(* A lost first message is lost for good *)

\* The first message of s has left pending_ without having been delivered, and
\* no copy of it is in flight: the 0 that send_ack says for "nothing received
\* yet" has covered it.
FirstLost(s) ==
    /\ sent[s] > 0
    /\ delivered[Peer(s)] = <<>>
    /\ \A i \in DOMAIN pending[s] : pending[s][i].msg # 0
    /\ \A f \in net : Reliable(f) /\ f.to = Peer(s) => f.msg # 0

\* A step that sends s's peer no copy of the first message, delivers it nothing
\* and keeps the first message out of pending_ leaves it lost.
LEMMA StaysLost ==
    ASSUME NEW s \in Side, FirstLost(s), sent'[s] > 0,
           delivered'[Peer(s)] = delivered[Peer(s)],
           \A i \in DOMAIN pending'[s] : pending'[s][i].msg # 0,
           \A f \in net' : f \in net \/ (Reliable(f) /\ f.to = Peer(s) => f.msg # 0)
    PROVE  FirstLost(s)'
  BY DEF FirstLost, Reliable

\* send() numbers on: it never sends a first message twice.
LEMMA SendLost ==
    ASSUME IInv, NEW s \in Side, FirstLost(s), NEW t \in Side, Send(t)
    PROVE  FirstLost(s)'
<1> DEFINE m == [seq |-> next_seq[t], msg |-> sent[t]]
           f0 == DataFrame(Peer(t), {"TF_RELIABLE"}, next_seq[t], sent[t])
<1>1. /\ pending[t] \in Seq(Slot) /\ sent[t] \in Nat /\ sent[s] \in Nat
      /\ sent[s] > 0 /\ sent \in [Side -> Nat] /\ pending \in [Side -> Seq(Slot)]
      /\ \A i \in DOMAIN pending[s] : pending[s][i].msg # 0
  BY DEF IInv, TypeOK, FirstLost
<1>2. /\ pending' = [pending EXCEPT ![t] = Append(pending[t], m)]
      /\ sent' = [sent EXCEPT ![t] = sent[t] + 1]
      /\ delivered' = delivered /\ net' \subseteq net \cup {f0}
  BY DEF Send, receiverVars, InFlight
<1>3. CASE t # s
  <2>1. f0.to # Peer(s)
    BY <1>3, PeerFacts DEF DataFrame
  <2>2. pending'[s] = pending[s] /\ sent'[s] = sent[s]
    BY <1>1, <1>2, <1>3
  <2>3. QED BY <1>1, <1>2, <2>1, <2>2, StaysLost
<1>4. CASE t = s
  <2>1. f0.msg # 0 /\ m.msg # 0 /\ sent'[s] > 0
    BY <1>1, <1>2, <1>4 DEF DataFrame
  <2>2. pending'[s] = Append(pending[s], m)
    BY <1>1, <1>2, <1>4
  <2> HIDE DEF m, f0
  <2>3. ASSUME NEW i \in DOMAIN pending'[s] PROVE pending'[s][i].msg # 0
    <3>1. i \in 1 .. (Len(pending[s]) + 1) /\ Len(pending[s]) \in Nat
      BY <1>1, <1>4, <2>2
    <3>2. CASE i = Len(pending[s]) + 1
      BY <1>1, <1>4, <2>1, <2>2, <3>2
    <3>3. CASE i \in 1 .. Len(pending[s])
      BY <1>1, <1>4, <2>2, <3>3
    <3>4. QED BY <3>1, <3>2, <3>3
  <2>4. QED BY <1>2, <2>1, <2>3, StaysLost
<1>5. QED BY <1>3, <1>4

\* tick() repeats only what is in pending_.
LEMMA TickLost ==
    ASSUME NEW s \in Side, FirstLost(s), NEW t \in Side, tick(t)
    PROVE  FirstLost(s)'
<1>1. PICK due \in SUBSET DOMAIN pending[t], ping \in BOOLEAN :
          net' = net \cup Resent(t, due, ping)
  BY DEF tick
<1>2. UNCHANGED <<sent, pending, delivered>>
  BY DEF tick, senderVars, receiverVars
<1>3. ASSUME NEW f \in Resent(t, due, ping), Reliable(f), f.to = Peer(s)
      PROVE  f.msg # 0
  <2>1. PICK i \in due : f = DataFrame(Peer(t), {"TF_RELIABLE"},
                                 pending[t][i].seq, pending[t][i].msg)
    BY <1>3 DEF Resent, PingFrame, Reliable
  <2>2. t = s /\ i \in DOMAIN pending[s] /\ f.msg = pending[t][i].msg
    BY <1>3, <2>1, PeerFacts DEF DataFrame
  <2>3. QED BY <2>2 DEF FirstLost
<1>4. QED BY <1>1, <1>2, <1>3, StaysLost DEF FirstLost

\* No frame that arrives brings the first message back: the receiver still
\* expects number 0, which no frame to it carries, and acknowledgements only
\* shorten pending_.
LEMMA ReceiveLost ==
    ASSUME NoWrap, IInv, NEW s \in Side, FirstLost(s), NEW f \in net,
           NEW rest \in {net, net \ {f}}, on_frame(f, rest)
    PROVE  FirstLost(s)'
<1>1. f.to \in Side /\ Peer(s) \in Side
  BY PeerFacts DEF IInv, TypeOK, Frame
<1>2. CASE handle_data(f, rest)
  <2>1. PICK a : a.type = "ACK" /\ net' = rest \cup {a}
    BY <1>2 DEF handle_data, handle_in_order, handle_ahead, handle_dropped,
                AckFrame
  <2>2. delivered'[Peer(s)] = delivered[Peer(s)]
    <3>1. CASE handle_in_order(f, rest)
      <4>1. Reliable(f) /\ f.seq = expected[f.to]
        <5>1. Reliable(f)
          BY <1>2 DEF handle_data
        <5>2. f.seq = expected[f.to]
          BY <3>1, Zenon DEF handle_in_order
        <5>3. QED BY <5>1, <5>2
      <4>2. f.seq = f.msg /\ expected[f.to] = Len(delivered[f.to])
        BY <1>1, <4>1 DEF IInv, NetInv, ReceiverInv
      <4>3. f.to # Peer(s)
        <5> SUFFICES ASSUME f.to = Peer(s) PROVE FALSE
          OBVIOUS
        <5>1. delivered[f.to] = <<>> /\ f.msg # 0
          BY <4>1 DEF FirstLost
        <5>2. Len(delivered[f.to]) = 0
          BY <5>1
        <5>3. QED BY <4>1, <4>2, <5>1, <5>2
      <4>4. UNCHANGED <<senderVars, unrelVars>>
        BY <1>2 DEF handle_data
      <4>5. \A t \in Side : t # f.to => delivered'[t] = delivered[t]
        BY <3>1, <4>1, <4>4, HandleInOrderIInv
      <4>6. QED BY <1>1, <4>3, <4>5
    <3>2. QED BY <1>2, <3>1
              DEF handle_data, handle_ahead, handle_dropped, receiverVars
  <2>3. UNCHANGED <<sent, pending>>
    BY <1>2 DEF handle_data, senderVars
  <2>4. \A g \in net' : g \in net \/ ~ Reliable(g)
    BY <2>1 DEF Reliable
  <2>5. /\ sent'[s] > 0
        /\ \A i \in DOMAIN pending'[s] : pending'[s][i].msg # 0
    BY <2>3 DEF FirstLost
  <2>6. QED BY <2>2, <2>4, <2>5, StaysLost
<1>3. CASE handle_ack(f, rest)
  <2>1. PICK k \in 0 .. Len(pending[f.to]) :
            pending' = [pending EXCEPT ![f.to] =
                            SubSeq(pending[f.to], k + 1, Len(pending[f.to]))]
    BY <1>3 DEF handle_ack
  <2>2. UNCHANGED <<sent, delivered>> /\ net' \subseteq net
    BY <1>3 DEF handle_ack, receiverVars
  <2>3. pending \in [Side -> Seq(Slot)] /\ pending[f.to] \in Seq(Slot)
    BY <1>1 DEF IInv, TypeOK
  <2>4. CASE f.to = s
    <3> DEFINE q == pending[s]
    <3>1. q \in Seq(Slot) /\ k \in 0 .. Len(q) /\ Len(q) \in Nat
      BY <2>1, <2>3, <2>4
    <3>2. pending'[s] = SubSeq(q, k + 1, Len(q))
      BY <2>1, <2>3, <2>4
    <3> HIDE DEF q
    <3>3. /\ pending'[s] \in Seq(Slot) /\ Len(pending'[s]) = Len(q) - k
          /\ \A i \in 1 .. (Len(q) - k) : pending'[s][i] = q[k + i]
      BY <3>1, <3>2, SuffixFacts
    <3>4. ASSUME NEW i \in DOMAIN pending'[s] PROVE pending'[s][i].msg # 0
      <4>1. i \in 1 .. (Len(q) - k) /\ k + i \in DOMAIN q
        BY <3>1, <3>3
      <4>2. QED BY <3>3, <4>1 DEF FirstLost, q
    <3>5. QED BY <2>2, <3>4, StaysLost DEF FirstLost
  <2>5. CASE f.to # s
    BY <2>1, <2>2, <2>3, <2>5, StaysLost DEF FirstLost
  <2>6. QED BY <2>4, <2>5
<1>4. CASE handle_unreliable(f, rest) \/ reply_pong(f, rest) \/ handle_pong(f, rest)
  BY <1>4, StaysLost
     DEF FirstLost, handle_unreliable, reply_pong, handle_pong, senderVars,
         receiverVars, PongFrame, Reliable
<1>5. QED BY <1>2, <1>3, <1>4 DEF on_frame

\* Once the early acknowledgement has cost the first message its place in
\* pending_ and its last copy is gone, the peer never delivers anything again,
\* whatever is sent, resent and received: the session looks alive and is dead.
THEOREM SessionFirstLossIsFinal ==
    ASSUME NoWrap
    PROVE  Spec => [][\A s \in Side : FirstLost(s) => FirstLost(s)']_vars
<1>1. ASSUME IInv, Next, NEW s \in Side, FirstLost(s)
      PROVE  FirstLost(s)'
  <2>1. ASSUME NEW t \in Side, Send(t) PROVE FirstLost(s)'
    BY <1>1, <2>1, SendLost
  <2>2. ASSUME NEW t \in Side, tick(t) PROVE FirstLost(s)'
    BY <1>1, <2>2, TickLost
  <2>3. ASSUME NEW t \in Side, SendUnreliable(t) PROVE FirstLost(s)'
    BY <1>1, <2>3, StaysLost
       DEF FirstLost, SendUnreliable, DataFrame, Reliable, senderVars, receiverVars
  <2>4. ASSUME NEW f \in net, Receive(f) PROVE FirstLost(s)'
    BY <1>1, <2>4, ReceiveLost DEF Receive
  <2>5. ASSUME NEW f \in net, Lose(f) PROVE FirstLost(s)'
    BY <1>1, <2>5, StaysLost DEF FirstLost, Lose, senderVars, receiverVars
  <2>6. QED BY <1>1, <2>1, <2>2, <2>3, <2>4, <2>5 DEF Next
<1>2. IInv /\ [Next]_vars
          => [\A s \in Side : FirstLost(s) => FirstLost(s)']_vars
  BY <1>1
<1>3. QED BY <1>2, SessionInvariant, PTL DEF Spec
=============================================================================
