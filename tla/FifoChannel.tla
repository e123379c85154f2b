---------------------------- MODULE FifoChannel ----------------------------
(***************************************************************************)
(* What a pair of sessions promises to the two applications: in each       *)
(* direction a first-in-first-out channel that may hold back messages but  *)
(* never reorders, repeats, skips or invents one, and whose sender is      *)
(* stopped once Capacity messages are under way.                           *)
(***************************************************************************)
EXTENDS Integers, Sequences

CONSTANTS Capacity, MaxMsgs
VARIABLES sent, delivered

Side == {0, 1}

Init == /\ sent = [s \in Side |-> 0]
        /\ delivered = [s \in Side |-> <<>>]

\* Side s accepts its next message.
Send(s) ==
    /\ sent[s] < MaxMsgs
    /\ sent[s] - Len(delivered[1 - s]) < Capacity
    /\ sent' = [sent EXCEPT ![s] = @ + 1]
    /\ UNCHANGED delivered

\* The application of side s gets the next n messages of the other side.
Deliver(s, n) ==
    /\ Len(delivered[s]) + n <= sent[1 - s]
    /\ delivered' = [delivered EXCEPT ![s] =
           @ \o [i \in 1 .. n |-> Len(delivered[s]) + i - 1]]
    /\ UNCHANGED sent

Next == \E s \in Side : Send(s) \/ \E n \in 1 .. MaxMsgs : Deliver(s, n)

Spec == Init /\ [][Next]_<<sent, delivered>>
=============================================================================
