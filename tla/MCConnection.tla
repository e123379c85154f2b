--------------------------- MODULE MCConnection ---------------------------
(* Configurations for TLC. *)
EXTENDS Connection

\* Relays forced; offered by the server; full; not there.
Forced ==
    [auto_relay |-> TRUE, force_relay |-> TRUE, proxies |-> TRUE, offers |-> FALSE, room |-> TRUE]
Offered == [Forced EXCEPT !.force_relay = FALSE, !.proxies = FALSE, !.offers = TRUE]
Full == [Offered EXCEPT !.room = FALSE]
NoRelay == [Offered EXCEPT !.offers = FALSE]

Common == {Forced, Offered, Full, NoRelay}

\* Open NATs also behave like closed ones, as long as messages may stay
\* under way.
Open == {{"ice", "direct"}}

\* NATs that ICE gets through, and ones that nothing does.
IceOrNothing == {{}, {"ice"}}
=============================================================================
