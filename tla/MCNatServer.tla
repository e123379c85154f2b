---------------------------- MODULE MCNatServer ----------------------------
(* NatServer with model values for its proxies and two configurations.     *)
EXTENDS NatServer

CONSTANTS p1, p2

\* No relay in the clients' configuration; one in that of src.
Bare == [c \in Clients |-> None]
SrcHasOne == [Bare EXCEPT !["src"] = p1]

MCConfigs == {<<p1, p2>>, <<p2>>}
=============================================================================
