--------------------------- MODULE MCRegistry ---------------------------
(* Topologies for TLC: servers numbered from 1, asking in turn. *)
EXTENDS Registry

Chain == [s \in Servers |-> {t \in Servers : t = s - 1 \/ t = s + 1}]

\* setup_sync_peers without SyncAddrs: every server lists all the others.
Mesh == [s \in Servers |-> Servers \ {s}]

InTurn == [s \in Servers |-> (s - 1) % SnapEvery]

\* A row is a tree, no longer than an entry is forwarded.
ASSUME ChainIsTree ==
    Links = Chain =>
        TreeDistance([v \in Servers |-> [s \in Servers |-> IF s < v THEN v - s ELSE s - v]])
=============================================================================
