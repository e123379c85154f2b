------------------------------- MODULE Auth -------------------------------
(***************************************************************************)
(* The challenge-response login of one client (P2PClient.cpp) at the       *)
(* signalling server (RecvProcess.cpp, NatServer.cpp, PeerManage.cpp), and *)
(* the two gates it opens: heartbeat/registration and CONNECT.             *)
(*                                                                         *)
(* The client's handlers run with mu_ held; the server's run on several    *)
(* threads, but each touches the nonce and the session of a uuid in one    *)
(* critical section, so a handler is one step on either side.  UDP loses,  *)
(* repeats, delays and reorders the messages in net; the server may crash, *)
(* and everything modelled of it is in memory.  Another server may send    *)
(* the uuid's registration, which stands for a login here as well.         *)
(*                                                                         *)
(* Abstractions.  Nonces are numbered as they are issued.  A MAC is right  *)
(* when it covers the nonce sent with it and the two secrets agree.        *)
(* Lifetimes (nonce 30 s, session 3600 s) end by steps of their own, and   *)
(* left bounds how often each such event happens.  Equal heartbeats (or    *)
(* CONNECT requests) in flight at the same time count as one.  The clocks  *)
(* of the servers agree to within the hour that a synced entry vouches for *)
(* a client.                                                               *)
(***************************************************************************)
EXTENDS Integers, FiniteSets

CONSTANTS
    MaxTry,             \* bound: challenges the client asks for
    MaxAside,           \* bound: heartbeats, and CONNECTs, under way at a time
    MaxLoss,            \* bound: messages the network loses
    MaxDup,             \* bound: messages the network delivers twice
    MaxNonceExpiry,     \* bound: nonces that outlive their 30 s
    MaxSessionExpiry,   \* bound: sessions that outlive their 3600 s
    MaxRestart,         \* bound: crashes of the server
    MaxBan,             \* bound: changes of the black and white lists
    MaxSync,            \* bound: registrations that another server sends
    MaxOdd,             \* bound: answers of a kind this server never gives
    MaxEvents           \* bound: all these events together

ASSUME BoundAssumption ==
    /\ MaxTry \in Nat \ {0} /\ MaxAside \in Nat \ {0} /\ MaxLoss \in Nat /\ MaxDup \in Nat
    /\ MaxNonceExpiry \in Nat /\ MaxSessionExpiry \in Nat
    /\ MaxRestart \in Nat /\ MaxBan \in Nat
    /\ MaxSync \in Nat /\ MaxOdd \in Nat /\ MaxEvents \in Nat

AUTH_OK == 0
AUTH_BAD_NONCE == 1
AUTH_BAD_MAC == 2
AUTH_BLACKLIST == 3

AUTH_WHITELIST_REJ == 4

OtherResult == 3    \* of a challenge: neither 0 nor one of the two refusals
Short == 5          \* no result: the answer is shorter than its message

NoNonce == 0

VARIABLES
    \* configuration
    auth_enabled,  \* server: auth_enabled()
    secret_ok,     \* the client's secret is the server's
    \* client
    authed,        \* authed_
    inflight,      \* auth_inflight_
    denied,        \* auth_denied_
    tries,         \* history: challenges asked for
    \* server
    nonce,         \* auth_nonces_[uuid], or NoNonce
    session,       \* auth_sessions_[uuid] has not expired
    online,        \* peers_ holds the uuid
    vouched,       \* peers_[uuid].auth_expire has not passed
    list,          \* what the black and white lists say of the uuid
    issued,        \* history: nonces issued
    accepted,      \* history: nonces accepted by verify_auth_login
    logins,        \* history: how often verify_auth_login accepted one
    barred,        \* history: the lists refused the uuid at some time
    synced,        \* history: another server sent the uuid's registration
    \* network and environment
    net,
    left           \* events that may still happen

config == <<auth_enabled, secret_ok>>
client == <<authed, inflight, denied, tries>>
history == <<issued, accepted, logins, barred, synced>>
server == <<nonce, session, online, vouched, list, history>>
vars == <<config, client, server, net, left>>

Verdict == {"allowed", "blacklisted", "unlicensed"}

Msg(type, n, result) == [type |-> type, n |-> n, result |-> result]

Events == {"loss", "dup", "nonce", "session", "restart", "ban", "sync", "odd", "any"}

Handshake == {"CHALLENGE_REQ", "CHALLENGE_RSP", "LOGIN_REQ", "LOGIN_RSP"}
Types == Handshake \cup {"HEARTBEAT_REQ", "HEARTBEAT_RSP", "CONNECT_REQ", "CONNECT_ACK"}

\* start() and the first lines of worker_loop, for a client with a secret.
Init ==
    /\ auth_enabled \in BOOLEAN
    /\ secret_ok \in BOOLEAN
    /\ authed = FALSE
    /\ inflight = TRUE
    /\ denied = FALSE
    /\ tries = 1
    /\ nonce = NoNonce
    /\ session = FALSE
    /\ online = FALSE
    /\ vouched = FALSE
    /\ list = "allowed"
    /\ issued = 0
    /\ accepted = {}
    /\ logins = 0
    /\ barred = FALSE
    /\ synced = FALSE
    /\ net = {Msg("CHALLENGE_REQ", 1, 0)}
    /\ left = [loss |-> MaxLoss, dup |-> MaxDup, nonce |-> MaxNonceExpiry,
               session |-> MaxSessionExpiry, restart |-> MaxRestart, ban |-> MaxBan,
               sync |-> MaxSync, odd |-> MaxOdd, any |-> MaxEvents]

-----------------------------------------------------------------------------
(* Client.  rest is the network without the message that is handled.       *)

\* Faulty variant of MayChallenge: asks again while a login is under way.
MayChallenge_always == ~ denied /\ tries < MaxTry

\* do_auth_challenge, where its callers find it allowed.
MayChallenge == ~ inflight /\ ~ denied /\ tries < MaxTry

do_auth_challenge(rest) ==
    /\ inflight' = TRUE
    /\ tries' = tries + 1
    /\ net' = rest \cup {Msg("CHALLENGE_REQ", tries + 1, 0)}
    /\ UNCHANGED <<authed, denied>>

Ignored(rest) == net' = rest /\ UNCHANGED client

\* The server wants a login first: challenge, unless one is under way.
LoginRequired(rest) ==
    IF MayChallenge THEN do_auth_challenge(rest) ELSE Ignored(rest)

\* The retry, after the back-off that an unusable answer set.
tick_auth ==
    /\ ~ authed /\ MayChallenge
    /\ do_auth_challenge(net)
    /\ UNCHANGED <<config, server, left>>

\* The bound on what is under way besides the handshake.
Room(types) == Cardinality({m \in net : m.type \in types}) < MaxAside

tick_heartbeat ==
    /\ Room({"HEARTBEAT_REQ", "HEARTBEAT_RSP"})
    /\ net' = net \cup {Msg("HEARTBEAT_REQ", 0, 0)}
    /\ UNCHANGED <<config, client, server, left>>

connect ==
    /\ Room({"CONNECT_REQ", "CONNECT_ACK"})
    /\ net' = net \cup {Msg("CONNECT_REQ", 0, 0)}
    /\ UNCHANGED <<config, client, server, left>>

\* Faulty variant of on_auth_challenge_rsp: a refusal leaves the flag set.
on_auth_challenge_rsp_no_reset(m, rest) ==
    /\ m.type = "CHALLENGE_RSP"
    /\ net' = rest \cup (IF m.result = 0 THEN {Msg("LOGIN_REQ", m.n, 0)} ELSE {})
    /\ denied' = (denied \/ m.result \in {1, 2})
    /\ UNCHANGED <<authed, inflight, tries>>

\* The lists' refusals are final; any other failure is retried by tick_auth.
on_auth_challenge_rsp(m, rest) ==
    /\ m.type = "CHALLENGE_RSP"
    /\ \/ /\ m.result = 0
          /\ net' = rest \cup {Msg("LOGIN_REQ", m.n, 0)}
          /\ UNCHANGED client
       \/ /\ m.result # 0
          /\ inflight' = FALSE
          /\ denied' = (denied \/ m.result \in {1, 2})
          /\ net' = rest
          /\ UNCHANGED <<authed, tries>>

\* On success the CONNECT requests still waiting are sent again.
on_auth_login_rsp(m, rest) ==
    /\ m.type = "LOGIN_RSP"
    /\ inflight' = FALSE
    /\ authed' = (authed \/ m.result = AUTH_OK)
    /\ denied' = (denied \/ m.result \notin {AUTH_OK, AUTH_BAD_NONCE, Short})
    /\ \E again \in SUBSET {Msg("CONNECT_REQ", 0, 0)} :
          /\ m.result # AUTH_OK => again = {}
          /\ net' = rest \cup again
    /\ UNCHANGED tries

\* Heartbeats are encrypted once a login succeeded.  A server that does not
\* ask for logins accepts one with any secret, and then its answer, decrypted
\* with another secret, can say anything.
Decrypted(m) == IF authed /\ ~ secret_ok THEN 0 .. 2 ELSE {m.result}

\* Faulty variant of on_heartbeat_rsp: a client that was logged in once does
\* not log in again.
on_heartbeat_rsp_once(m, rest) ==
    /\ m.type = "HEARTBEAT_RSP"
    /\ IF m.result # 2 /\ ~ authed THEN LoginRequired(rest) ELSE Ignored(rest)

on_heartbeat_rsp(m, rest) ==
    /\ m.type = "HEARTBEAT_RSP"
    /\ \E result \in Decrypted(m) :
          IF result = 1 \/ (result = 0 /\ ~ authed)
          THEN LoginRequired(rest)
          ELSE Ignored(rest)

on_connect_ack(m, rest) ==
    /\ m.type = "CONNECT_ACK"
    /\ IF m.result = 3 THEN LoginRequired(rest) ELSE Ignored(rest)

ClientReceives(m, rest) ==
    /\ \/ on_auth_challenge_rsp(m, rest)
       \/ on_auth_login_rsp(m, rest)
       \/ on_heartbeat_rsp(m, rest)
       \/ on_connect_ack(m, rest)
    /\ UNCHANGED <<config, server>>

-----------------------------------------------------------------------------
(* Server *)

\* PeerManager::authed: a login here, or the entry of peers_ vouches.
Admitted == session \/ vouched

\* A fresh nonce replaces the one issued before.
auth_challenge_req(m, rest) ==
    /\ m.type = "CHALLENGE_REQ"
    /\ \/ /\ list = "allowed"
          /\ issued' = issued + 1
          /\ nonce' = issued + 1
          /\ net' = rest \cup {Msg("CHALLENGE_RSP", issued + 1, 0)}
       \/ /\ list # "allowed"
          /\ net' = rest \cup
                 {Msg("CHALLENGE_RSP", NoNonce, IF list = "blacklisted" THEN 1 ELSE 2)}
          /\ UNCHANGED <<nonce, issued>>
    /\ UNCHANGED <<session, online, vouched, list, accepted, logins, barred, synced>>

\* Faulty variant of LoginAccepted: the MAC is not compared.
LoginAccepted_any_mac(m) == nonce # NoNonce /\ m.n = nonce

\* In verify_auth_login the stored nonce is used up whatever the outcome.
LoginAccepted(m) == nonce # NoNonce /\ m.n = nonce /\ secret_ok

LoginResult(m) ==
    IF list = "blacklisted" THEN AUTH_BLACKLIST
    ELSE IF list = "unlicensed" THEN AUTH_WHITELIST_REJ
    ELSE IF ~ auth_enabled \/ LoginAccepted(m) THEN AUTH_OK
    ELSE AUTH_BAD_MAC

\* Faulty variant of verify_auth_login: the nonce stays valid.
verify_auth_login_keeps_nonce(m) ==
    /\ UNCHANGED nonce
    /\ IF LoginAccepted(m)
       THEN /\ session' = TRUE
            /\ vouched' = online
            /\ accepted' = accepted \cup {m.n}
            /\ logins' = logins + 1
       ELSE UNCHANGED <<session, vouched, accepted, logins>>

verify_auth_login(m) ==
    /\ nonce' = NoNonce
    /\ IF LoginAccepted(m)
       THEN /\ session' = TRUE
            /\ vouched' = online
            /\ accepted' = accepted \cup {m.n}
            /\ logins' = logins + 1
       ELSE UNCHANGED <<session, vouched, accepted, logins>>

auth_login_req(m, rest) ==
    /\ m.type = "LOGIN_REQ"
    /\ IF list = "allowed" /\ auth_enabled
       THEN verify_auth_login(m)
       ELSE UNCHANGED <<nonce, session, vouched, accepted, logins>>
    /\ net' = rest \cup {Msg("LOGIN_RSP", m.n, LoginResult(m))}
    /\ UNCHANGED <<online, list, issued, barred, synced>>

\* upsert: an entry that was there keeps its auth_expire, a new one has none.
handle_heartbeat(m, rest) ==
    /\ m.type = "HEARTBEAT_REQ"
    /\ \/ /\ auth_enabled /\ ~ Admitted
          /\ net' = rest \cup {Msg("HEARTBEAT_RSP", 0, 1)}
          /\ UNCHANGED online
       \/ /\ ~ (auth_enabled /\ ~ Admitted) /\ list # "allowed"
          /\ net' = rest \cup {Msg("HEARTBEAT_RSP", 0, 2)}
          /\ UNCHANGED online
       \/ /\ ~ (auth_enabled /\ ~ Admitted) /\ list = "allowed"
          /\ net' = rest \cup {Msg("HEARTBEAT_RSP", 0, 0)}
          /\ online' = TRUE
    /\ UNCHANGED <<nonce, session, vouched, list, history>>

\* Only the gate of CONNECT; what follows it belongs to the connection.
connect_req(m, rest) ==
    /\ m.type = "CONNECT_REQ"
    /\ net' = rest \cup
           {Msg("CONNECT_ACK", 0, IF auth_enabled /\ ~ Admitted THEN 3 ELSE 0)}
    /\ UNCHANGED server

ServerReceives(m, rest) ==
    /\ \/ auth_challenge_req(m, rest)
       \/ auth_login_req(m, rest)
       \/ handle_heartbeat(m, rest)
       \/ connect_req(m, rest)
    /\ UNCHANGED <<config, client>>

-----------------------------------------------------------------------------
(* Time, operators and the network *)

Spend(event) ==
    /\ left[event] > 0 /\ left["any"] > 0
    /\ left' = [left EXCEPT ![event] = @ - 1, !["any"] = @ - 1]

NonceExpires ==
    /\ nonce # NoNonce
    /\ Spend("nonce")
    /\ nonce' = NoNonce
    /\ UNCHANGED <<config, client, session, online, vouched, list, history, net>>

\* The 3600 s of a login, of an entry of peers_, or of both are over.
SessionExpires ==
    /\ Spend("session")
    /\ session' \in {session, FALSE}
    /\ vouched' \in {vouched, FALSE}
    /\ <<session', vouched'>> # <<session, vouched>>
    /\ UNCHANGED <<config, client, nonce, online, list, history, net>>

\* The entry of peers_ goes: 90 s without a heartbeat, or a deletion.
PeerTimesOut ==
    /\ online
    /\ online' = FALSE
    /\ vouched' = FALSE
    /\ UNCHANGED <<config, client, nonce, session, list, history, net, left>>

\* MSG_SYNC_PEER_ENTRY: upsert_synced takes the other server's word for it that
\* the client logged in there.
handle_sync_entry ==
    /\ Spend("sync")
    /\ online' = TRUE
    /\ vouched' = TRUE
    /\ synced' = TRUE
    /\ UNCHANGED <<config, client, nonce, session, list, issued, accepted, logins,
                   barred, net>>

ServerRestarts ==
    /\ Spend("restart")
    /\ nonce' = NoNonce
    /\ session' = FALSE
    /\ online' = FALSE
    /\ vouched' = FALSE
    /\ UNCHANGED <<config, client, list, history, net>>

\* The administrator, the flood detector or a reload changes a list.
ListChanges ==
    /\ Spend("ban")
    /\ list' \in Verdict \ {list}
    /\ barred' = (barred \/ list' # "allowed")
    /\ UNCHANGED <<config, client, nonce, session, online, vouched, issued, accepted,
                   logins, synced, net>>

Handle(m, rest) == ClientReceives(m, rest) \/ ServerReceives(m, rest)

Receive(m) == Handle(m, net \ {m}) /\ UNCHANGED left

Duplicate(m) == Handle(m, net) /\ Spend("dup")

Lose(m) ==
    /\ Spend("loss")
    /\ net' = net \ {m}
    /\ UNCHANGED <<config, client, server>>

\* The answers that the protocol and the client provide for and that this
\* server never gives: a cut message, an unknown result of a challenge,
\* AUTH_BAD_NONCE.
Odd(m) ==
    CASE m.type = "CHALLENGE_RSP" -> {OtherResult, Short}
      [] m.type = "LOGIN_RSP" -> {AUTH_BAD_NONCE, Short}
      [] OTHER -> {}

OddAnswer(m) ==
    /\ Spend("odd")
    /\ \E result \in Odd(m) : net' = (net \ {m}) \cup {Msg(m.type, m.n, result)}
    /\ UNCHANGED <<config, client, server>>

Next ==
    \/ tick_auth \/ tick_heartbeat \/ connect
    \/ NonceExpires \/ SessionExpires \/ PeerTimesOut \/ handle_sync_entry
    \/ ServerRestarts \/ ListChanges
    \/ \E m \in net : Receive(m) \/ Duplicate(m) \/ Lose(m) \/ OddAnswer(m)

Spec == Init /\ [][Next]_vars

-----------------------------------------------------------------------------
(* Properties *)

TypeOK ==
    /\ auth_enabled \in BOOLEAN /\ secret_ok \in BOOLEAN
    /\ authed \in BOOLEAN /\ inflight \in BOOLEAN /\ denied \in BOOLEAN
    /\ tries \in 1 .. MaxTry
    /\ issued \in Nat
    /\ nonce \in 0 .. issued
    /\ session \in BOOLEAN /\ online \in BOOLEAN /\ vouched \in BOOLEAN
    /\ list \in Verdict
    /\ accepted \subseteq 1 .. issued
    /\ logins \in Nat
    /\ barred \in BOOLEAN /\ synced \in BOOLEAN
    /\ net \subseteq [type : Types, n : Nat, result : 0 .. 5]
    /\ left \in [Events -> Nat]

\* A nonce logs a client in at most once, however often LOGIN_REQ is repeated
\* and whatever the server forgets ("one-time use" in verify_auth_login).
NonceUsedOnce == logins = Cardinality(accepted)

\* With authentication on, a session and a client that believes it is logged
\* in go back to a login here with the server's secret, and an entry of the
\* registry goes back to such a login or to an entry that another server
\* sent: no order of heartbeats, expiries and restarts opens a gate.
AdmittedByLogin ==
    auth_enabled =>
        /\ session \/ authed => secret_ok /\ accepted # {}
        /\ online \/ vouched => (secret_ok /\ accepted # {}) \/ synced

\* So far nothing was lost; nothing was repeated, no nonce outlived its 30 s
\* and the server stayed up.
Lossless == left["loss"] = MaxLoss
Undisturbed ==
    left["dup"] = MaxDup /\ left["nonce"] = MaxNonceExpiry /\ left["restart"] = MaxRestart

\* The client gives up for good only if the lists refused it or its secret
\* is wrong (the comment on auth_denied_, section 10.3 of the guide), as long
\* as no message is repeated, no nonce expires and the server stays up.
DeniedForCause == (denied /\ Undisturbed) => barred \/ ~ secret_ok

\* While auth_inflight_ holds, a message of the handshake is under way: until
\* one is lost, the flag, which has no timeout, never outlives the exchange
\* it stands for.
HandshakeAlive == (inflight /\ Lossless) => \E m \in net : m.type \in Handshake

-----------------------------------------------------------------------------
(* Liveness: the worker loop ticks, and messages in flight arrive. *)

FairSpec ==
    /\ Spec
    /\ WF_vars(tick_heartbeat)
    /\ WF_vars(tick_auth)
    /\ \A t \in Types : WF_vars(\E m \in net : m.type = t /\ Receive(m))

\* A client with the right secret that no list refuses is admitted, and is
\* admitted again after its session expired: heartbeats answered with "login
\* required" start a new handshake, and tick_auth retries after an answer it
\* cannot use.  A lost message ends this (auth_inflight_ stays set), and so
\* may one that is repeated or late, and a restart.
LoggedIn ==
    (auth_enabled /\ secret_ok)
        => []<>(Admitted \/ barred \/ ~ Lossless \/ ~ Undisturbed)
=============================================================================
