----------------------------- MODULE AuthProofs -----------------------------
(***************************************************************************)
(* Proofs about the login handshake, for every bound on retries, losses,   *)
(* duplicates, expiries, restarts and list changes.                        *)
(*                                                                         *)
(* NonceUsedOnce and AdmittedByLogin are not inductive.  The first needs   *)
(* that the stored nonce was never accepted (NonceFresh); the second that  *)
(* a successful LOGIN_RSP still in flight, which will set authed_, goes    *)
(* back to an accepted login (AnswersEarned).                              *)
(***************************************************************************)
EXTENDS Auth, FiniteSetTheorems, TLAPS

\* The stored nonce has not been accepted before.
NonceFresh == nonce # NoNonce => nonce \notin accepted

\* A positive answer in flight was earned by an accepted login.
AnswersEarned ==
    \A m \in net : m.type = "LOGIN_RSP" /\ m.result = AUTH_OK /\ auth_enabled
                       => secret_ok /\ accepted # {}

AuthInv == TypeOK /\ NonceFresh /\ NonceUsedOnce /\ AnswersEarned /\ AdmittedByLogin

Message == [type : Types, n : Nat, result : 0 .. 5]

\* Every kind of message is one of Types.
LEMMA KindsAreTypes ==
    /\ "CHALLENGE_REQ" \in Types /\ "CHALLENGE_RSP" \in Types
    /\ "LOGIN_REQ" \in Types /\ "LOGIN_RSP" \in Types
    /\ "HEARTBEAT_REQ" \in Types /\ "HEARTBEAT_RSP" \in Types
    /\ "CONNECT_REQ" \in Types /\ "CONNECT_ACK" \in Types
    /\ 0 \in 0 .. 5 /\ 0 \in Nat
  BY DEF Types, Handshake

\* The network keeps its type when well-formed messages are added.
LEMMA NetType ==
    ASSUME TypeOK, NEW rest, rest \subseteq net, NEW new, new \subseteq Message
    PROVE  rest \cup new \subseteq [type : Types, n : Nat, result : 0 .. 5]
  BY DEF TypeOK, Message

\* Init establishes the invariant.
LEMMA InitAuthInv == Init => AuthInv
  <1> SUFFICES ASSUME Init PROVE AuthInv
    OBVIOUS
  <1>1. 1 \in Nat
    OBVIOUS
  <1>2. Msg("CHALLENGE_REQ", 1, 0) \in Message
        /\ Msg("CHALLENGE_REQ", 1, 0).type = "CHALLENGE_REQ"
    BY <1>1, KindsAreTypes DEF Msg, Message
  <1>3. left \in [Events -> Nat]
    BY BoundAssumption DEF Init, Events
  <1>4. TypeOK
    <2>1. net \subseteq [type : Types, n : Nat, result : 0 .. 5]
      BY <1>2 DEF Init, Message
    <2>2. tries \in 1 .. MaxTry
      BY BoundAssumption DEF Init
    <2>3. issued \in Nat /\ nonce \in 0 .. issued /\ logins \in Nat
          /\ accepted \subseteq 1 .. issued
      BY DEF Init, NoNonce
    <2>4. list \in Verdict
      BY DEF Init, Verdict
    <2> QED
      BY <1>3, <2>1, <2>2, <2>3, <2>4 DEF Init, TypeOK
  <1>5. NonceFresh /\ AdmittedByLogin
    BY DEF Init, NonceFresh, AdmittedByLogin, NoNonce
  <1>6. NonceUsedOnce
    BY FS_EmptySet DEF Init, NonceUsedOnce
  <1>7. AnswersEarned
    BY <1>2 DEF Init, AnswersEarned
  <1> QED
    BY <1>4, <1>5, <1>6, <1>7 DEF AuthInv

-----------------------------------------------------------------------------
(* The client's steps *)

\* The part of the state that no client step touches, and what a client step
\* may send: never an answer to a login.
ClientStep(rest) ==
    /\ authed' \in BOOLEAN /\ inflight' \in BOOLEAN /\ denied' \in BOOLEAN
    /\ tries' \in 1 .. MaxTry
    /\ net' \subseteq [type : Types, n : Nat, result : 0 .. 5]
    /\ \A m \in net' : m \in rest \/ m.type # "LOGIN_RSP"

\* Asking for a challenge.
LEMMA ChallengeStep ==
    ASSUME TypeOK, NEW rest, rest \subseteq net, MayChallenge, do_auth_challenge(rest)
    PROVE  ClientStep(rest) /\ authed' = authed
  <1>1. tries + 1 \in Nat /\ tries + 1 \in 1 .. MaxTry
    BY BoundAssumption DEF TypeOK, MayChallenge
  <1> DEFINE new == Msg("CHALLENGE_REQ", tries + 1, 0)
  <1>3. new \in Message /\ new.type = "CHALLENGE_REQ"
    BY <1>1, KindsAreTypes DEF Msg, Message
  <1>4. net' = rest \cup {new}
    BY DEF do_auth_challenge
  <1> HIDE DEF new
  <1>5. net' \subseteq [type : Types, n : Nat, result : 0 .. 5]
    BY <1>3, <1>4, NetType
  <1>6. authed' \in BOOLEAN /\ inflight' \in BOOLEAN /\ denied' \in BOOLEAN
    BY DEF do_auth_challenge, TypeOK
  <1>7. tries' \in 1 .. MaxTry
    BY <1>1 DEF do_auth_challenge
  <1> QED
    BY <1>3, <1>4, <1>5, <1>6, <1>7 DEF ClientStep, do_auth_challenge

\* A step that leaves the client alone and sends nothing.
LEMMA IgnoredStep ==
    ASSUME TypeOK, NEW rest, rest \subseteq net, Ignored(rest)
    PROVE  ClientStep(rest) /\ authed' = authed
  BY DEF TypeOK, Ignored, ClientStep, client

\* What a client step must satisfy to preserve the invariant.
LEMMA ClientInv ==
    ASSUME AuthInv, NEW rest, rest \subseteq net, ClientStep(rest),
           UNCHANGED <<config, server>>,
           left' \in [Events -> Nat],
           authed' => (authed \/ (auth_enabled => secret_ok /\ accepted # {}))
    PROVE  AuthInv'
  <1> USE DEF config, server, history
  <1>1. TypeOK'
    BY DEF AuthInv, TypeOK, ClientStep
  <1>2. NonceFresh' /\ NonceUsedOnce'
    BY DEF AuthInv, NonceFresh, NonceUsedOnce
  <1>3. AnswersEarned'
    BY DEF AuthInv, AnswersEarned, ClientStep
  <1>4. AdmittedByLogin'
    BY DEF AuthInv, AdmittedByLogin
  <1> QED
    BY <1>1, <1>2, <1>3, <1>4 DEF AuthInv

\* The client's message handlers preserve the invariant.
LEMMA ClientReceivesInv ==
    ASSUME AuthInv, NEW m \in net, NEW rest, rest \subseteq net,
           ClientReceives(m, rest),
           left' \in [Events -> Nat]
    PROVE  AuthInv'
  <1>0. TypeOK /\ UNCHANGED <<config, server>>
    BY DEF AuthInv, ClientReceives
  <1>1. CASE on_auth_challenge_rsp(m, rest)
    <2>1. m.n \in Nat
      BY <1>0 DEF TypeOK
    <2>2. Msg("LOGIN_REQ", m.n, 0) \in Message /\ Msg("LOGIN_REQ", m.n, 0).type = "LOGIN_REQ"
      BY <2>1, KindsAreTypes DEF Msg, Message
    <2>3. net' \subseteq [type : Types, n : Nat, result : 0 .. 5]
      BY <1>0, <1>1, <2>2, NetType DEF on_auth_challenge_rsp, TypeOK
    <2>4. \A k \in net' : k \in rest \/ k.type # "LOGIN_RSP"
      BY <1>1, <2>2 DEF on_auth_challenge_rsp
    <2>5. authed' = authed /\ tries' = tries
      BY <1>1 DEF on_auth_challenge_rsp, client
    <2>6. inflight' \in BOOLEAN /\ denied' \in BOOLEAN
      BY <1>0, <1>1 DEF on_auth_challenge_rsp, client, TypeOK
    <2>7. ClientStep(rest)
      BY <1>0, <2>3, <2>4, <2>5, <2>6 DEF ClientStep, TypeOK
    <2> QED
      BY <1>0, <2>5, <2>7, ClientInv
  <1>2. CASE on_auth_login_rsp(m, rest)
    <2>1. PICK again \in SUBSET {Msg("CONNECT_REQ", 0, 0)} : net' = rest \cup again
      BY <1>2 DEF on_auth_login_rsp
    <2>2. Msg("CONNECT_REQ", 0, 0) \in Message /\ Msg("CONNECT_REQ", 0, 0).type = "CONNECT_REQ"
      BY KindsAreTypes DEF Msg, Message
    <2>3. net' \subseteq [type : Types, n : Nat, result : 0 .. 5]
      BY <1>0, <2>1, <2>2, NetType
    <2>4. \A k \in net' : k \in rest \/ k.type # "LOGIN_RSP"
      BY <2>1, <2>2
    <2>5. /\ inflight' = FALSE
          /\ authed' = (authed \/ m.result = AUTH_OK)
          /\ denied' = (denied \/ m.result \notin {AUTH_OK, AUTH_BAD_NONCE, Short})
          /\ tries' = tries
      BY <1>2 DEF on_auth_login_rsp
    <2>6. ClientStep(rest)
      BY <1>0, <2>3, <2>4, <2>5 DEF ClientStep, TypeOK
    <2>7. authed' => (authed \/ (auth_enabled => secret_ok /\ accepted # {}))
      BY <1>2, <2>5 DEF on_auth_login_rsp, AuthInv, AnswersEarned
    <2> QED
      BY <1>0, <2>6, <2>7, ClientInv
  <1>3. ASSUME LoginRequired(rest) \/ Ignored(rest) PROVE AuthInv'
    <2>1. ClientStep(rest) /\ authed' = authed
      BY <1>0, <1>3, ChallengeStep, IgnoredStep DEF LoginRequired
    <2> QED
      BY <1>0, <2>1, ClientInv
  <1> QED
    BY <1>1, <1>2, <1>3 DEF ClientReceives, on_heartbeat_rsp, on_connect_ack

-----------------------------------------------------------------------------
(* The server's steps *)

\* A server step that verifies no login and sends one well-formed message
\* that is not an answer to a login.
LEMMA ServerQuietInv ==
    ASSUME AuthInv, NEW rest, rest \subseteq net,
           NEW new \in Message, new.type # "LOGIN_RSP", net' = rest \cup {new},
           UNCHANGED <<config, client, vouched, list, accepted, logins, barred, synced>>,
           left' \in [Events -> Nat],
           session' \in BOOLEAN, session' => session,
           online' \in BOOLEAN, online' => online \/ ~ auth_enabled \/ Admitted,
           \/ UNCHANGED <<nonce, issued>>
           \/ issued' = issued + 1 /\ nonce' = issued + 1
    PROVE  AuthInv'
  <1> USE DEF config, client
  <1>0. TypeOK
    BY DEF AuthInv
  <1>1. net' \subseteq [type : Types, n : Nat, result : 0 .. 5]
    BY <1>0, NetType
  <1>2. /\ issued' \in Nat /\ nonce' \in 0 .. issued'
        /\ accepted' \subseteq 1 .. issued'
        /\ nonce' # NoNonce => nonce' \notin accepted'
    <2>1. issued \in Nat /\ nonce \in 0 .. issued /\ accepted \subseteq 1 .. issued
      BY <1>0 DEF TypeOK
    <2>2. CASE UNCHANGED <<nonce, issued>>
      BY <2>1, <2>2 DEF AuthInv, NonceFresh
    <2>3. CASE issued' = issued + 1 /\ nonce' = issued + 1
      BY <2>1, <2>3
    <2> QED
      BY <2>2, <2>3
  <1>3. TypeOK'
    BY <1>0, <1>1, <1>2 DEF TypeOK
  <1>4. NonceFresh' /\ NonceUsedOnce'
    BY <1>2 DEF AuthInv, NonceFresh, NonceUsedOnce
  <1>5. AnswersEarned'
    BY DEF AuthInv, AnswersEarned
  <1>6. AdmittedByLogin'
    BY DEF AuthInv, AdmittedByLogin, Admitted
  <1> QED
    BY <1>3, <1>4, <1>5, <1>6 DEF AuthInv

\* LOGIN_REQ: an accepted nonce is new to accepted and leaves the slot.
LEMMA LoginInv ==
    ASSUME AuthInv, NEW m \in net, NEW rest, rest \subseteq net,
           auth_login_req(m, rest), UNCHANGED <<config, client>>,
           left' \in [Events -> Nat]
    PROVE  AuthInv'
  <1> USE DEF config, client
  <1>0. TypeOK /\ m.n \in Nat
    BY DEF AuthInv, TypeOK
  <1>1. LoginResult(m) \in 0 .. 5
    BY DEF LoginResult, AUTH_OK, AUTH_BAD_MAC, AUTH_BLACKLIST, AUTH_WHITELIST_REJ
  <1> DEFINE new == Msg("LOGIN_RSP", m.n, LoginResult(m))
  <1>2. new \in Message /\ new.result = LoginResult(m)
    BY <1>0, <1>1, KindsAreTypes DEF Msg, Message
  <1>3. net' = rest \cup {new}
    BY DEF auth_login_req
  <1> HIDE DEF new
  <1>4. net' \subseteq [type : Types, n : Nat, result : 0 .. 5]
    BY <1>0, <1>2, <1>3, NetType
  <1>5. UNCHANGED <<online, list, issued, barred, synced>>
    BY DEF auth_login_req
  <1>t. issued \in Nat /\ nonce \in 0 .. issued /\ accepted \subseteq 1 .. issued
        /\ logins \in Nat
    BY <1>0 DEF TypeOK
  <1>6. CASE list = "allowed" /\ auth_enabled /\ LoginAccepted(m)
    <2>1. /\ nonce' = NoNonce /\ session' = TRUE /\ vouched' = online
          /\ accepted' = accepted \cup {m.n} /\ logins' = logins + 1
      BY <1>6 DEF auth_login_req, verify_auth_login
    <2>2. m.n = nonce /\ nonce # NoNonce /\ secret_ok
      BY <1>6 DEF LoginAccepted
    <2>3. m.n \in 1 .. issued /\ m.n \notin accepted
      BY <1>t, <2>2 DEF AuthInv, NonceFresh, NoNonce
    <2>4. IsFiniteSet(accepted)
      BY <1>t, FS_Interval, FS_Subset, 1 \in Int, issued \in Int
    <2>5. Cardinality(accepted') = Cardinality(accepted) + 1
      BY <2>1, <2>3, <2>4, FS_AddElement
    <2>6. NonceUsedOnce'
      BY <2>1, <2>5 DEF AuthInv, NonceUsedOnce
    <2>7. nonce' \in 0 .. issued' /\ accepted' \subseteq 1 .. issued' /\ logins' \in Nat
      <3>1. issued' = issued
        BY <1>5
      <3>2. NoNonce \in 0 .. issued
        BY <1>t DEF NoNonce
      <3>3. logins + 1 \in Nat
        BY <1>t
      <3> QED
        BY <1>t, <2>1, <2>3, <3>1, <3>2, <3>3
    <2>8. TypeOK'
      BY <1>0, <1>4, <1>5, <2>1, <2>7 DEF TypeOK
    <2>9. NonceFresh'
      BY <2>1 DEF NonceFresh
    <2>10. secret_ok' /\ accepted' # {}
      BY <2>1, <2>2
    <2> QED
      BY <2>6, <2>8, <2>9, <2>10 DEF AuthInv, AnswersEarned, AdmittedByLogin
  <1>7. CASE ~ (list = "allowed" /\ auth_enabled /\ LoginAccepted(m))
    <2>1. UNCHANGED <<session, vouched, accepted, logins>> /\ nonce' \in {nonce, NoNonce}
      BY <1>7 DEF auth_login_req, verify_auth_login
    <2>2. nonce' \in 0 .. issued' /\ accepted' \subseteq 1 .. issued'
      BY <1>t, <1>5, <2>1 DEF NoNonce
    <2>3. TypeOK'
      BY <1>0, <1>4, <1>5, <2>1, <2>2 DEF TypeOK
    <2>4. NonceFresh' /\ NonceUsedOnce'
      BY <2>1 DEF AuthInv, NonceFresh, NonceUsedOnce
    <2>5. auth_enabled => new.result # AUTH_OK
      BY <1>0, <1>2, <1>7 DEF LoginResult, TypeOK, Verdict, AUTH_OK, AUTH_BAD_MAC,
         AUTH_BLACKLIST, AUTH_WHITELIST_REJ
    <2>6. AnswersEarned'
      BY <1>3, <2>1, <2>5 DEF AuthInv, AnswersEarned
    <2>7. AdmittedByLogin'
      BY <1>5, <2>1 DEF AuthInv, AdmittedByLogin
    <2> QED
      BY <2>3, <2>4, <2>6, <2>7 DEF AuthInv
  <1> QED
    BY <1>6, <1>7

\* The server's message handlers preserve the invariant.
LEMMA ServerReceivesInv ==
    ASSUME AuthInv, NEW m \in net, NEW rest, rest \subseteq net,
           ServerReceives(m, rest),
           left' \in [Events -> Nat]
    PROVE  AuthInv'
  <1>0. TypeOK /\ UNCHANGED <<config, client>>
    BY DEF AuthInv, ServerReceives
  <1>b. session \in BOOLEAN /\ online \in BOOLEAN /\ issued \in Nat
    BY <1>0 DEF TypeOK
  <1>r. 1 \in 0 .. 5 /\ 2 \in 0 .. 5 /\ 3 \in 0 .. 5 /\ issued + 1 \in Nat
    BY <1>b
  <1>1. CASE auth_challenge_req(m, rest)
    <2>1. UNCHANGED <<session, online, vouched, list, accepted, logins, barred, synced>>
      BY <1>1 DEF auth_challenge_req
    <2>2. \E new \in Message : new.type # "LOGIN_RSP" /\ net' = rest \cup {new}
      <3>1. /\ Msg("CHALLENGE_RSP", issued + 1, 0) \in Message
            /\ Msg("CHALLENGE_RSP", issued + 1, 0).type = "CHALLENGE_RSP"
        BY <1>r, KindsAreTypes DEF Msg, Message
      <3>2. \A r \in {1, 2} : /\ Msg("CHALLENGE_RSP", NoNonce, r) \in Message
                              /\ Msg("CHALLENGE_RSP", NoNonce, r).type = "CHALLENGE_RSP"
        BY <1>r, KindsAreTypes DEF Msg, Message, NoNonce
      <3> QED
        BY <1>1, <3>1, <3>2 DEF auth_challenge_req
    <2>3. \/ UNCHANGED <<nonce, issued>>
          \/ issued' = issued + 1 /\ nonce' = issued + 1
      BY <1>1 DEF auth_challenge_req
    <2> QED
      BY <1>0, <1>b, <2>1, <2>2, <2>3, ServerQuietInv
  <1>2. CASE auth_login_req(m, rest)
    BY <1>0, <1>2, LoginInv
  <1>3. CASE handle_heartbeat(m, rest)
    <2>1. UNCHANGED <<nonce, session, vouched, list, issued, accepted, logins, barred, synced>>
      BY <1>3 DEF handle_heartbeat, history
    <2>2. \E new \in Message : new.type # "LOGIN_RSP" /\ net' = rest \cup {new}
      <3>1. \A r \in {0, 1, 2} : /\ Msg("HEARTBEAT_RSP", 0, r) \in Message
                                 /\ Msg("HEARTBEAT_RSP", 0, r).type = "HEARTBEAT_RSP"
        BY <1>r, KindsAreTypes DEF Msg, Message
      <3> QED
        BY <1>3, <3>1 DEF handle_heartbeat
    <2>3. online' \in BOOLEAN /\ (online' => online \/ ~ auth_enabled \/ Admitted)
      <3>1. CASE online' = online
        BY <3>1, <1>b
      <3>2. CASE online' = TRUE /\ ~ (auth_enabled /\ ~ Admitted)
        BY <3>2
      <3> QED
        BY <1>3, <3>1, <3>2 DEF handle_heartbeat
    <2> QED
      BY <1>0, <1>b, <2>1, <2>2, <2>3, ServerQuietInv
  <1>4. CASE connect_req(m, rest)
    <2>1. UNCHANGED server
      BY <1>4 DEF connect_req
    <2>2. \E new \in Message : new.type # "LOGIN_RSP" /\ net' = rest \cup {new}
      <3>1. \A r \in {0, 3} : /\ Msg("CONNECT_ACK", 0, r) \in Message
                              /\ Msg("CONNECT_ACK", 0, r).type = "CONNECT_ACK"
        BY <1>r, KindsAreTypes DEF Msg, Message
      <3> QED
        BY <1>4, <3>1 DEF connect_req
    <2> QED
      BY <1>0, <1>b, <2>1, <2>2, ServerQuietInv DEF server, history
  <1> QED
    BY <1>1, <1>2, <1>3, <1>4 DEF ServerReceives

-----------------------------------------------------------------------------
(* All steps *)

\* An event leaves the budget a budget.
LEMMA SpendType ==
    ASSUME left \in [Events -> Nat], NEW e \in Events, e # "any", Spend(e)
    PROVE  left' \in [Events -> Nat]
  <1>1. left[e] \in Nat /\ left[e] > 0 /\ left["any"] \in Nat /\ left["any"] > 0
    BY DEF Spend, Events
  <1>2. left[e] - 1 \in Nat /\ left["any"] - 1 \in Nat
    BY <1>1
  <1> QED
    BY <1>2 DEF Spend, Events

\* An event takes one from its own budget and from the common one.
LEMMA SpendOne ==
    ASSUME left \in [Events -> Nat], NEW e \in Events, e # "any", Spend(e)
    PROVE  /\ left'[e] = left[e] - 1
           /\ \A f \in Events \ {e, "any"} : left'[f] = left[f]
  BY DEF Spend, Events

\* A step spends nothing or is one event.
LEMMA StepSpends ==
    ASSUME left \in [Events -> Nat], [Next]_vars
    PROVE  \/ left' = left
           \/ \E e \in Events \ {"any"} : Spend(e)
  BY DEF Next, tick_auth, tick_heartbeat, connect, NonceExpires, SessionExpires,
     PeerTimesOut, handle_sync_entry, ServerRestarts, ListChanges, Receive, Duplicate,
     Lose, OddAnswer, Events, vars

\* A step of time, an operator or the network that sends nothing and at most
\* takes the nonce, the session or the registration away.
LEMMA ForgetInv ==
    ASSUME AuthInv, UNCHANGED <<config, client, issued, accepted, logins, synced>>,
           net' \subseteq net, left' \in [Events -> Nat],
           nonce' \in {nonce, NoNonce},
           session' \in {session, FALSE}, online' \in {online, FALSE},
           vouched' \in {vouched, FALSE},
           list' \in Verdict, barred' \in BOOLEAN
    PROVE  AuthInv'
  <1> USE DEF config, client
  <1>0. TypeOK
    BY DEF AuthInv
  <1>1. nonce' \in 0 .. issued'
    BY <1>0 DEF TypeOK, NoNonce
  <1>2. session' \in BOOLEAN /\ online' \in BOOLEAN /\ vouched' \in BOOLEAN
    BY <1>0 DEF TypeOK
  <1>3. TypeOK'
    BY <1>0, <1>1, <1>2 DEF TypeOK, Events
  <1>4. NonceFresh' /\ NonceUsedOnce' /\ AnswersEarned'
    BY DEF AuthInv, NonceFresh, NonceUsedOnce, AnswersEarned
  <1>5. (session' => session) /\ (online' => online) /\ (vouched' => vouched)
    <2>1. \A new \in BOOLEAN : \A old \in BOOLEAN : new \in {old, FALSE} => (new => old)
      OBVIOUS
    <2>2. session \in BOOLEAN /\ online \in BOOLEAN /\ vouched \in BOOLEAN
      BY <1>0 DEF TypeOK
    <2> QED
      BY <1>2, <2>1, <2>2, Zenon
  <1>6. AdmittedByLogin'
    BY <1>5 DEF AuthInv, AdmittedByLogin
  <1> QED
    BY <1>3, <1>4, <1>6 DEF AuthInv

\* An entry from another server is recorded as such.
LEMMA SyncInv ==
    ASSUME AuthInv, handle_sync_entry, left' \in [Events -> Nat]
    PROVE  AuthInv'
  <1>1. /\ online' = TRUE /\ vouched' = TRUE /\ synced' = TRUE
        /\ UNCHANGED <<auth_enabled, secret_ok, authed, inflight, denied, tries, nonce,
                       session, list, issued, accepted, logins, barred, net>>
    BY DEF handle_sync_entry, config, client
  <1>2. TypeOK'
    BY <1>1 DEF AuthInv, TypeOK
  <1>3. NonceFresh' /\ NonceUsedOnce' /\ AnswersEarned'
    BY <1>1 DEF AuthInv, NonceFresh, NonceUsedOnce, AnswersEarned
  <1>4. AdmittedByLogin'
    BY <1>1 DEF AuthInv, AdmittedByLogin
  <1> QED
    BY <1>2, <1>3, <1>4 DEF AuthInv

\* An answer this server never gives admits nobody.
LEMMA OddInv ==
    ASSUME AuthInv, NEW m \in net, OddAnswer(m), left' \in [Events -> Nat]
    PROVE  AuthInv'
  <1>0. TypeOK /\ m \in Message
    BY DEF AuthInv, TypeOK, Message
  <1>1. PICK result \in Odd(m) : net' = (net \ {m}) \cup {Msg(m.type, m.n, result)}
    BY DEF OddAnswer
  <1>2. result \in 0 .. 5 /\ (m.type = "LOGIN_RSP" => result # AUTH_OK)
    BY <1>0, <1>1 DEF Odd, OtherResult, Short, AUTH_BAD_NONCE, AUTH_OK
  <1>3. Msg(m.type, m.n, result) \in Message
        /\ Msg(m.type, m.n, result).type = m.type
        /\ Msg(m.type, m.n, result).result = result
    BY <1>0, <1>2 DEF Msg, Message
  <1>4. net' \subseteq [type : Types, n : Nat, result : 0 .. 5]
    BY <1>0, <1>1, <1>3 DEF TypeOK, Message
  <1>5. UNCHANGED <<auth_enabled, secret_ok, authed, inflight, denied, tries, nonce,
                    session, online, vouched, list, issued, accepted, logins, barred,
                    synced>>
    BY DEF OddAnswer, config, client, server, history
  <1>6. TypeOK'
    BY <1>0, <1>4, <1>5 DEF TypeOK
  <1>7. NonceFresh' /\ NonceUsedOnce' /\ AdmittedByLogin'
    BY <1>5 DEF AuthInv, NonceFresh, NonceUsedOnce, AdmittedByLogin
  <1>8. AnswersEarned'
    BY <1>1, <1>2, <1>3, <1>5 DEF AuthInv, AnswersEarned
  <1> QED
    BY <1>6, <1>7, <1>8 DEF AuthInv

\* Every step preserves the invariant.
LEMMA StepAuthInv == AuthInv /\ [Next]_vars => AuthInv'
  <1> SUFFICES ASSUME AuthInv, [Next]_vars PROVE AuthInv'
    OBVIOUS
  <1>0. TypeOK /\ left \in [Events -> Nat] /\ net \subseteq net
    BY DEF AuthInv, TypeOK, Events
  <1>e. "loss" \in Events /\ "dup" \in Events /\ "nonce" \in Events
        /\ "session" \in Events /\ "restart" \in Events /\ "ban" \in Events
        /\ "sync" \in Events /\ "odd" \in Events
    BY DEF Events
  <1>l. list \in Verdict /\ barred \in BOOLEAN
    BY <1>0 DEF TypeOK
  <1>2. CASE tick_heartbeat
    <2>1. ClientStep(net) /\ authed' = authed /\ UNCHANGED <<config, server, left>>
      <3> DEFINE new == Msg("HEARTBEAT_REQ", 0, 0)
      <3>1. new \in Message /\ new.type = "HEARTBEAT_REQ"
        BY KindsAreTypes DEF Msg, Message
      <3>2. net' = net \cup {new} /\ UNCHANGED <<config, client, server, left>>
        BY <1>2 DEF tick_heartbeat
      <3> HIDE DEF new
      <3>3. net' \subseteq [type : Types, n : Nat, result : 0 .. 5]
        BY <1>0, <3>1, <3>2, NetType
      <3> QED
        BY <1>0, <3>1, <3>2, <3>3 DEF ClientStep, client, TypeOK
    <2> QED
      BY <1>0, <2>1, ClientInv DEF Events
  <1>3. CASE connect
    <2>1. ClientStep(net) /\ authed' = authed /\ UNCHANGED <<config, server, left>>
      <3> DEFINE new == Msg("CONNECT_REQ", 0, 0)
      <3>1. new \in Message /\ new.type = "CONNECT_REQ"
        BY KindsAreTypes DEF Msg, Message
      <3>2. net' = net \cup {new} /\ UNCHANGED <<config, client, server, left>>
        BY <1>3 DEF connect
      <3> HIDE DEF new
      <3>3. net' \subseteq [type : Types, n : Nat, result : 0 .. 5]
        BY <1>0, <3>1, <3>2, NetType
      <3> QED
        BY <1>0, <3>1, <3>2, <3>3 DEF ClientStep, client, TypeOK
    <2> QED
      BY <1>0, <2>1, ClientInv DEF Events
  <1>4. CASE NonceExpires
    <2>1. left' \in [Events -> Nat]
      BY <1>0, <1>4, <1>e, SpendType DEF NonceExpires
    <2> QED
      BY <1>4, <1>l, <2>1, ForgetInv DEF NonceExpires, history
  <1>5. CASE SessionExpires
    <2>1. left' \in [Events -> Nat]
      BY <1>0, <1>5, <1>e, SpendType DEF SessionExpires
    <2> QED
      BY <1>5, <1>l, <2>1, ForgetInv DEF SessionExpires, history
  <1>6. CASE PeerTimesOut
    BY <1>0, <1>6, <1>l, ForgetInv DEF PeerTimesOut, history
  <1>7. CASE ServerRestarts
    <2>1. left' \in [Events -> Nat]
      BY <1>0, <1>7, <1>e, SpendType DEF ServerRestarts
    <2> QED
      BY <1>7, <1>l, <2>1, ForgetInv DEF ServerRestarts, history
  <1>8. CASE ListChanges
    <2>1. left' \in [Events -> Nat]
      BY <1>0, <1>8, <1>e, SpendType DEF ListChanges
    <2>2. list' \in Verdict /\ barred' \in BOOLEAN
      BY <1>8 DEF ListChanges
    <2> QED
      BY <1>8, <2>1, <2>2, ForgetInv DEF ListChanges
  <1>9. ASSUME NEW m \in net, Receive(m) \/ Duplicate(m) PROVE AuthInv'
    <2>1. left' \in [Events -> Nat]
      BY <1>0, <1>9, <1>e, SpendType DEF Receive, Duplicate
    <2>2. PICK rest \in {net, net \ {m}} : Handle(m, rest)
      BY <1>9 DEF Receive, Duplicate
    <2>3. rest \subseteq net
      BY <2>2
    <2> QED
      BY <2>1, <2>2, <2>3, ClientReceivesInv, ServerReceivesInv DEF Handle, Events
  <1>10. ASSUME NEW m \in net, Lose(m) PROVE AuthInv'
    <2>1. left' \in [Events -> Nat]
      BY <1>0, <1>10, <1>e, SpendType DEF Lose
    <2> QED
      BY <1>10, <1>l, <2>1, ForgetInv DEF Lose, server, history
  <1>11. CASE UNCHANGED vars
    BY <1>0, <1>11, <1>l, ForgetInv DEF vars, server, history
  <1>12. CASE tick_auth
    <2>1. ClientStep(net) /\ authed' = authed
      BY <1>0, <1>12, ChallengeStep DEF tick_auth
    <2> QED
      BY <1>0, <1>12, <2>1, ClientInv DEF tick_auth
  <1>13. CASE handle_sync_entry
    BY <1>0, <1>13, <1>e, SyncInv, SpendType DEF handle_sync_entry
  <1>14. ASSUME NEW m \in net, OddAnswer(m) PROVE AuthInv'
    BY <1>0, <1>14, <1>e, OddInv, SpendType DEF OddAnswer
  <1> QED
    BY <1>2, <1>3, <1>4, <1>5, <1>6, <1>7, <1>8, <1>9, <1>10, <1>11, <1>12, <1>13,
       <1>14 DEF Next

\* The inductive invariant of the login handshake holds throughout.
THEOREM AuthInvariant == Spec => []AuthInv
  BY InitAuthInv, StepAuthInv, PTL DEF Spec

\* Client flags, nonce slot, session and messages keep their types.
THEOREM AuthTypeOK == Spec => []TypeOK
  <1>1. AuthInv => TypeOK
    BY DEF AuthInv
  <1> QED
    BY <1>1, AuthInvariant, PTL

\* No nonce is accepted twice by verify_auth_login, for any number of
\* duplicates, expiries and restarts.
THEOREM AuthNonceUsedOnce == Spec => []NonceUsedOnce
  <1>1. AuthInv => NonceUsedOnce
    BY DEF AuthInv
  <1> QED
    BY <1>1, AuthInvariant, PTL

\* Sessions and logged-in clients go back to an accepted login with the
\* server's secret, registrations to one or to another server's entry.
THEOREM AuthAdmittedByLogin == Spec => []AdmittedByLogin
  <1>1. AuthInv => AdmittedByLogin
    BY DEF AuthInv
  <1> QED
    BY <1>1, AuthInvariant, PTL

-----------------------------------------------------------------------------
(* What has happened so far *)

Limits == [loss |-> MaxLoss, dup |-> MaxDup, nonce |-> MaxNonceExpiry, restart |-> MaxRestart]

\* The budgets that the properties look at are never above their start.
BudgetInv == \A e \in {"loss", "dup", "nonce", "restart"} : left[e] <= Limits[e]

\* The limits are numbers.
LEMMA LimitsNat ==
    \A e \in {"loss", "dup", "nonce", "restart"} : Limits[e] \in Nat
  BY BoundAssumption DEF Limits

\* BudgetInv is invariant.
LEMMA BudgetInvariant == Spec => []BudgetInv
  <1>1. Init => BudgetInv
    BY BoundAssumption DEF Init, BudgetInv, Limits
  <1>2. ASSUME TypeOK, BudgetInv, [Next]_vars PROVE BudgetInv'
    <2>0. left \in [Events -> Nat]
      BY <1>2 DEF TypeOK, Events
    <2>1. CASE left' = left
      BY <1>2, <2>1 DEF BudgetInv
    <2>2. ASSUME NEW e \in Events \ {"any"}, Spend(e) PROVE BudgetInv'
      <3>1. left'[e] = left[e] - 1 /\ \A f \in Events \ {e, "any"} : left'[f] = left[f]
        BY <2>0, <2>2, SpendOne
      <3> SUFFICES ASSUME NEW f \in {"loss", "dup", "nonce", "restart"}
                   PROVE  left'[f] <= Limits[f]
        BY DEF BudgetInv
      <3>2. left[f] \in Nat /\ left[f] <= Limits[f] /\ Limits[f] \in Nat /\ f \in Events \ {"any"}
        BY <1>2, <2>0, LimitsNat DEF BudgetInv, Events
      <3>3. left'[f] = left[f] \/ left'[f] = left[f] - 1
        BY <3>1, <3>2
      <3> QED
        BY <3>2, <3>3
    <2> QED
      BY <1>2, <2>0, <2>1, <2>2, StepSpends
  <1> QED
    BY <1>1, <1>2, AuthTypeOK, PTL DEF Spec

\* What an event took from a full budget stays missing.
LEMMA FullBefore ==
    ASSUME TypeOK, BudgetInv, [Next]_vars,
           NEW f \in {"loss", "dup", "nonce", "restart"}, left'[f] = Limits[f]
    PROVE  left[f] = Limits[f] /\ ~ Spend(f)
  <1>0. left \in [Events -> Nat]
    BY DEF TypeOK, Events
  <1>1. left[f] \in Nat /\ left[f] <= Limits[f] /\ Limits[f] \in Nat /\ f \in Events \ {"any"}
    BY <1>0, LimitsNat DEF BudgetInv, Events
  <1>2. ASSUME NEW e \in Events \ {"any"}, Spend(e) PROVE e # f /\ left[f] = Limits[f]
    <2>1. left'[e] = left[e] - 1 /\ \A g \in Events \ {e, "any"} : left'[g] = left[g]
      BY <1>0, <1>2, SpendOne
    <2>2. e # f
      BY <1>1, <2>1
    <2> QED
      BY <1>1, <2>1, <2>2
  <1>3. ~ Spend(f)
    BY <1>1, <1>2
  <1> QED
    BY <1>0, <1>2, <1>3, StepSpends

-----------------------------------------------------------------------------
(* As long as nothing is lost *)

\* Every step keeps some message of the handshake in flight.
LEMMA StepHandshakeAlive ==
    ASSUME TypeOK, BudgetInv, HandshakeAlive, [Next]_vars
    PROVE  HandshakeAlive'
  <1> SUFFICES ASSUME Lossless' PROVE HandshakeAlive'
    BY DEF HandshakeAlive
  <1>h. "CHALLENGE_REQ" \in Handshake /\ "CHALLENGE_RSP" \in Handshake
        /\ "LOGIN_REQ" \in Handshake /\ "LOGIN_RSP" \in Handshake
    BY DEF Handshake
  <1>1. Lossless /\ ~ Spend("loss")
    BY FullBefore DEF Lossless, Limits
  <1>2. ASSUME inflight' = inflight, net \subseteq net' PROVE HandshakeAlive'
    BY <1>1, <1>2 DEF HandshakeAlive
  <1>3. ASSUME NEW t \in Handshake, NEW n, NEW r, Msg(t, n, r) \in net'
        PROVE  HandshakeAlive'
    BY <1>3 DEF HandshakeAlive, Msg
  <1>4. ASSUME inflight' = FALSE PROVE HandshakeAlive'
    BY <1>4 DEF HandshakeAlive
  <1>5. ASSUME NEW rest, do_auth_challenge(rest) PROVE HandshakeAlive'
    BY <1>3, <1>5, <1>h DEF do_auth_challenge
  <1>6. ASSUME NEW m \in net, NEW rest, net \ {m} \subseteq rest, Handle(m, rest)
        PROVE  HandshakeAlive'
    <2>1. CASE on_auth_challenge_rsp(m, rest)
      <3>1. CASE m.result = 0
        <4>1. Msg("LOGIN_REQ", m.n, 0) \in net'
          BY <2>1, <3>1 DEF on_auth_challenge_rsp
        <4> QED
          BY <1>3, <1>h, <4>1
      <3>2. CASE m.result # 0
        BY <1>4, <2>1, <3>2 DEF on_auth_challenge_rsp
      <3> QED
        BY <3>1, <3>2
    <2>2. CASE on_auth_login_rsp(m, rest)
      BY <1>4, <2>2 DEF on_auth_login_rsp
    <2>3. ASSUME m.type \notin Handshake, inflight' = inflight, rest \subseteq net'
          PROVE  HandshakeAlive'
      BY <1>1, <1>6, <2>3 DEF HandshakeAlive
    <2>n. {"HEARTBEAT_REQ", "HEARTBEAT_RSP", "CONNECT_REQ", "CONNECT_ACK"} \cap Handshake = {}
      BY DEF Handshake
    <2>4. CASE on_heartbeat_rsp(m, rest)
      BY <1>5, <2>3, <2>4, <2>n DEF on_heartbeat_rsp, LoginRequired, Ignored, client
    <2>5. CASE on_connect_ack(m, rest)
      BY <1>5, <2>3, <2>5, <2>n DEF on_connect_ack, LoginRequired, Ignored, client
    <2>6. CASE auth_challenge_req(m, rest)
      <3>1. \E n, r : Msg("CHALLENGE_RSP", n, r) \in net'
        BY <2>6 DEF auth_challenge_req
      <3> QED
        BY <1>3, <1>h, <3>1
    <2>7. CASE auth_login_req(m, rest)
      <3>1. Msg("LOGIN_RSP", m.n, LoginResult(m)) \in net'
        BY <2>7 DEF auth_login_req
      <3> QED
        BY <1>3, <1>h, <3>1
    <2>8. CASE handle_heartbeat(m, rest) /\ UNCHANGED client
      BY <2>3, <2>8, <2>n DEF handle_heartbeat, client
    <2>9. CASE connect_req(m, rest) /\ UNCHANGED client
      BY <2>3, <2>9, <2>n DEF connect_req, client
    <2> QED
      BY <1>6, <2>1, <2>2, <2>4, <2>5, <2>6, <2>7, <2>8, <2>9
      DEF Handle, ClientReceives, ServerReceives
  <1>7. ASSUME NEW m \in net, Receive(m) PROVE HandshakeAlive'
    BY <1>6, <1>7 DEF Receive
  <1>8. ASSUME NEW m \in net, Duplicate(m) PROVE HandshakeAlive'
    BY <1>6, <1>8 DEF Duplicate
  <1>9. ASSUME NEW m \in net PROVE ~ Lose(m)
    BY <1>1 DEF Lose
  <1>11. ASSUME \/ tick_heartbeat \/ connect \/ NonceExpires \/ SessionExpires
                \/ PeerTimesOut \/ handle_sync_entry \/ ServerRestarts \/ ListChanges
                \/ UNCHANGED vars
         PROVE  HandshakeAlive'
    BY <1>2, <1>11 DEF tick_heartbeat, connect, NonceExpires, SessionExpires,
       PeerTimesOut, handle_sync_entry, ServerRestarts, ListChanges, vars, client
  <1>12. CASE tick_auth
    BY <1>5, <1>12 DEF tick_auth
  <1>13. ASSUME NEW m \in net, OddAnswer(m) PROVE HandshakeAlive'
    <2>1. PICK result \in Odd(m) : net' = (net \ {m}) \cup {Msg(m.type, m.n, result)}
      BY <1>13 DEF OddAnswer
    <2>2. m.type \in Handshake
      BY <2>1, <1>h DEF Odd
    <2>3. Msg(m.type, m.n, result) \in net'
      BY <2>1
    <2> QED
      BY <1>3, <2>2, <2>3
  <1> QED
    BY <1>1, <1>7, <1>8, <1>9, <1>11, <1>12, <1>13 DEF Next

\* As long as nothing is lost, auth_inflight_ never outlives its handshake,
\* whatever is repeated, expires or restarts: loss is the only way to wedge
\* the client.
THEOREM AuthHandshakeAlive == Spec => []HandshakeAlive
  <1>1. Init => HandshakeAlive
    BY DEF Init, HandshakeAlive, Handshake, Msg
  <1>2. TypeOK /\ BudgetInv /\ HandshakeAlive /\ [Next]_vars => HandshakeAlive'
    BY StepHandshakeAlive
  <1> QED
    BY <1>1, <1>2, AuthTypeOK, BudgetInvariant, PTL DEF Spec

-----------------------------------------------------------------------------
(* As long as nothing is repeated or late and the server stays up *)

\* One exchange at a time, and only while auth_inflight_ holds.
OneExchange ==
    /\ \A k, m \in net : k.type \in Handshake /\ m.type \in Handshake => k = m
    /\ inflight \/ \A m \in net : m.type \notin Handshake

\* What each message of the exchange means for the server's state.
Meaning(m) ==
    /\ (m.type = "CHALLENGE_RSP" /\ m.result = 0) \/ m.type = "LOGIN_REQ"
           => nonce # NoNonce /\ m.n = nonce
    /\ m.type = "CHALLENGE_RSP" /\ m.result \in {1, 2} => barred
    /\ m.type = "LOGIN_RSP" /\ m.result \notin {AUTH_OK, AUTH_BAD_NONCE, Short}
           => barred \/ ~ secret_ok

QuietInv ==
    /\ Undisturbed
    /\ OneExchange
    /\ \A m \in net : Meaning(m)
    /\ list # "allowed" => barred
    /\ DeniedForCause

\* Nothing disturbs a step before an undisturbed state.
LEMMA StepBudget ==
    ASSUME TypeOK, BudgetInv, [Next]_vars, Undisturbed'
    PROVE  Undisturbed /\ ~ Spend("dup") /\ ~ Spend("nonce") /\ ~ Spend("restart")
  BY FullBefore DEF Undisturbed, Limits

\* A step that sends no message of the exchange and keeps nonce and flags.
LEMMA AsideQuiet ==
    ASSUME QuietInv, UNCHANGED <<config, nonce, denied, inflight>>,
           barred => barred', list' # "allowed" => barred',
           \A m \in net' : m \in net \/ m.type \notin Handshake,
           Undisturbed'
    PROVE  QuietInv'
  <1> USE DEF config
  <1>1. OneExchange'
    BY DEF QuietInv, OneExchange
  <1>2. ASSUME NEW m \in net' PROVE Meaning(m)'
    BY <1>2 DEF QuietInv, Meaning, Handshake
  <1>3. DeniedForCause'
    BY DEF QuietInv, DeniedForCause
  <1> QED
    BY <1>1, <1>2, <1>3 DEF QuietInv

\* The message of the exchange is replaced by its successor.
LEMMA NextMessageQuiet ==
    ASSUME QuietInv, NEW m \in net, m.type \in Handshake, NEW new, Meaning(new)',
           net' = (net \ {m}) \cup {new},
           UNCHANGED <<config, list, barred, denied, inflight>>,
           Undisturbed'
    PROVE  QuietInv'
  <1> USE DEF config
  <1>1. \A k \in net \ {m} : k.type \notin Handshake
    BY DEF QuietInv, OneExchange
  <1>2. inflight
    BY DEF QuietInv, OneExchange
  <1>3. OneExchange'
    BY <1>1, <1>2 DEF OneExchange
  <1>4. ASSUME NEW k \in net' PROVE Meaning(k)'
    <2>1. CASE k = new
      BY <2>1
    <2>2. CASE k # new
      BY <1>1, <2>2 DEF Meaning, Handshake
    <2> QED
      BY <2>1, <2>2
  <1>5. DeniedForCause' /\ (list' # "allowed" => barred')
    BY DEF QuietInv, DeniedForCause
  <1> QED
    BY <1>3, <1>4, <1>5 DEF QuietInv

\* The exchange ends: its last message leaves and auth_inflight_ is cleared.
LEMMA LastMessageQuiet ==
    ASSUME QuietInv, NEW m \in net, m.type \in Handshake,
           \A k \in net' : k \in net \ {m} \/ k.type \notin Handshake,
           UNCHANGED <<config, nonce, list, barred>>,
           DeniedForCause',
           Undisturbed'
    PROVE  QuietInv'
  <1> USE DEF config
  <1>1. \A k \in net' : k.type \notin Handshake
    BY DEF QuietInv, OneExchange
  <1>2. OneExchange'
    BY <1>1 DEF OneExchange
  <1>3. ASSUME NEW k \in net' PROVE Meaning(k)'
    BY <1>1, <1>3 DEF Meaning, Handshake
  <1> QED
    BY <1>2, <1>3 DEF QuietInv

\* A new exchange starts where none was under way.
LEMMA FirstMessageQuiet ==
    ASSUME QuietInv, NEW rest, rest \subseteq net, MayChallenge,
           do_auth_challenge(rest), UNCHANGED <<config, server>>,
           Undisturbed'
    PROVE  QuietInv'
  <1> USE DEF config, server, history
  <1> DEFINE new == Msg("CHALLENGE_REQ", tries + 1, 0)
  <1>1. new.type = "CHALLENGE_REQ" /\ net' = rest \cup {new}
        /\ inflight' = TRUE /\ denied' = denied
    BY DEF do_auth_challenge, Msg
  <1> HIDE DEF new
  <1>2. \A k \in rest : k.type \notin Handshake
    BY DEF QuietInv, OneExchange, MayChallenge
  <1>3. OneExchange'
    BY <1>1, <1>2 DEF OneExchange
  <1>4. ASSUME NEW k \in net' PROVE Meaning(k)'
    BY <1>1, <1>2, <1>4 DEF Meaning, Handshake
  <1>5. DeniedForCause'
    BY <1>1 DEF QuietInv, DeniedForCause
  <1> QED
    BY <1>3, <1>4, <1>5 DEF QuietInv

\* Receiving a message preserves the invariant of the quiet network.
LEMMA ReceiveQuiet ==
    ASSUME TypeOK, QuietInv, NEW m \in net, Handle(m, net \ {m}),
           Undisturbed'
    PROVE  QuietInv'
  <1> DEFINE rest == net \ {m}
  <1>0. Meaning(m) /\ (list # "allowed" => barred) /\ rest \subseteq net
    BY DEF QuietInv
  <1>h. "CHALLENGE_REQ" \in Handshake /\ "CHALLENGE_RSP" \in Handshake
        /\ "LOGIN_REQ" \in Handshake /\ "LOGIN_RSP" \in Handshake
    BY DEF Handshake
  <1>n. "HEARTBEAT_RSP" \notin Handshake /\ "CONNECT_REQ" \notin Handshake
        /\ "CONNECT_ACK" \notin Handshake
    BY DEF Handshake
  <1>1. CASE on_auth_challenge_rsp(m, rest) /\ UNCHANGED <<config, server>>
    <2>1. CASE m.result = 0
      <3> DEFINE new == Msg("LOGIN_REQ", m.n, 0)
      <3>1. new.type = "LOGIN_REQ" /\ new.n = m.n
        BY DEF Msg
      <3>2. net' = rest \cup {new} /\ UNCHANGED client
        BY <1>1, <2>1 DEF on_auth_challenge_rsp
      <3> HIDE DEF new
      <3>3. Meaning(new)'
        BY <1>0, <1>1, <2>1, <3>1 DEF Meaning, on_auth_challenge_rsp, server, config
      <3> QED
        BY <1>1, <1>h, <3>2, <3>3, NextMessageQuiet
        DEF on_auth_challenge_rsp, client, server, history
    <2>2. CASE m.result # 0
      <3>1. net' = rest /\ (denied' => denied \/ barred)
        BY <1>0, <1>1, <2>2 DEF on_auth_challenge_rsp, Meaning
      <3>2. DeniedForCause'
        BY <1>1, <3>1 DEF QuietInv, DeniedForCause, server, history, config
      <3> QED
        BY <1>1, <1>h, <3>1, <3>2, LastMessageQuiet
        DEF on_auth_challenge_rsp, server, history
    <2> QED
      BY <2>1, <2>2
  <1>2. CASE on_auth_login_rsp(m, rest) /\ UNCHANGED <<config, server>>
    <2>1. \A k \in net' : k \in rest \/ k.type \notin Handshake
      <3>1. PICK again \in SUBSET {Msg("CONNECT_REQ", 0, 0)} : net' = rest \cup again
        BY <1>2 DEF on_auth_login_rsp
      <3>2. Msg("CONNECT_REQ", 0, 0).type = "CONNECT_REQ"
        BY DEF Msg
      <3> QED
        BY <1>n, <3>1, <3>2
    <2>2. m.type = "LOGIN_RSP"
          /\ denied' = (denied \/ m.result \notin {AUTH_OK, AUTH_BAD_NONCE, Short})
      BY <1>2 DEF on_auth_login_rsp
    <2>3. DeniedForCause'
      BY <1>0, <1>2, <2>2 DEF DeniedForCause, QuietInv, Meaning, server, history, config
    <2> QED
      BY <1>2, <1>h, <2>1, <2>2, <2>3, LastMessageQuiet DEF server, history
  <1>3. ASSUME LoginRequired(rest) \/ Ignored(rest), UNCHANGED <<config, server>>
        PROVE  QuietInv'
    <2>1. CASE MayChallenge /\ do_auth_challenge(rest)
      BY <1>0, <1>3, <2>1, FirstMessageQuiet
    <2>2. CASE Ignored(rest)
      BY <1>0, <1>3, <2>2, AsideQuiet DEF Ignored, client, server, history
    <2> QED
      BY <1>3, <2>1, <2>2 DEF LoginRequired
  <1>4. CASE auth_challenge_req(m, rest) /\ UNCHANGED <<config, client>>
    <2>1. CASE list = "allowed"
      <3>0. PICK new : new = Msg("CHALLENGE_RSP", issued + 1, 0)
        OBVIOUS
      <3>1. new.type = "CHALLENGE_RSP" /\ new.n = issued + 1 /\ new.result = 0
        BY <3>0 DEF Msg
      <3>2. net' = rest \cup {new} /\ nonce' = issued + 1 /\ UNCHANGED <<list, barred>>
        BY <1>4, <2>1, <3>0 DEF auth_challenge_req
      <3>3. issued + 1 # NoNonce
        BY DEF TypeOK, NoNonce
      <3>4. Meaning(new)'
        BY <3>1, <3>2, <3>3 DEF Meaning
      <3> QED
        BY <1>4, <1>h, <3>2, <3>4, NextMessageQuiet DEF auth_challenge_req, client
    <2>2. CASE list # "allowed"
      <3>1. PICK r \in {1, 2} : net' = rest \cup {Msg("CHALLENGE_RSP", NoNonce, r)}
        BY <1>4, <2>2 DEF auth_challenge_req
      <3> DEFINE new == Msg("CHALLENGE_RSP", NoNonce, r)
      <3>2. new.type = "CHALLENGE_RSP" /\ new.result # 0
        BY DEF Msg
      <3>3. net' = rest \cup {new} /\ barred /\ UNCHANGED <<list, barred>>
        BY <1>0, <1>4, <2>2, <3>1 DEF auth_challenge_req
      <3> HIDE DEF new
      <3>4. Meaning(new)'
        BY <3>2, <3>3 DEF Meaning
      <3> QED
        BY <1>4, <1>h, <3>3, <3>4, NextMessageQuiet DEF auth_challenge_req, client
    <2> QED
      BY <2>1, <2>2
  <1>5. CASE auth_login_req(m, rest) /\ UNCHANGED <<config, client>>
    <2>0. PICK new : new = Msg("LOGIN_RSP", m.n, LoginResult(m))
      OBVIOUS
    <2>1. new.type = "LOGIN_RSP" /\ new.result = LoginResult(m)
      BY <2>0 DEF Msg
    <2>2. net' = rest \cup {new} /\ UNCHANGED <<list, barred>> /\ m.type = "LOGIN_REQ"
      BY <1>5, <2>0 DEF auth_login_req
    <2>3. nonce # NoNonce /\ m.n = nonce
      BY <1>0, <2>2 DEF Meaning
    <2>4. LoginResult(m) # AUTH_OK => barred \/ ~ secret_ok
      BY <1>0, <2>3 DEF LoginResult, LoginAccepted, TypeOK, Verdict
    <2>5. Meaning(new)'
      BY <1>5, <2>1, <2>2, <2>4 DEF Meaning, config
    <2> QED
      BY <1>5, <1>h, <2>2, <2>5, NextMessageQuiet DEF client
  <1>6. CASE handle_heartbeat(m, rest) /\ UNCHANGED <<config, client>>
    <2>1. \A k \in net' : k \in net \/ k.type \notin Handshake
      <3>1. \E r : net' = rest \cup {Msg("HEARTBEAT_RSP", 0, r)}
        BY <1>6 DEF handle_heartbeat
      <3> QED
        BY <1>n, <3>1 DEF Msg
    <2> QED
      BY <1>0, <1>6, <2>1, AsideQuiet DEF handle_heartbeat, client, history
  <1>7. CASE connect_req(m, rest) /\ UNCHANGED <<config, client>>
    <2>1. \A k \in net' : k \in net \/ k.type \notin Handshake
      <3>1. \E r : net' = rest \cup {Msg("CONNECT_ACK", 0, r)}
        BY <1>7 DEF connect_req
      <3> QED
        BY <1>n, <3>1 DEF Msg
    <2> QED
      BY <1>0, <1>7, <2>1, AsideQuiet DEF connect_req, client, server, history
  <1> QED
    BY <1>1, <1>2, <1>3, <1>4, <1>5, <1>6, <1>7
    DEF Handle, ClientReceives, ServerReceives, on_heartbeat_rsp, on_connect_ack

\* Every step preserves the invariant of the quiet network.
LEMMA StepQuietInv ==
    ASSUME TypeOK, BudgetInv, QuietInv, [Next]_vars, Undisturbed'
    PROVE  QuietInv'
  <1>1. Undisturbed'
    OBVIOUS
  <1>2. ~ NonceExpires /\ ~ ServerRestarts /\ \A m \in net : ~ Duplicate(m)
    BY StepBudget DEF NonceExpires, ServerRestarts, Duplicate
  <1>l. list # "allowed" => barred
    BY DEF QuietInv
  <1>4. CASE tick_heartbeat \/ connect
    <2>1. \A k \in net' : k \in net \/ k.type \notin Handshake
      BY <1>4 DEF tick_heartbeat, connect, Msg, Handshake
    <2> QED
      BY <1>1, <1>4, <1>l, <2>1, AsideQuiet
      DEF tick_heartbeat, connect, client, server, history
  <1>5. CASE SessionExpires \/ PeerTimesOut \/ handle_sync_entry \/ UNCHANGED vars
    <2>1. UNCHANGED <<config, nonce, denied, inflight, list, barred, net>>
      BY <1>5 DEF SessionExpires, PeerTimesOut, handle_sync_entry, vars, client, server,
                  history
    <2> QED
      BY <1>1, <1>l, <2>1, AsideQuiet
  <1>6. CASE ListChanges
    <2>1. (barred => barred') /\ (list' # "allowed" => barred')
      BY <1>6 DEF ListChanges
    <2> QED
      BY <1>1, <1>6, <2>1, AsideQuiet DEF ListChanges, client
  <1>7. ASSUME NEW m \in net, Receive(m) PROVE QuietInv'
    BY <1>1, <1>7, ReceiveQuiet DEF Receive
  <1>8. ASSUME NEW m \in net, Lose(m) PROVE QuietInv'
    BY <1>1, <1>8, <1>l, AsideQuiet DEF Lose, client, server, history
  <1>9. CASE tick_auth
    BY <1>1, <1>9, FirstMessageQuiet DEF tick_auth
  <1>10. ASSUME NEW m \in net, OddAnswer(m) PROVE QuietInv'
    <2>1. PICK result \in Odd(m) : net' = (net \ {m}) \cup {Msg(m.type, m.n, result)}
      BY <1>10 DEF OddAnswer
    <2>2. PICK new : new = Msg(m.type, m.n, result)
      OBVIOUS
    <2>3. new.type = m.type /\ new.result = result
      BY <2>2 DEF Msg
    <2>4. /\ m.type \in {"CHALLENGE_RSP", "LOGIN_RSP"}
          /\ m.type = "CHALLENGE_RSP" => result \in {3, 5}
          /\ m.type = "LOGIN_RSP" => result \in {AUTH_BAD_NONCE, Short}
      BY <2>1 DEF Odd, OtherResult, Short
    <2>5. Meaning(new)'
      BY <2>3, <2>4 DEF Meaning
    <2>6. m.type \in Handshake
      BY <2>4 DEF Handshake
    <2>7. UNCHANGED <<config, list, barred, denied, inflight>>
      BY <1>10 DEF OddAnswer, client, server, history
    <2>8. net' = (net \ {m}) \cup {new}
      BY <2>1, <2>2
    <2> QED
      BY <1>1, <2>5, <2>6, <2>7, <2>8, NextMessageQuiet
  <1> QED
    BY <1>2, <1>4, <1>5, <1>6, <1>7, <1>8, <1>9, <1>10 DEF Next

\* As long as no message is repeated, no nonce outlives its 30 s and the
\* server stays up, the client gives up for good only for the reasons the
\* guide gives, whatever is lost, expires or is banned: a repeated message, a
\* late login and a restart are the only ways to be locked out.
THEOREM AuthDeniedForCause == Spec => []DeniedForCause
  <1> DEFINE I == Undisturbed => QuietInv
  <1>1. Init => I
    <2> SUFFICES ASSUME Init PROVE QuietInv
      OBVIOUS
    <2>1. Undisturbed
      BY DEF Init, Undisturbed
    <2>2. Msg("CHALLENGE_REQ", 1, 0).type = "CHALLENGE_REQ"
      BY DEF Msg
    <2>3. net = {Msg("CHALLENGE_REQ", 1, 0)} /\ inflight
      BY DEF Init
    <2>4. OneExchange
      BY <2>3 DEF OneExchange
    <2>5. \A m \in net : Meaning(m)
      BY <2>2, <2>3 DEF Meaning
    <2> QED
      BY <2>1, <2>4, <2>5 DEF Init, QuietInv, DeniedForCause
  <1>2. ASSUME TypeOK, BudgetInv, I, [Next]_vars PROVE I'
    <2> SUFFICES ASSUME Undisturbed' PROVE QuietInv'
      OBVIOUS
    <2>1. Undisturbed
      BY <1>2, StepBudget
    <2> QED
      BY <1>2, <2>1, StepQuietInv
  <1>3. I => DeniedForCause
    BY DEF QuietInv, DeniedForCause
  <1> QED
    BY <1>1, <1>2, <1>3, AuthTypeOK, BudgetInvariant, PTL DEF Spec

-----------------------------------------------------------------------------
(* A handshake cut short is cut short for good *)

\* The client waits for an answer that nobody is going to send: auth_inflight_
\* is set, and every message of the handshake is gone.
Stranded == inflight /\ \A m \in net : m.type \notin Handshake

\* An answer that asks for a login changes nothing while auth_inflight_ is set.
LEMMA LoginRequiredStranded ==
    ASSUME Stranded, NEW rest, LoginRequired(rest)
    PROVE  Ignored(rest)
  BY DEF Stranded, LoginRequired, MayChallenge

\* Outside the handshake no message makes anybody send a message of it, changes
\* the client or opens a session.
LEMMA HandleStranded ==
    ASSUME Stranded, NEW m \in net, NEW rest, rest \subseteq net, Handle(m, rest)
    PROVE  Stranded' /\ UNCHANGED <<client, session>>
  <1>1. m.type \notin Handshake /\ \A k \in rest : k.type \notin Handshake
    BY DEF Stranded
  <1>2. CASE ClientReceives(m, rest)
    <2>1. on_heartbeat_rsp(m, rest) \/ on_connect_ack(m, rest)
      BY <1>1, <1>2
      DEF ClientReceives, on_auth_challenge_rsp, on_auth_login_rsp, Handshake
    <2>2. Ignored(rest)
      BY <2>1, LoginRequiredStranded DEF on_heartbeat_rsp, on_connect_ack
    <2> QED
      BY <1>1, <1>2, <2>2
      DEF Stranded, Ignored, ClientReceives, client, server
  <1>3. CASE ServerReceives(m, rest)
    <2>1. handle_heartbeat(m, rest) \/ connect_req(m, rest)
      BY <1>1, <1>3
      DEF ServerReceives, auth_challenge_req, auth_login_req, Handshake
    <2>2. \A k \in net' : k \in rest \/ k.type \in {"HEARTBEAT_RSP", "CONNECT_ACK"}
      BY <2>1 DEF handle_heartbeat, connect_req, Msg
    <2>3. UNCHANGED <<client, session>>
      BY <1>3, <2>1 DEF ServerReceives, handle_heartbeat, connect_req, server
    <2> QED
      BY <1>1, <2>2, <2>3 DEF Stranded, Handshake, client
  <1> QED
    BY <1>2, <1>3 DEF Handle

\* auth_inflight_ has no timeout.  Once the last message of a handshake is lost
\* while the client waits, no heartbeat, no CONNECT, no expiry and no restart
\* ever starts another one: the client stays as it is, and a session it does
\* not have by then it never gets (an entry from another server may admit it).
THEOREM AuthStrandedForGood ==
    Spec => [][Stranded => Stranded' /\ UNCHANGED client /\ (session' => session)]_vars
  <1>1. ASSUME Stranded, Next
        PROVE  Stranded' /\ UNCHANGED client /\ (session' => session)
    <2>1. CASE tick_heartbeat \/ connect
      <3>1. \A k \in net' : k \in net \/ k.type \in {"HEARTBEAT_REQ", "CONNECT_REQ"}
        BY <2>1 DEF tick_heartbeat, connect, Msg
      <3>2. UNCHANGED <<client, session>>
        BY <2>1 DEF tick_heartbeat, connect, server
      <3> QED
        BY <1>1, <3>1, <3>2 DEF Stranded, Handshake, client
    <2>2. CASE NonceExpires \/ SessionExpires \/ PeerTimesOut \/ handle_sync_entry
               \/ ServerRestarts \/ ListChanges
      <3>1. UNCHANGED <<client, net>>
        BY <2>2
        DEF NonceExpires, SessionExpires, PeerTimesOut, handle_sync_entry,
            ServerRestarts, ListChanges
      <3>2. session' = session \/ session' = FALSE
        BY <2>2
        DEF NonceExpires, SessionExpires, PeerTimesOut, handle_sync_entry,
            ServerRestarts, ListChanges
      <3> QED
        BY <1>1, <3>1, <3>2 DEF Stranded, client
    <2>3. ASSUME NEW m \in net, Receive(m) \/ Duplicate(m)
          PROVE  Stranded' /\ UNCHANGED client /\ (session' => session)
      BY <1>1, <2>3, HandleStranded DEF Receive, Duplicate
    <2>4. ASSUME NEW m \in net, Lose(m)
          PROVE  Stranded' /\ UNCHANGED client /\ (session' => session)
      BY <1>1, <2>4 DEF Stranded, Lose, client, server
    <2>5. ~ tick_auth
      BY <1>1 DEF Stranded, tick_auth, MayChallenge
    <2>6. ASSUME NEW m \in net PROVE ~ OddAnswer(m)
      <3>1. Odd(m) = {}
        BY <1>1 DEF Stranded, Odd, Handshake
      <3> QED
        BY <3>1 DEF OddAnswer
    <2> QED
      BY <1>1, <2>1, <2>2, <2>3, <2>4, <2>5, <2>6 DEF Next
  <1> QED
    BY <1>1, PTL DEF Spec
=============================================================================
