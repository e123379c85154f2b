------------------------------ MODULE P2PProxy ------------------------------
(***************************************************************************)
(* The UDP relay (proxyserver/src/P2PProxy.cpp): the registration tables   *)
(* uuid2addr_ and addr2uuid_, the relay paths srcpaths_, the receiving     *)
(* threads that run handle() and the timer thread that reclaims entries.   *)
(*                                                                         *)
(* Every access to the tables holds mu_, so a handler is one step; the     *)
(* timer takes mu_ twice in a round and is two steps, with other threads   *)
(* in between.  What the relay sends changes no table and is left out: the *)
(* forwarded frame and the answers, so also PUNCH_HELPER, SP_ASK_EXTINFO   *)
(* and refused registrations (no uuid, wrong hmac, full), which only       *)
(* answer.  Connection and NatServer have the receivers of the answers.    *)
(*                                                                         *)
(* Abstractions.  A time is an age in timer rounds (COUNT_TTL), counted up *)
(* to the first value that is too old.  An absent uuid2addr_ entry is      *)
(* NoAddr, an absent addr2uuid_ entry NoUuid, an absent path a count of 0: *)
(* the timer erases a path in the critical section in which its count      *)
(* becomes 0.                                                              *)
(***************************************************************************)
EXTENDS Integers, FiniteSets

CONSTANTS
    Uuid, NoUuid,
    Addr, NoAddr,
    max_proxy,   \* max_proxy_
    RegTTL,      \* REG_TTL / COUNT_TTL = 24 timer rounds
    Sources      \* bound: the addresses that send RELAY_DATA

ASSUME NoneAssumption == NoUuid \notin Uuid /\ NoAddr \notin Addr
ASSUME FiniteAssumption == IsFiniteSet(Uuid)
ASSUME LimitAssumption == max_proxy \in Nat /\ RegTTL \in Nat
ASSUME SourcesAssumption == Sources \subseteq Addr

VARIABLES
    uuid2addr,   \* uuid2addr_[u].addr
    reg_age,     \* now - uuid2addr_[u].last_reg
    addr2uuid,   \* addr2uuid_
    count,       \* srcpaths_[src][dst].count
    idle,        \* now - srcpaths_[src][dst].last_active
    timer,       \* where timer_loop is
    dead,        \* dead_uuid: the addresses whose registration expired
    lost         \* history: registrations without their addr2uuid_ entry

regVars == <<uuid2addr, reg_age, addr2uuid, lost>>
pathVars == <<count, idle>>
timerVars == <<timer, dead>>
vars == <<regVars, pathVars, timerVars>>

Ages == 0 .. (RegTTL + 1)
Older(age) == IF age > RegTTL THEN age ELSE age + 1
Path == Addr \X Addr

Registered == {u \in Uuid : uuid2addr[u] # NoAddr}

Init ==
    /\ uuid2addr = [u \in Uuid |-> NoAddr]
    /\ reg_age = [u \in Uuid |-> 0]
    /\ addr2uuid = [a \in Addr |-> NoUuid]
    /\ count = [p \in Path |-> 0]
    /\ idle = [p \in Path |-> 0]
    /\ timer = "sleep"
    /\ dead = {}
    /\ lost = {}

-----------------------------------------------------------------------------
(* Registration *)

\* Faulty variant of Full: admits one uuid too many.
Full_off_by_one(u) == Cardinality(Registered) > max_proxy /\ u \notin Registered

Full(u) == Cardinality(Registered) >= max_proxy /\ u \notin Registered

\* The uuid that do_register clears because a was registered under it.
Cleared(u, a) == {addr2uuid[a]} \ {u, NoUuid}

\* Faulty variant of do_register: an address that has a uuid keeps it.
do_register_emplace(u, a) ==
    /\ ~ Full(u)
    /\ uuid2addr' = [v \in Uuid |-> IF v = u THEN a
                                    ELSE IF v \in Cleared(u, a) THEN NoAddr
                                    ELSE uuid2addr[v]]
    /\ reg_age' = [v \in Uuid |-> IF v = u \/ v \in Cleared(u, a) THEN 0
                                  ELSE reg_age[v]]
    /\ addr2uuid' = [addr2uuid EXCEPT ![a] = IF @ = NoUuid THEN u ELSE @]
    /\ lost' = lost \ ({u} \cup Cleared(u, a))
    /\ UNCHANGED <<pathVars, timerVars>>

\* Past its refusals, for uuid u and a datagram from a.
do_register(u, a) ==
    /\ ~ Full(u)
    /\ uuid2addr' = [v \in Uuid |-> IF v = u THEN a
                                    ELSE IF v \in Cleared(u, a) THEN NoAddr
                                    ELSE uuid2addr[v]]
    /\ reg_age' = [v \in Uuid |-> IF v = u \/ v \in Cleared(u, a) THEN 0
                                  ELSE reg_age[v]]
    /\ addr2uuid' = [addr2uuid EXCEPT ![a] = u]
    /\ lost' = lost \ ({u} \cup Cleared(u, a))
    /\ UNCHANGED <<pathVars, timerVars>>

\* unregister: only from the registered address, and the paths go with it.
unregister(u, a) ==
    /\ u \in Registered
    /\ uuid2addr[u] = a
    /\ addr2uuid' = [addr2uuid EXCEPT ![a] = NoUuid]
    /\ count' = [p \in Path |-> IF a \in {p[1], p[2]} THEN 0 ELSE count[p]]
    /\ idle' = [p \in Path |-> IF a \in {p[1], p[2]} THEN 0 ELSE idle[p]]
    /\ uuid2addr' = [uuid2addr EXCEPT ![u] = NoAddr]
    /\ reg_age' = [reg_age EXCEPT ![u] = 0]
    /\ lost' = (lost \ {u}) \cup {v \in Registered \ {u} : uuid2addr[v] = a}
    /\ UNCHANGED timerVars

-----------------------------------------------------------------------------
(* Relaying *)

\* Faulty variant of relay_data: the reverse path is not renewed.
relay_data_one_way(d, src) ==
    /\ src \in Sources
    /\ d \in Registered
    /\ LET path == <<src, uuid2addr[d]>>
       IN  /\ count' = [count EXCEPT ![path] = 3]
           /\ idle' = [idle EXCEPT ![path] = 0]
    /\ UNCHANGED <<regVars, timerVars>>

\* RELAY_DATA from src to uuid d: the path and its reverse get count 3.  The
\* sender need not be registered; a frame to an unknown uuid is dropped.
relay_data(d, src) ==
    /\ src \in Sources
    /\ d \in Registered
    /\ LET dst == uuid2addr[d]
           both == {<<src, dst>>, <<dst, src>>}
       IN  /\ count' = [p \in Path |-> IF p \in both THEN 3 ELSE count[p]]
           /\ idle' = [p \in Path |-> IF p \in both THEN 0 ELSE idle[p]]
    /\ UNCHANGED <<regVars, timerVars>>

handle(from) ==
    \E u \in Uuid : do_register(u, from) \/ unregister(u, from) \/ relay_data(u, from)

-----------------------------------------------------------------------------
(* Time and timer_loop *)

\* COUNT_TTL passes: the sleeping timer wakes up.  A timer that is still
\* busy, or waits for mu_, may let several periods pass.
Elapse ==
    /\ reg_age' = [u \in Uuid |-> IF u \in Registered THEN Older(reg_age[u]) ELSE 0]
    /\ idle' = [p \in Path |-> IF count[p] > 0 THEN Older(idle[p]) ELSE 0]
    /\ timer' = IF timer = "sleep" THEN "collect" ELSE timer
    /\ UNCHANGED <<uuid2addr, addr2uuid, count, dead, lost>>

\* Faulty variant of Decayed: a path keeps its last count for ever.
Decayed_to_one(p) == IF count[p] > 1 THEN count[p] - 1 ELSE count[p]

\* A path is erased when its count reaches 0 or it was idle for too long.
Decayed(p) ==
    IF count[p] <= 1 \/ idle[p] > RegTTL THEN 0 ELSE count[p] - 1

\* Faulty variant of Expired: the comparison is the wrong way round.
Expired_swapped == {u \in Registered : reg_age[u] < RegTTL}

Expired == {u \in Registered : reg_age[u] > RegTTL}

\* The first critical section of a round.
timer_collect ==
    /\ timer = "collect"
    /\ count' = [p \in Path |-> Decayed(p)]
    /\ idle' = [p \in Path |-> IF Decayed(p) = 0 THEN 0 ELSE idle[p]]
    /\ uuid2addr' = [u \in Uuid |-> IF u \in Expired THEN NoAddr ELSE uuid2addr[u]]
    /\ reg_age' = [u \in Uuid |-> IF u \in Expired THEN 0 ELSE reg_age[u]]
    /\ dead' = {uuid2addr[u] : u \in Expired}
    /\ lost' = lost \ Expired
    /\ timer' = IF Expired = {} THEN "sleep" ELSE "reclaim"
    /\ UNCHANGED addr2uuid

\* The second one, entered when some registration expired.
timer_reclaim ==
    /\ timer = "reclaim"
    /\ addr2uuid' = [a \in Addr |-> IF a \in dead THEN NoUuid ELSE addr2uuid[a]]
    /\ lost' = lost \cup {u \in Registered : uuid2addr[u] \in dead}
    /\ timer' = "sleep"
    /\ dead' = {}
    /\ UNCHANGED <<uuid2addr, reg_age, pathVars>>

Next ==
    \/ \E from \in Addr : handle(from)
    \/ Elapse
    \/ timer_collect
    \/ timer_reclaim

Spec == Init /\ [][Next]_vars

-----------------------------------------------------------------------------
(* Properties *)

TypeOK ==
    /\ uuid2addr \in [Uuid -> Addr \cup {NoAddr}]
    /\ reg_age \in [Uuid -> Ages]
    /\ addr2uuid \in [Addr -> Uuid \cup {NoUuid}]
    /\ count \in [Path -> 0 .. 3]
    /\ idle \in [Path -> Ages]
    /\ timer \in {"sleep", "collect", "reclaim"}
    /\ dead \subseteq Addr
    /\ lost \subseteq Uuid

\* uuid2addr_ never holds more than max_proxy_ uuids, whatever mix of first
\* registrations, refreshes, moves and takeovers led there (the developer
\* guide: max_proxy limits the proxies; do_register refreshes when full).
Capacity == Cardinality(Registered) <= max_proxy

\* A relay path and its reverse live and die together: RELAY_DATA renews
\* both, unregister erases row and column, the timer decays both alike.
PathsSymmetric ==
    \A a, b \in Addr : /\ count[<<a, b>>] = count[<<b, a>>]
                       /\ idle[<<a, b>>] = idle[<<b, a>>]

\* addr2uuid_ inverts uuid2addr_ ("two-way mapping table" of the guide), also
\* after moves and takeovers of an address, but for registrations in lost:
\* those made between the two critical sections of a timer round, whose entry
\* the timer then drops, and those at the address of one of these when it is
\* unregistered.  The next refresh repairs a registration.
TablesAgree ==
    \A u \in Registered : u \notin lost => addr2uuid[uuid2addr[u]] = u

-----------------------------------------------------------------------------
(* Liveness: time passes and the timer thread runs. *)

FairSpec ==
    Spec /\ WF_vars(Elapse) /\ WF_vars(timer_collect) /\ WF_vars(timer_reclaim)

\* A registration that is not refreshed for REG_TTL is removed (or refreshed
\* after all): REG_TTL in the guide and in timer_loop.
ExpiredReclaimed ==
    \A u \in Uuid : (reg_age[u] > RegTTL) ~> (reg_age[u] <= RegTTL)

\* A path that is not used loses its count and disappears: count 3, one less
\* in every round, until the next RELAY_DATA sets it to 3 again.
PathsDecay ==
    \A p \in Path : (count[p] \in {1, 2}) ~> (count[p] \in {0, 3})
=============================================================================
