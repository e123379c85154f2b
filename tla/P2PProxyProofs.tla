--------------------------- MODULE P2PProxyProofs ---------------------------
(***************************************************************************)
(* Proofs about the relay, for every number of uuids and addresses, every  *)
(* limit max_proxy_ and every REG_TTL.  TypeOK, PathsSymmetric and         *)
(* TablesAgree are inductive together with nothing else; Capacity needs    *)
(* the cardinality of the set of registered uuids after each step.         *)
(***************************************************************************)
EXTENDS P2PProxy, FiniteSetTheorems, TLAPS

\* Ages stay in their range.
LEMMA AgeFacts == 0 \in Ages /\ \A age \in Ages : Older(age) \in Ages
  BY LimitAssumption DEF Ages, Older

\* Init establishes the types.
LEMMA InitTypeOK == Init => TypeOK
  BY AgeFacts DEF Init, TypeOK

\* Every step of the relay preserves the types.
LEMMA StepTypeOK == TypeOK /\ [Next]_vars => TypeOK'
  <1> SUFFICES ASSUME TypeOK, [Next]_vars PROVE TypeOK'
    OBVIOUS
  <1>1. ASSUME NEW u \in Uuid, NEW a \in Addr, do_register(u, a)
        PROVE  TypeOK'
    <2>1. uuid2addr' \in [Uuid -> Addr \cup {NoAddr}]
      BY <1>1 DEF do_register, TypeOK
    <2>2. reg_age' \in [Uuid -> Ages]
      BY <1>1, AgeFacts DEF do_register, TypeOK
    <2>3. addr2uuid' \in [Addr -> Uuid \cup {NoUuid}]
      BY <1>1 DEF do_register, TypeOK
    <2>4. lost' \subseteq Uuid
      BY <1>1 DEF do_register, TypeOK
    <2> QED
      BY <1>1, <2>1, <2>2, <2>3, <2>4 DEF do_register, TypeOK, pathVars, timerVars
  <1>2. ASSUME NEW u \in Uuid, NEW a \in Addr, unregister(u, a)
        PROVE  TypeOK'
    <2>1. /\ uuid2addr' \in [Uuid -> Addr \cup {NoAddr}]
          /\ reg_age' \in [Uuid -> Ages]
          /\ addr2uuid' \in [Addr -> Uuid \cup {NoUuid}]
      BY <1>2, AgeFacts DEF unregister, TypeOK
    <2>2. count' \in [Path -> 0 .. 3]
      BY <1>2 DEF unregister, TypeOK
    <2>3. idle' \in [Path -> Ages]
      BY <1>2, AgeFacts DEF unregister, TypeOK
    <2>4. lost' \subseteq Uuid
      BY <1>2 DEF unregister, TypeOK, Registered
    <2> QED
      BY <1>2, <2>1, <2>2, <2>3, <2>4 DEF unregister, TypeOK, timerVars
  <1>3. ASSUME NEW u \in Uuid, NEW a \in Addr, relay_data(u, a)
        PROVE  TypeOK'
    <2>1. count' \in [Path -> 0 .. 3]
      BY <1>3 DEF relay_data, TypeOK
    <2>2. idle' \in [Path -> Ages]
      BY <1>3, AgeFacts DEF relay_data, TypeOK
    <2> QED
      BY <1>3, <2>1, <2>2 DEF relay_data, TypeOK, timerVars, regVars
  <1>4. CASE Elapse
    <2>1. reg_age' \in [Uuid -> Ages]
      BY <1>4, AgeFacts DEF Elapse, TypeOK
    <2>2. idle' \in [Path -> Ages]
      BY <1>4, AgeFacts DEF Elapse, TypeOK
    <2> QED
      BY <1>4, <2>1, <2>2 DEF Elapse, TypeOK
  <1>5. CASE timer_collect
    <2>1. \A p \in Path : Decayed(p) \in 0 .. 3
      BY DEF Decayed, TypeOK
    <2>2. count' \in [Path -> 0 .. 3]
      BY <1>5, <2>1 DEF timer_collect
    <2>3. idle' \in [Path -> Ages]
      BY <1>5, AgeFacts DEF timer_collect, TypeOK
    <2>4. uuid2addr' \in [Uuid -> Addr \cup {NoAddr}]
      BY <1>5 DEF timer_collect, TypeOK
    <2>5. reg_age' \in [Uuid -> Ages]
      BY <1>5, AgeFacts DEF timer_collect, TypeOK
    <2>6. dead' \subseteq Addr /\ lost' \subseteq Uuid
      BY <1>5 DEF timer_collect, TypeOK, Expired, Registered
    <2>7. timer' \in {"sleep", "collect", "reclaim"}
      BY <1>5 DEF timer_collect
    <2> QED
      BY <1>5, <2>2, <2>3, <2>4, <2>5, <2>6, <2>7 DEF timer_collect, TypeOK
  <1>6. CASE timer_reclaim
    <2>1. addr2uuid' \in [Addr -> Uuid \cup {NoUuid}]
      BY <1>6 DEF timer_reclaim, TypeOK
    <2>2. lost' \subseteq Uuid
      BY <1>6 DEF timer_reclaim, TypeOK, Registered
    <2> QED
      BY <1>6, <2>1, <2>2 DEF timer_reclaim, TypeOK, pathVars
  <1>7. CASE UNCHANGED vars
    BY <1>7 DEF TypeOK, vars, regVars, pathVars, timerVars
  <1> QED
    BY <1>1, <1>2, <1>3, <1>4, <1>5, <1>6, <1>7 DEF Next, handle

\* The tables keep their types: in particular a count never leaves 0..3, so
\* the uint32_t decrement of timer_loop never wraps.
THEOREM ProxyTypeOK == Spec => []TypeOK
  BY InitTypeOK, StepTypeOK, PTL DEF Spec

-----------------------------------------------------------------------------
(* Relay paths *)

\* Paths in both directions are treated alike by every step.
LEMMA StepPathsSymmetric ==
    TypeOK /\ PathsSymmetric /\ [Next]_vars => PathsSymmetric'
  <1> SUFFICES ASSUME TypeOK, PathsSymmetric, [Next]_vars,
                      NEW a \in Addr, NEW b \in Addr
               PROVE  /\ count'[<<a, b>>] = count'[<<b, a>>]
                      /\ idle'[<<a, b>>] = idle'[<<b, a>>]
    BY DEF PathsSymmetric
  <1>1. <<a, b>> \in Path /\ <<b, a>> \in Path
    BY DEF Path
  <1>2. count[<<a, b>>] = count[<<b, a>>] /\ idle[<<a, b>>] = idle[<<b, a>>]
    BY DEF PathsSymmetric
  <1>3. CASE UNCHANGED pathVars
    BY <1>2, <1>3 DEF pathVars
  <1>4. ASSUME NEW u, NEW f \in Addr, unregister(u, f)
        PROVE  /\ count'[<<a, b>>] = count'[<<b, a>>]
               /\ idle'[<<a, b>>] = idle'[<<b, a>>]
    <2>1. f \in {a, b} <=> f \in {b, a}
      OBVIOUS
    <2> QED
      BY <1>1, <1>2, <1>4 DEF unregister
  <1>5. ASSUME NEW u, NEW f \in Addr, relay_data(u, f)
        PROVE  /\ count'[<<a, b>>] = count'[<<b, a>>]
               /\ idle'[<<a, b>>] = idle'[<<b, a>>]
    <2> DEFINE both == {<<f, uuid2addr[u]>>, <<uuid2addr[u], f>>}
    <2>1. <<a, b>> \in both <=> <<b, a>> \in both
      OBVIOUS
    <2>2. /\ count' = [p \in Path |-> IF p \in both THEN 3 ELSE count[p]]
          /\ idle' = [p \in Path |-> IF p \in both THEN 0 ELSE idle[p]]
      BY <1>5 DEF relay_data
    <2> HIDE DEF both
    <2> QED
      BY <1>1, <1>2, <2>1, <2>2
  <1>6. CASE Elapse
    BY <1>1, <1>2, <1>6 DEF Elapse
  <1>7. CASE timer_collect
    <2>1. Decayed(<<a, b>>) = Decayed(<<b, a>>)
      BY <1>2 DEF Decayed
    <2> QED
      BY <1>1, <1>2, <1>7, <2>1 DEF timer_collect
  <1>8. CASE timer_reclaim
    BY <1>3, <1>8 DEF timer_reclaim
  <1>9. CASE UNCHANGED vars
    BY <1>3, <1>9 DEF vars
  <1>10. ASSUME NEW f \in Addr, handle(f)
         PROVE  /\ count'[<<a, b>>] = count'[<<b, a>>]
                /\ idle'[<<a, b>>] = idle'[<<b, a>>]
    BY <1>3, <1>4, <1>5, <1>10
    DEF handle, do_register
  <1> QED
    BY <1>6, <1>7, <1>8, <1>9, <1>10 DEF Next

\* A path and its reverse have the same count and age in every reachable
\* state, so a relayed conversation never loses one direction alone.
THEOREM ProxyPathsSymmetric == Spec => []PathsSymmetric
  <1>1. Init => PathsSymmetric
    BY DEF Init, PathsSymmetric, Path
  <1> QED
    BY <1>1, ProxyTypeOK, StepPathsSymmetric, PTL DEF Spec

-----------------------------------------------------------------------------
(* The two registration tables *)

\* Only the timer's second critical section, and unregister at an address it
\* took from two registrations, part the two tables.
LEMMA StepTablesAgree == TypeOK /\ TablesAgree /\ [Next]_vars => TablesAgree'
  <1> SUFFICES ASSUME TypeOK, TablesAgree, [Next]_vars,
                      NEW v \in Uuid, uuid2addr'[v] # NoAddr, v \notin lost'
               PROVE  addr2uuid'[uuid2addr'[v]] = v
    BY DEF TablesAgree, Registered
  <1>0. (uuid2addr[v] # NoAddr /\ v \notin lost) => addr2uuid[uuid2addr[v]] = v
    BY DEF TablesAgree, Registered
  <1>t. uuid2addr \in [Uuid -> Addr \cup {NoAddr}] /\ addr2uuid \in [Addr -> Uuid \cup {NoUuid}]
    BY DEF TypeOK
  <1>1. CASE UNCHANGED <<uuid2addr, addr2uuid, lost>>
    BY <1>0, <1>1
  <1>2. ASSUME NEW u \in Uuid, NEW a \in Addr, do_register(u, a)
        PROVE  addr2uuid'[uuid2addr'[v]] = v
    <2>1. CASE v = u
      BY <1>2, <1>t, <2>1 DEF do_register
    <2>2. CASE v # u
      <3>1. v \notin Cleared(u, a) /\ uuid2addr'[v] = uuid2addr[v]
        BY <1>2, <2>2 DEF do_register
      <3>2. v \notin lost
        BY <1>2, <2>2, <3>1 DEF do_register
      <3>3. addr2uuid[uuid2addr[v]] = v
        BY <1>0, <3>1, <3>2
      <3>4. uuid2addr[v] # a
        BY <3>1, <3>3, <2>2, NoneAssumption DEF Cleared
      <3> QED
        BY <1>2, <1>t, <3>1, <3>3, <3>4 DEF do_register
    <2> QED
      BY <2>1, <2>2
  <1>3. ASSUME NEW u \in Uuid, NEW a \in Addr, unregister(u, a)
        PROVE  addr2uuid'[uuid2addr'[v]] = v
    <2>1. v # u /\ uuid2addr'[v] = uuid2addr[v]
      BY <1>3, <1>t DEF unregister, Registered
    <2>2. v \notin lost /\ uuid2addr[v] # a
      BY <1>3, <2>1 DEF unregister, Registered
    <2>3. addr2uuid[uuid2addr[v]] = v
      BY <1>0, <2>1, <2>2
    <2> QED
      BY <1>3, <1>t, <2>1, <2>2, <2>3 DEF unregister
  <1>4. CASE timer_collect
    <2>1. uuid2addr'[v] = uuid2addr[v] /\ addr2uuid' = addr2uuid /\ v \notin lost
      BY <1>4 DEF timer_collect
    <2> QED
      BY <1>0, <2>1
  <1>5. CASE timer_reclaim
    <2>1. uuid2addr' = uuid2addr
      BY <1>5 DEF timer_reclaim
    <2>2. uuid2addr[v] \notin dead /\ v \notin lost
      BY <1>5, <2>1 DEF timer_reclaim, Registered
    <2> QED
      BY <1>0, <1>5, <1>t, <2>1, <2>2 DEF timer_reclaim
  <1>6. CASE Elapse
    BY <1>1, <1>6 DEF Elapse
  <1>7. CASE UNCHANGED vars
    BY <1>1, <1>7 DEF vars, regVars
  <1>8. ASSUME NEW f \in Addr, handle(f)
        PROVE  addr2uuid'[uuid2addr'[v]] = v
    BY <1>1, <1>2, <1>3, <1>8
    DEF handle, relay_data, regVars
  <1> QED
    BY <1>4, <1>5, <1>6, <1>7, <1>8 DEF Next

\* addr2uuid_ inverts uuid2addr_ except for registrations made inside the
\* timer's gap, until they are refreshed: no other interleaving of handlers
\* parts the tables.
THEOREM ProxyTablesAgree == Spec => []TablesAgree
  <1>1. Init => TablesAgree
    BY DEF Init, TablesAgree, Registered
  <1> QED
    BY <1>1, ProxyTypeOK, StepTablesAgree, PTL DEF Spec

-----------------------------------------------------------------------------
(* The limit on registrations *)

\* Registered is a finite set.
LEMMA RegisteredFinite == IsFiniteSet(Registered)
  BY FiniteAssumption, FS_Subset DEF Registered

\* A step that registers nobody new keeps the limit.
LEMMA ShrinkCapacity ==
    ASSUME Capacity, Registered' \subseteq Registered
    PROVE  Capacity'
  <1>1. Cardinality(Registered') <= Cardinality(Registered)
    BY RegisteredFinite, FS_Subset
  <1>2. Cardinality(Registered) \in Nat /\ Cardinality(Registered') \in Nat
    BY RegisteredFinite, FS_Subset, FS_CardinalityType
  <1> QED
    BY <1>1, <1>2, LimitAssumption DEF Capacity

\* A first registration happens below the limit and adds one uuid.
LEMMA StepCapacity == TypeOK /\ Capacity /\ [Next]_vars => Capacity'
  <1> SUFFICES ASSUME TypeOK, Capacity, [Next]_vars PROVE Capacity'
    OBVIOUS
  <1>1. CASE UNCHANGED uuid2addr
    BY <1>1, ShrinkCapacity DEF Registered
  <1>2. ASSUME NEW u \in Uuid, NEW a \in Addr, do_register(u, a)
        PROVE  Capacity'
    <2>1. u \in Uuid
      BY <1>2 DEF do_register
    <2>2. Registered' \subseteq Registered \cup {u}
      BY <1>2 DEF do_register, Registered
    <2>3. CASE u \in Registered
      BY <2>2, <2>3, ShrinkCapacity
    <2>4. CASE u \notin Registered
      <3>1. Cardinality(Registered \cup {u}) = Cardinality(Registered) + 1
        BY <2>4, RegisteredFinite, FS_AddElement
      <3>2. IsFiniteSet(Registered \cup {u})
        BY RegisteredFinite, FS_AddElement
      <3>3. Cardinality(Registered') <= Cardinality(Registered \cup {u})
        BY <2>2, <3>2, FS_Subset
      <3>4. ~ (Cardinality(Registered) >= max_proxy)
        BY <1>2, <2>4 DEF do_register, Full
      <3>5. Cardinality(Registered) \in Nat /\ Cardinality(Registered') \in Nat
        BY <2>2, <3>2, RegisteredFinite, FS_Subset, FS_CardinalityType
      <3> QED
        BY <3>1, <3>3, <3>4, <3>5, LimitAssumption DEF Capacity
    <2> QED
      BY <2>3, <2>4
  <1>3. ASSUME NEW u \in Uuid, NEW a \in Addr, unregister(u, a)
        PROVE  Capacity'
    <2>1. Registered' \subseteq Registered
      BY <1>3 DEF unregister, Registered, TypeOK
    <2> QED
      BY <2>1, ShrinkCapacity
  <1>4. CASE timer_collect
    <2>1. Registered' \subseteq Registered
      BY <1>4 DEF timer_collect, Registered
    <2> QED
      BY <2>1, ShrinkCapacity
  <1>5. CASE timer_reclaim \/ Elapse \/ UNCHANGED vars
    BY <1>1, <1>5 DEF timer_reclaim, Elapse, vars, regVars
  <1>6. ASSUME NEW f \in Addr, handle(f)
        PROVE  Capacity'
    BY <1>1, <1>2, <1>3, <1>6
    DEF handle, relay_data, regVars
  <1> QED
    BY <1>4, <1>5, <1>6 DEF Next

\* The relay never serves more than max_proxy_ uuids, so the uint16_t "used"
\* of its SP_ASK_EXTINFO answer is never truncated.
THEOREM ProxyCapacity == Spec => []Capacity
  <1>1. Init => Capacity
    <2>1. Init => Registered = {}
      BY DEF Init, Registered
    <2> QED
      BY <2>1, FS_EmptySet, LimitAssumption DEF Capacity
  <1> QED
    BY <1>1, ProxyTypeOK, StepCapacity, PTL DEF Spec
=============================================================================
