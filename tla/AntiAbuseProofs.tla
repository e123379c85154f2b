-------------------------- MODULE AntiAbuseProofs --------------------------
(***************************************************************************)
(* What the black list file guarantees for any keys, thresholds and ban    *)
(* times, any number of crashes and any disk errors.                       *)
(***************************************************************************)
EXTENDS AntiAbuse, TLAPS

Saving == {"snapshot", "open", "write", "reset"}

\* Memory agrees with the file while dirty_ is clear, with the snapshot until
\* it is written, and with the file again until dirty_ is cleared; always
\* except for the keys whose change the save in progress does not contain.
SaveInv ==
    /\ pc \in Saving => dirty
    /\ ~ dirty => \A k \in Key \ unsaved : Agree(black, file, k)
    /\ pc \in {"open", "write"} => \A k \in Key \ unsaved : Agree(black, snap, k)
    /\ pc = "reset" => \A k \in Key \ unsaved : Agree(black, file, k)

\* Seconds left stay in range when a second passes, and an entry in force
\* loses exactly one.
LEMMA AgedFacts ==
    \A left \in Left : /\ Aged(left) \in Left
                       /\ Aged(left) > 0 => left > 0 /\ Aged(left) = left - 1
  BY LimitAssumption DEF Left, Aged, Absent

\* Lists without entries and parts of a snapshot are lists.
LEMMA ListFacts ==
    ASSUME TypeOK
    PROVE  /\ Empty \in [Key -> Left]
           /\ \A keys \in SUBSET Key : Part(keys) \in [Key -> Left]
           /\ blacklist_sec \in Left /\ Absent \in Left
  BY LimitAssumption DEF TypeOK, Empty, Part, Left, Absent

\* The lists, the file, the snapshot and the timer keep their types.
LEMMA StepTypeOK ==
    ASSUME TypeOK, [Next]_vars
    PROVE  TypeOK'
<1> USE ListFacts, LimitAssumption
<1>1. CASE UNCHANGED vars
  BY <1>1 DEF vars, listVars, diskVars, TypeOK
<1>2. ASSUME NEW k \in Key, is_blacklisted(k) \/ blacklist(k) \/ unblacklist(k)
      PROVE  TypeOK'
  BY <1>2 DEF TypeOK, is_blacklisted, blacklist, unblacklist, Changed, diskVars
<1>3. ASSUME NEW i \in Ip, check_flood(i)
      PROVE  TypeOK'
  <2>1. flood' \in [Ip -> 0 .. flood_threshold]
    BY <1>3 DEF TypeOK, check_flood
  <2>2. i \in Key
    BY DEF Key
  <2>3. QED BY <1>3, <2>1, <2>2 DEF TypeOK, check_flood, Changed, diskVars
<1>4. CASE Elapse
  BY <1>4, AgedFacts DEF TypeOK, Elapse
<1>5. CASE sweep
  BY <1>5 DEF TypeOK, sweep
<1>6. CASE needs_save \/ save_snapshot \/ save_open \/ save_open_fails
          \/ save_encrypt_fails \/ reset_dirty
  BY <1>6 DEF TypeOK, needs_save, save_snapshot, save_open, save_open_fails,
              save_encrypt_fails, reset_dirty, listVars
<1>7. CASE save_write
  BY <1>7 DEF TypeOK, save_write, listVars
<1>8. CASE Restart
  <2>1. file' \in [Key -> Left]
    BY <1>8 DEF TypeOK, Restart
  <2>2. black' \in [Key -> Left] /\ dirty' \in BOOLEAN
    BY <1>8, <2>1 DEF Restart
  <2>3. flood' \in [Ip -> 0 .. flood_threshold] /\ crashes' \in 0 .. MaxCrash
    BY <1>8 DEF TypeOK, Restart
  <2>4. QED BY <1>8, <2>1, <2>2, <2>3 DEF TypeOK, Restart
<1>9. QED
  BY <1>1, <1>2, <1>3, <1>4, <1>5, <1>6, <1>7, <1>8 DEF Next, timer_thread

\* The lists, the file and the timer of AntiAbuse are well typed.
THEOREM AbuseTypeOK == Spec => []TypeOK
<1>1. ASSUME Init PROVE TypeOK
  <2>1. Empty \in [Key -> Left]
    BY LimitAssumption DEF Empty, Left, Absent
  <2>2. flood \in [Ip -> 0 .. flood_threshold] /\ crashes \in 0 .. MaxCrash
    BY <1>1, LimitAssumption DEF Init
  <2>3. QED BY <1>1, <2>1, <2>2 DEF Init, TypeOK
<1>2. QED BY <1>1, StepTypeOK, PTL DEF Spec

-----------------------------------------------------------------------------

\* A change of one key keeps the invariant: the key is excused while a save is
\* past its snapshot, and dirty_ is set otherwise.
LEMMA ChangedSaveInv ==
    ASSUME TypeOK, SaveInv, NEW k \in Key, NEW left \in Left,
           Changed(k, left), UNCHANGED diskVars
    PROVE  SaveInv'
<1>1. dirty' /\ pc' = pc /\ file' = file /\ snap' = snap
  BY DEF Changed, diskVars
<1>2. \A j \in Key \ {k} : black'[j] = black[j]
  BY DEF TypeOK, Changed
<1>3. pc \in {"open", "write", "reset"} => unsaved' = unsaved \cup {k}
  BY DEF Changed
<1>4. QED BY <1>1, <1>2, <1>3 DEF SaveInv, Agree

\* Every step of every thread, and a restart, keeps the invariant.
LEMMA StepSaveInv ==
    ASSUME TypeOK, SaveInv, [Next]_vars
    PROVE  SaveInv'
<1>1. CASE UNCHANGED vars
  BY <1>1 DEF vars, listVars, diskVars, SaveInv, Agree
<1>2. ASSUME NEW k \in Key, is_blacklisted(k) \/ blacklist(k) \/ unblacklist(k)
      PROVE  SaveInv'
  BY <1>2, ChangedSaveInv, ListFacts DEF is_blacklisted, blacklist, unblacklist
<1>3. ASSUME NEW i \in Ip, check_flood(i)
      PROVE  SaveInv'
  <2>1. CASE Changed(i, blacklist_sec)
    BY <1>3, <2>1, ChangedSaveInv, ListFacts DEF check_flood, Key
  <2>2. CASE UNCHANGED <<black, dirty, unsaved>>
    BY <1>3, <2>2 DEF check_flood, diskVars, SaveInv, Agree
  <2>3. QED BY <1>3, <2>1, <2>2 DEF check_flood
<1>4. CASE Elapse
  <2>1. \A k \in Key : /\ Agree(black, file, k) => Agree(black', file', k)
                       /\ Agree(black, snap, k) => Agree(black', snap', k)
    <3> SUFFICES ASSUME NEW k \in Key
                 PROVE  /\ Agree(black, file, k) => Agree(black', file', k)
                        /\ Agree(black, snap, k) => Agree(black', snap', k)
      OBVIOUS
    <3>1. black[k] \in Left /\ file[k] \in Left /\ snap[k] \in Left
      BY DEF TypeOK
    <3>2. /\ black'[k] = Aged(black[k])
          /\ file'[k] = Aged(file[k])
          /\ snap'[k] = Aged(snap[k])
      BY <1>4 DEF Elapse
    <3>3. QED BY <3>1, <3>2, AgedFacts DEF Agree
  <2>2. dirty' = dirty /\ unsaved' = unsaved
        /\ (pc' = pc \/ (pc = "sleep" /\ pc' = "sweep"))
    BY <1>4 DEF Elapse
  <2>3. QED BY <2>1, <2>2 DEF SaveInv, Saving
<1>5. CASE sweep
  <2>1. \A k \in Key : black'[k] = black[k] \/ (black'[k] = -2 /\ black[k] = -1)
    BY <1>5 DEF sweep, Swept, Lapsed, Absent, TypeOK
  <2>2. /\ ~ dirty' => ~ dirty
        /\ pc' = "check" /\ file' = file /\ unsaved' = unsaved
    BY <1>5 DEF sweep, TypeOK
  <2>3. \A k \in Key : Agree(black, file, k) => Agree(black', file, k)
    BY <2>1 DEF Agree
  <2>4. QED BY <2>2, <2>3 DEF SaveInv, Saving, Agree
<1>6. CASE needs_save
  BY <1>6 DEF needs_save, SaveInv, Saving, Agree, listVars
<1>7. CASE save_snapshot
  <2>1. \A k \in Key : Agree(black', snap', k)
    BY <1>7 DEF save_snapshot, Agree, listVars, Absent, TypeOK
  <2>2. QED BY <1>7, <2>1 DEF save_snapshot, SaveInv, Saving, listVars
<1>8. CASE save_open
  BY <1>8 DEF save_open, SaveInv, Saving, Agree, listVars
<1>9. CASE save_open_fails \/ save_encrypt_fails
  BY <1>9 DEF save_open_fails, save_encrypt_fails, SaveInv, Saving, Agree, listVars
<1>10. CASE save_write
  BY <1>10 DEF save_write, SaveInv, Saving, Agree, listVars
<1>11. CASE reset_dirty
  BY <1>11 DEF reset_dirty, SaveInv, Saving, Agree
<1>12. CASE Restart
  BY <1>12 DEF Restart, SaveInv, Saving, Agree
<1>13. QED
  BY <1>1, <1>2, <1>3, <1>4, <1>5, <1>6, <1>7, <1>8, <1>9, <1>10, <1>11, <1>12
  DEF Next, timer_thread

\* With dirty_ clear, a restart (load) restores the list in memory, but for
\* keys changed during a save and after failed writes.
THEOREM AbuseRestartKeepsList == Spec => RestartKeepsList
<1>1. Init => SaveInv
  BY DEF Init, SaveInv, Saving, Agree
<1>2. TypeOK /\ SaveInv /\ [Next]_vars
          => [Restart /\ ~ dirty => \A k \in Key \ unsaved : Agree(black, black', k)]_vars
  <2> SUFFICES ASSUME TypeOK, SaveInv, Restart, ~ dirty
               PROVE  \A k \in Key \ unsaved : Agree(black, black', k)
    OBVIOUS
  <2>1. pc # "write"
    BY DEF SaveInv, Saving
  <2>2. black' = file
    BY <2>1 DEF Restart
  <2>3. QED BY <2>2 DEF SaveInv, Agree
<1>3. QED
  BY <1>1, <1>2, AbuseTypeOK, StepSaveInv, PTL DEF Spec, RestartKeepsList
=============================================================================
