----------------------------- MODULE AntiAbuse -----------------------------
(***************************************************************************)
(* Flood detection and the black lists of the signalling server, and the   *)
(* file that keeps the lists over a restart (AntiAbuse.cpp, with its       *)
(* callers in NatServer.cpp and RecvProcess.cpp).                          *)
(*                                                                         *)
(* The receiving threads count packets and ban, the worker threads serve   *)
(* the administrator and read the lists, and the timer thread sweeps and   *)
(* saves.  Every method of AntiAbuse is one critical section of mu_ but    *)
(* save(), which takes mu_ for a snapshot, writes the file without it, and *)
(* whose caller clears dirty_ afterwards: four steps of the timer thread.  *)
(*                                                                         *)
(* Abstractions.  ip_black_ and uuid_black_ are one function; an expiry    *)
(* time is the number of seconds left, in memory and in the file alike.    *)
(* The file is its entries; encryption changes none of them, but it may    *)
(* fail.  A process that is killed between two steps starts again and      *)
(* loads the file.  The server has a BlacklistFile: without one (path_ is  *)
(* empty) load and save return at once and nothing outlives the process.   *)
(***************************************************************************)
EXTENDS Integers

CONSTANTS
    Ip,               \* the addresses that send packets
    Uuid,             \* the uuids the administrator lists
    flood_threshold,  \* flood_threshold_
    blacklist_sec,    \* blacklist_sec_
    DiskErrors,       \* which of "open", "encrypt" and "write" may fail
    MaxCrash          \* bound: how often the process is killed

ASSUME DisjointAssumption == Ip \cap Uuid = {}
ASSUME LimitAssumption ==
    flood_threshold \in Nat /\ blacklist_sec \in Nat /\ MaxCrash \in Nat
ASSUME DiskAssumption == DiskErrors \subseteq {"open", "encrypt", "write"}

Key == Ip \cup Uuid

Lapsed == -1     \* an entry whose time is over: now > expiry
Absent == -2     \* no entry
Left == Absent .. blacklist_sec

VARIABLES
    black,     \* ip_black_ and uuid_black_
    flood,     \* flood_[ip].size(): packets of the current second
    dirty,     \* dirty_
    file,      \* the black list file
    pc,        \* where timer_thread is
    snap,      \* plain: what save() is going to write
    unsaved,   \* history: keys the file may lack although dirty_ is clear
    crashes    \* history: restarts so far

listVars == <<black, flood, dirty>>
diskVars == <<file, pc, snap>>
vars == <<listVars, diskVars, unsaved, crashes>>

Empty == [k \in Key |-> Absent]

Init ==
    /\ black = Empty
    /\ flood = [i \in Ip |-> 0]
    /\ dirty = FALSE
    /\ file = Empty
    /\ pc = "sweep"
    /\ snap = Empty
    /\ unsaved = {}
    /\ crashes = 0

-----------------------------------------------------------------------------
(* The lists *)

\* Faulty variant of Changed: the entry changes and dirty_ stays as it was.
Changed_silently(k, left) ==
    /\ black' = [black EXCEPT ![k] = left]
    /\ UNCHANGED <<dirty, unsaved>>

\* An entry changes and dirty_ is set.  A change after the snapshot of a save
\* that is under way is not part of it, and reset_dirty will forget it.
Changed(k, left) ==
    /\ black' = [black EXCEPT ![k] = left]
    /\ dirty' = TRUE
    /\ unsaved' = IF pc \in {"open", "write", "reset"} THEN unsaved \cup {k} ELSE unsaved

\* is_ip_blacklisted / is_uuid_blacklisted: an entry that has lapsed goes.
is_blacklisted(k) ==
    /\ black[k] = Lapsed
    /\ Changed(k, Absent)
    /\ UNCHANGED <<flood, diskVars, crashes>>

\* check_flood, for an address that is_ip_blacklisted let pass: the packet
\* that exceeds the threshold bans the address.
check_flood(i) ==
    /\ black[i] = Absent
    /\ \/ /\ flood[i] + 1 > flood_threshold
          /\ flood' = [flood EXCEPT ![i] = 0]
          /\ Changed(i, blacklist_sec)
       \/ /\ flood[i] + 1 <= flood_threshold
          /\ flood' = [flood EXCEPT ![i] = @ + 1]
          /\ UNCHANGED <<black, dirty, unsaved>>
    /\ UNCHANGED <<diskVars, crashes>>

\* MSG_ADMIN_BLACKLIST_REQ with a right mac: blacklist_ip, blacklist_uuid.
blacklist(k) ==
    /\ Changed(k, blacklist_sec)
    /\ UNCHANGED <<flood, diskVars, crashes>>

\* unblacklist_ip, unblacklist_uuid, of a key that is listed.
unblacklist(k) ==
    /\ black[k] >= 0
    /\ Changed(k, Absent)
    /\ UNCHANGED <<flood, diskVars, crashes>>

-----------------------------------------------------------------------------
(* Time and timer_thread *)

Aged(left) == IF left >= 0 THEN left - 1 ELSE left

\* A second passes; the packets counted so far leave every window.
Elapse ==
    /\ black' = [k \in Key |-> Aged(black[k])]
    /\ file' = [k \in Key |-> Aged(file[k])]
    /\ snap' = [k \in Key |-> Aged(snap[k])]
    /\ flood' = [i \in Ip |-> 0]
    /\ pc' = IF pc = "sleep" THEN "sweep" ELSE pc
    /\ UNCHANGED <<dirty, unsaved, crashes>>

\* Faulty variant of Swept: compares the wrong way round.
Swept_swapped == {k \in Key : black[k] > 0}

Swept == {k \in Key : black[k] = Lapsed}

sweep ==
    /\ pc = "sweep"
    /\ black' = [k \in Key |-> IF k \in Swept THEN Absent ELSE black[k]]
    /\ dirty' = (dirty \/ Swept # {})
    /\ pc' = "check"
    /\ UNCHANGED <<flood, file, snap, unsaved, crashes>>

\* needs_save and the first critical section of save.
needs_save ==
    /\ pc = "check"
    /\ pc' = IF dirty THEN "snapshot" ELSE "sleep"
    /\ UNCHANGED <<listVars, file, snap, unsaved, crashes>>

\* The second one: the entries that still have time left.
save_snapshot ==
    /\ pc = "snapshot"
    /\ snap' = [k \in Key |-> IF black[k] > 0 THEN black[k] ELSE Absent]
    /\ unsaved' = {}
    /\ pc' = "open"
    /\ UNCHANGED <<listVars, file, crashes>>

\* fopen "wb" empties the file.
save_open ==
    /\ pc = "open"
    /\ file' = Empty
    /\ pc' = "write"
    /\ UNCHANGED <<listVars, snap, unsaved, crashes>>

\* fopen fails: save returns false and dirty_ stays.
save_open_fails ==
    /\ pc = "open"
    /\ "open" \in DiskErrors
    /\ snap' = Empty
    /\ pc' = "sleep"
    /\ UNCHANGED <<listVars, file, unsaved, crashes>>

\* aes256_cbc_encrypt fails: save returns false, dirty_ stays, and the file
\* that fopen emptied stays empty.
save_encrypt_fails ==
    /\ pc = "write"
    /\ "encrypt" \in DiskErrors
    /\ snap' = Empty
    /\ pc' = "sleep"
    /\ UNCHANGED <<listVars, file, unsaved, crashes>>

\* What reaches the disk of a write that is cut short.
Part(keys) == [k \in Key |-> IF k \in keys THEN snap[k] ELSE Absent]

\* Nobody looks at what fwrite and fclose return.
save_write ==
    /\ pc = "write"
    /\ \/ file' = snap /\ UNCHANGED unsaved
       \/ /\ "write" \in DiskErrors
          /\ \E keys \in SUBSET Key : file' = Part(keys)
          /\ unsaved' = Key
    /\ snap' = Empty
    /\ pc' = "reset"
    /\ UNCHANGED <<listVars, crashes>>

reset_dirty ==
    /\ pc = "reset"
    /\ dirty' = FALSE
    /\ pc' = "sleep"
    /\ UNCHANGED <<black, flood, file, snap, unsaved, crashes>>

\* The process is killed and started again: init calls load, which takes the
\* entries as they are, lapsed ones too, and sets dirty_ unless the file is
\* missing or empty (a file without entries still has its header line).
Restart ==
    /\ crashes < MaxCrash
    /\ crashes' = crashes + 1
    /\ IF pc = "write" THEN \E keys \in SUBSET Key : file' = Part(keys)
                       ELSE UNCHANGED file
    /\ black' = file'
    /\ dirty' \in IF file' = Empty THEN BOOLEAN ELSE {TRUE}
    /\ flood' = [i \in Ip |-> 0]
    /\ snap' = Empty
    /\ pc' = "sweep"
    /\ unsaved' = {}

timer_thread ==
    \/ sweep
    \/ needs_save
    \/ save_snapshot
    \/ save_open
    \/ save_open_fails
    \/ save_encrypt_fails
    \/ save_write
    \/ reset_dirty

Next ==
    \/ \E k \in Key : is_blacklisted(k) \/ blacklist(k) \/ unblacklist(k)
    \/ \E i \in Ip : check_flood(i)
    \/ Elapse
    \/ timer_thread
    \/ Restart

Spec == Init /\ [][Next]_vars

-----------------------------------------------------------------------------
(* Properties *)

TypeOK ==
    /\ black \in [Key -> Left]
    /\ flood \in [Ip -> 0 .. flood_threshold]
    /\ dirty \in BOOLEAN
    /\ file \in [Key -> Left]
    /\ pc \in {"sleep", "sweep", "check", "snapshot", "open", "write", "reset"}
    /\ snap \in [Key -> Left]
    /\ unsaved \subseteq Key
    /\ crashes \in 0 .. MaxCrash

\* Two lists agree on key k: a ban with time left is in both or in neither.
Agree(f, g, k) == f[k] > 0 \/ g[k] > 0 => f[k] = g[k]

\* With dirty_ clear a restart loses no ban and brings none back ("survives a
\* restart" in the comment on persistence and in the guide), except for the
\* keys that changed while a save was under way or whose write failed.
RestartKeepsList ==
    [][Restart /\ ~ dirty => \A k \in Key \ unsaved : Agree(black, black', k)]_vars

-----------------------------------------------------------------------------
(* Liveness: time passes, the timer thread runs, and neither opening the    *)
(* file nor encrypting the list fails for ever.                             *)

FairSpec ==
    /\ Spec
    /\ WF_vars(Elapse)
    /\ WF_vars(timer_thread)
    /\ SF_vars(save_open)
    /\ SF_vars(save_write)

\* An entry whose time is over goes, although nobody asks for it (sweep).
LapsedReclaimed == \A k \in Key : (black[k] = Lapsed) ~> (black[k] # Lapsed)

\* The file catches up with every ban and every pardon, however often opening
\* or encrypting fails and whatever else changes meanwhile; the two exceptions
\* are a key that changed after the snapshot of the last save, which
\* reset_dirty forgot, and a last save whose fwrite failed unnoticed.
ChangesReachFile == \A k \in Key : []<>(Agree(black, file, k) \/ k \in unsaved)
=============================================================================
