--------------------------- MODULE LockFileProofs ---------------------------
(***************************************************************************)
(* A script that is started while no other start is on its way holds its   *)
(* lock alone, for any number of starts, kills and other programs; one     *)
(* that never removes a stale lock (single_run_lock) always does.          *)
(***************************************************************************)
EXTENDS LockFile, TLAPS

\* Until starts cross, the lock at the path belongs to whoever holds it or is
\* about to, and a script that decides on a lock still sees its holder there.
Clear ==
  /\ \A p \in Procs : Holding(p) => file = [by |-> p, pid |-> pid[p]]
  /\ \A p \in Procs : pc[p] = "write" => file = [by |-> p, pid |-> Null]
  /\ Reclaims => \A p, q \in Procs : Starting(p) /\ Starting(q) => p = q
  /\ \A p, q \in Procs : pc[p] = "check" /\ Holding(q) => saw[p] = pid[q]
  /\ \A p, q \in Procs : pc[p] = "unlink" => ~Holding(q)

LockInv ==
  /\ TypeOK
  /\ crossed => Reclaims
  /\ \A p \in Procs : pc[p] \in {"read", "check", "unlink"} => Reclaims
  /\ ~crossed => Clear

LEMMA HolderIsAlone == LockInv => MutualExclusion
  BY LockConstantsOK DEF LockInv, Clear, MutualExclusion, RunsAlone

LEMMA FilesAreRecords ==
  \A p \in Procs, x \in Pids \cup {Null} :
    [by |-> p, pid |-> x] \in File /\ [by |-> p, pid |-> x] # Null
  BY LockConstantsOK DEF File, Pids

LEMMA InitLock == Init => LockInv
  <1> SUFFICES ASSUME Init PROVE LockInv
    OBVIOUS
  <1>1. TypeOK
    <2>1. MaxKills \in Nat /\ MaxStrays \in Nat /\ 0 \in Pids /\ script \in {"worker", "scheduler"}
      BY LockConstantsOK DEF Init, Pids
    <2>2. crossed \in BOOLEAN
      BY DEF Init
    <2>3. 0 \in 0 .. MaxKills /\ 0 \in 0 .. MaxStrays
      BY <2>1
    <2>4. QED
      BY <2>1, <2>2, <2>3 DEF Init, TypeOK, Places
  <1>2. \A p \in Procs : pc[p] = "down"
    BY DEF Init
  <1>3. crossed = FALSE
    BY DEF Init
  <1>4. QED
    BY <1>1, <1>2, <1>3 DEF LockInv, Clear, Starting, Holding

LEMMA LockInvariance == LockInv /\ [Next]_vars => LockInv'
  <1> SUFFICES ASSUME LockInv, [Next]_vars PROVE LockInv'
    OBVIOUS
  <1> USE DEF LockInv
  <1>1. ASSUME NEW p \in Procs, Start(p) PROVE LockInv'
    <2>1. TypeOK'
      BY <1>1, LockConstantsOK DEF Start, BesideTheService, Goto, TypeOK, Places
    <2>2. (crossed => Reclaims)' /\ (\A q \in Procs : pc[q] \in {"read", "check", "unlink"} => Reclaims)'
      BY <1>1 DEF Start, Goto, TypeOK, Reclaims
    <2>3. ASSUME ~crossed' PROVE Clear'
      <3>1. CASE \A q \in Procs : pc[q] = "down"
        BY <1>1, <3>1 DEF Start, Goto, TypeOK, Clear, Starting, Holding, Reclaims
      <3>2. CASE ~crossed /\ (Reclaims => \A q \in Procs : ~Starting(q))
        BY <1>1, <3>2 DEF Start, Goto, TypeOK, Clear, Starting, Holding, Reclaims
      <3>3. QED
        BY <1>1, <2>3, <3>1, <3>2 DEF Start
    <2>4. QED
      BY <2>1, <2>2, <2>3
  <1>2. ASSUME NEW p \in Procs, Create(p) PROVE LockInv'
    <2>1. TypeOK'
      BY <1>2, FilesAreRecords DEF Create, Goto, TypeOK, Places
    <2>2. ~crossed => \A q \in Procs : ~Holding(q) /\ pc[q] # "write"
      BY <1>2, FilesAreRecords DEF Create, MayCreate, Clear, TypeOK
    <2>3. QED
      BY <1>2, <2>1, <2>2 DEF Create, Goto, TypeOK, Clear, Reclaims, Starting, Holding
  <1>3. ASSUME NEW p \in Procs, Exists(p) PROVE LockInv'
    BY <1>3 DEF Exists, AfterExists, Goto, TypeOK, Clear, Reclaims, Starting, Holding, Places
  <1>4. ASSUME NEW p \in Procs, WritePid(p) PROVE LockInv'
    <2>1. TypeOK'
      BY <1>4, FilesAreRecords DEF WritePid, Goto, TypeOK, Places
    <2>2. ASSUME ~crossed PROVE Clear'
      <3>1. file = [by |-> p, pid |-> Null] /\ file # Null /\ pid[p] \in Pids
        BY <1>4, <2>2, FilesAreRecords DEF WritePid, Clear, TypeOK
      <3>2. file' = [by |-> p, pid |-> pid[p]]
        BY <1>4, <3>1 DEF WritePid
      <3>3. \A q \in Procs \ {p} : ~Holding(q) /\ pc[q] # "write"
        BY <2>2, <3>1 DEF Clear
      <3>4. \A q \in Procs : pc[q] \notin {"check", "unlink"}
        BY <1>4, <2>2 DEF WritePid, Clear, Starting
      <3>5. QED
        BY <1>4, <2>2, <3>2, <3>3, <3>4
           DEF WritePid, Goto, TypeOK, Clear, Reclaims, Starting, Holding
    <2>3. QED
      BY <1>4, <2>1, <2>2 DEF WritePid, Goto, TypeOK, Reclaims
  <1>5. ASSUME NEW p \in Procs, Read(p) PROVE LockInv'
    <2>1. PidIn(file) \in Pids \cup {Null}
      BY DEF TypeOK, File, PidIn
    <2>2. TypeOK'
      BY <1>5, <2>1 DEF Read, Goto, TypeOK, Places
    <2>3. ~crossed => \A q \in Procs : Holding(q) => PidIn(file) = pid[q] /\ pid[q] # Null
      BY FilesAreRecords, LockConstantsOK DEF Clear, TypeOK, PidIn, Pids
    <2>4. QED
      BY <1>5, <2>2, <2>3 DEF Read, Goto, TypeOK, Clear, Reclaims, Starting, Holding
  <1>6. ASSUME NEW p \in Procs, Check(p) PROVE LockInv'
    <2>1. TypeOK'
      BY <1>6 DEF Check, AfterCheck, Goto, TypeOK, Places
    <2>2. ~crossed /\ AfterCheck(saw[p]) = "unlink" => \A q \in Procs : ~Holding(q)
      BY <1>6 DEF Check, AfterCheck, IsAlive, Clear, Holding
    <2>3. AfterCheck(saw[p]) \in {"down", "unlink"}
      BY DEF AfterCheck
    <2>4. QED
      BY <1>6, <2>1, <2>2, <2>3 DEF Check, Goto, TypeOK, Clear, Reclaims, Starting, Holding
  <1>7. ASSUME NEW p \in Procs, Unlink(p) PROVE LockInv'
    BY <1>7 DEF Unlink, Goto, TypeOK, Clear, Reclaims, Starting, Holding, Places
  <1>8. ASSUME NEW p \in Procs, Drop(p) PROVE LockInv'
    BY <1>8 DEF Drop, Goto, TypeOK, Clear, Reclaims, Starting, Holding, Places
  <1>9. ASSUME NEW p \in Procs, Kill(p) PROVE LockInv'
    BY <1>9, LockConstantsOK DEF Kill, Goto, TypeOK, Clear, Reclaims, Starting, Holding, Places
  <1>10. ASSUME OtherStarts \/ OtherEnds PROVE LockInv'
    BY <1>10, LockConstantsOK
       DEF OtherStarts, OtherEnds, BesideTheService, TypeOK, Clear, Reclaims, Starting, Holding
  <1>11. CASE UNCHANGED vars
    BY <1>11 DEF vars, TypeOK, Clear, Reclaims, Starting, Holding
  <1>12. QED
    BY <1>1, <1>2, <1>3, <1>4, <1>5, <1>6, <1>7, <1>8, <1>9, <1>10, <1>11 DEF Next, Acquire

LEMMA LockInvariant == Spec => []LockInv
  BY InitLock, LockInvariance, PTL DEF Spec

\* Two scheduled runs never run at once, and two workers only after their
\* starts have crossed, until all of them have ended: for any number of
\* processes and kills, and whoever else gets their pids.
THEOREM LockExcludes == Spec => []MutualExclusion
  BY LockInvariant, HolderIsAlone, PTL

\* Under the same condition whoever runs has its own lock, with its pid, at the
\* path: nobody removes the lock of a script that runs.
THEOREM HoldersOwnTheirLock == Spec => []HolderOwnsLock
  <1>1. LockInv => HolderOwnsLock
    BY DEF LockInv, Clear, HolderOwnsLock
  <1>2. QED
    BY <1>1, LockInvariant, PTL

\* single_run_lock never lets two runs be up, whatever happens.
THEOREM RunLockExcludes ==
  ASSUME Scripts \subseteq {"scheduler"} PROVE Spec => []RunsAlone
  <1>1. Init => script \in Scripts
    BY DEF Init
  <1>2. script \in Scripts /\ [Next]_vars => (script \in Scripts)'
    BY DEF Next, Acquire, Start, OtherStarts, OtherEnds, Create, Exists, WritePid, Read,
           Check, Unlink, Drop, Kill, vars
  <1>3. script \in Scripts /\ LockInv => RunsAlone
    BY HolderIsAlone DEF LockInv, Reclaims, MutualExclusion
  <1>4. QED
    BY <1>1, <1>2, <1>3, LockInvariant, PTL DEF Spec

\* The lock and the processes keep their shape.
THEOREM LockTypes == Spec => []TypeOK
  <1>1. LockInv => TypeOK
    BY DEF LockInv
  <1>2. QED
    BY <1>1, LockInvariant, PTL
=============================================================================
