------------------------------ MODULE LockFile ------------------------------
(***************************************************************************)
(* The lock files that keep two copies of a script from running at once:   *)
(* single_worker_lock (scripts/governance_worker.py), which removes a lock *)
(* whose process is gone, and single_run_lock                              *)
(* (scripts/scheduled_consolidate.py), which never does.                   *)
(*                                                                         *)
(* One step is one system call on the path.  A process that has created    *)
(* the file writes its pid through the descriptor it got: when the path    *)
(* was unlinked meanwhile, the pid goes to a file nobody sees.             *)
(***************************************************************************)
EXTENDS Integers

CONSTANTS
  Procs,       \* starts of the script that may overlap
  Service,     \* the one the system restarts; a shell starts the others
  PidCount,    \* process ids run from 0 to PidCount - 1 and wrap around
  Null,
  Scripts,     \* the scripts considered: "worker", "scheduler"
  MaxKills,    \* bound: processes killed
  MaxStrays    \* bound: workers and other programs started beside the service

ASSUME LockConstantsOK ==
  /\ PidCount \in Nat \ {0}
  /\ Null \notin Nat
  /\ Null \notin [by : Procs, pid : Nat \cup {Null}]
  /\ Scripts \subseteq {"worker", "scheduler"}
  /\ Service \in Procs
  /\ {MaxKills, MaxStrays} \subseteq Nat

Pids == 0 .. PidCount - 1

VARIABLES
  script,   \* the script the lock belongs to; never changes
  file,     \* what is at the path: its creator and its content, or Null
  pc,       \* where each process stands
  pid,      \* its process id
  saw,      \* the pid it read in the lock
  others,   \* the pids of the processes of other programs and users
  lastPid,  \* the pid the system gave out last
  crossed,  \* history: two workers were on their way to the lock at a time,
            \* since no copy of the script was up
  strays,   \* started beside the service so far (bounded by MaxStrays)
  kills     \* killed so far (bounded by MaxKills)

vars == <<script, file, pc, pid, saw, others, lastPid, crossed, strays, kills>>

File == [by : Procs, pid : Pids \cup {Null}]

Places == {"down", "open", "write", "read", "check", "unlink", "hold"}

\* Does the script remove stale locks?
Reclaims == script = "worker"

Starting(p) == pc[p] \notin {"down", "hold"}
Holding(p) == pc[p] = "hold"

\* os.kill(x, 0): any process of the host counts; one that may not be
\* signalled (PermissionError) is alive as well.
IsAlive(x) == x \in others \/ \E q \in Procs : pc[q] # "down" /\ pid[q] = x

Goto(p, place) == pc' = [pc EXCEPT ![p] = place]

Init ==
  /\ script \in Scripts
  /\ file = Null
  /\ pc = [p \in Procs |-> "down"]
  /\ pid = [p \in Procs |-> 0]
  /\ saw = [p \in Procs |-> Null]
  /\ others = {}
  /\ lastPid = 0
  /\ crossed = FALSE
  /\ strays = 0
  /\ kills = 0

-----------------------------------------------------------------------------

\* The system starts the script under the next free pid.
Ahead(x) == (x + PidCount - lastPid - 1) % PidCount

IsNextPid(x) ==
  /\ ~IsAlive(x)
  /\ \A y \in Pids : Ahead(y) < Ahead(x) => IsAlive(y)

BesideTheService == strays < MaxStrays /\ strays' = strays + 1

Start(p) ==
  /\ pc[p] = "down"
  /\ IF Reclaims /\ p # Service THEN BesideTheService ELSE strays' = strays
  /\ \E x \in Pids :
       /\ IsNextPid(x)
       /\ pid' = [pid EXCEPT ![p] = x]
       /\ lastPid' = x
  /\ crossed' = /\ \E q \in Procs : pc[q] # "down"
                /\ crossed \/ (Reclaims /\ \E q \in Procs : Starting(q))
  /\ Goto(p, "open")
  /\ UNCHANGED <<script, file, saw, others, kills>>

\* Processes of other programs come under the next free pid, and go.
OtherStarts ==
  /\ BesideTheService
  /\ \E x \in Pids :
       /\ IsNextPid(x)
       /\ others' = others \cup {x}
       /\ lastPid' = x
  /\ UNCHANGED <<script, file, pc, pid, saw, crossed, kills>>

OtherEnds ==
  /\ \E x \in others : others' = others \ {x}
  /\ UNCHANGED <<script, file, pc, pid, saw, lastPid, crossed, strays, kills>>

\* open(O_CREAT | O_EXCL) creates the lock, still empty.
MayCreate == file = Null

Create(p) ==
  /\ pc[p] = "open"
  /\ MayCreate
  /\ file' = [by |-> p, pid |-> Null]
  /\ Goto(p, "write")
  /\ UNCHANGED <<script, pid, saw, others, lastPid, crossed, strays, kills>>

\* EEXIST: single_run_lock gives up, single_worker_lock looks into the lock.
AfterExists == IF Reclaims THEN "read" ELSE "down"

Exists(p) ==
  /\ pc[p] = "open"
  /\ file # Null
  /\ Goto(p, AfterExists)
  /\ UNCHANGED <<script, file, pid, saw, others, lastPid, crossed, strays, kills>>

WritePid(p) ==
  /\ pc[p] = "write"
  /\ file' = IF file # Null /\ file.by = p THEN [by |-> p, pid |-> pid[p]] ELSE file
  /\ Goto(p, "hold")
  /\ UNCHANGED <<script, pid, saw, others, lastPid, crossed, strays, kills>>

\* A lock that has vanished or is empty names no process and counts as stale.
PidIn(f) == IF f = Null THEN Null ELSE f.pid

Read(p) ==
  /\ pc[p] = "read"
  /\ saw' = [saw EXCEPT ![p] = PidIn(file)]
  /\ Goto(p, IF PidIn(file) = Null THEN "unlink" ELSE "check")
  /\ UNCHANGED <<script, file, pid, others, lastPid, crossed, strays, kills>>

\* The process in the lock is alive: the script reports a skip and ends.
AlwaysStaleMutant(x) == "unlink"
NeverStaleMutant(x) == "down"
AfterCheck(x) == IF IsAlive(x) THEN "down" ELSE "unlink"

Check(p) ==
  /\ pc[p] = "check"
  /\ Goto(p, AfterCheck(saw[p]))
  /\ saw' = [saw EXCEPT ![p] = Null]
  /\ UNCHANGED <<script, file, pid, others, lastPid, crossed, strays, kills>>

\* The stale lock is removed, whatever is at the path by now.
Unlink(p) ==
  /\ pc[p] = "unlink"
  /\ file' = Null
  /\ Goto(p, "open")
  /\ UNCHANGED <<script, pid, saw, others, lastPid, crossed, strays, kills>>

\* The script ends (once, or a poll failed) and unlinks the path.
Drop(p) ==
  /\ Holding(p)
  /\ file' = Null
  /\ Goto(p, "down")
  /\ UNCHANGED <<script, pid, saw, others, lastPid, crossed, strays, kills>>

\* SIGKILL or SIGTERM: no finally block runs and the lock stays.
Kill(p) ==
  /\ pc[p] # "down"
  /\ kills < MaxKills
  /\ kills' = kills + 1
  /\ Goto(p, "down")
  /\ saw' = [saw EXCEPT ![p] = Null]
  /\ UNCHANGED <<script, file, pid, others, lastPid, crossed, strays>>

\* What a process does next on its way to the lock.
Acquire(p) ==
  Create(p) \/ Exists(p) \/ WritePid(p) \/ Read(p) \/ Check(p) \/ Unlink(p)

Next ==
  \/ \E p \in Procs : Start(p) \/ Acquire(p) \/ Drop(p) \/ Kill(p)
  \/ OtherStarts \/ OtherEnds

Spec == Init /\ [][Next]_vars

\* A process that was started goes on, and the service is restarted whenever
\* it ends (Restart=always).  A script may run for ever, and so may any other
\* program: Drop and OtherEnds are not fair.
Fairness == WF_vars(Start(Service)) /\ \A p \in Procs : WF_vars(Acquire(p))

FairSpec == Spec /\ Fairness

-----------------------------------------------------------------------------
(* Properties *)

\* The lock and the processes have the shape the code gives them.
TypeOK ==
  /\ script \in {"worker", "scheduler"}
  /\ file \in File \cup {Null}
  /\ pc \in [Procs -> Places]
  /\ pid \in [Procs -> Pids]
  /\ saw \in [Procs -> Pids \cup {Null}]
  /\ others \subseteq Pids
  /\ lastPid \in Pids
  /\ crossed \in BOOLEAN
  /\ strays \in 0 .. MaxStrays
  /\ kills \in 0 .. MaxKills

\* "run_once should not be called while lock is held"
\* (tests/test_governance_worker.py:121): no two copies of a script run at once.
\* Two workers that start together break this: one reads the other's lock
\* before its pid is in it, or removes the lock the other has just created.
RunsAlone == \A p, q \in Procs : Holding(p) /\ Holding(q) => p = q

\* Two scheduled runs never run at once, however they are started and killed;
\* two workers only when their starts have crossed, and again not once all of
\* them have ended, whatever lock they leave.
MutualExclusion == ~crossed => RunsAlone

\* Under the same condition a running script's own lock, with its pid, is at
\* the path, so that the next start finds it and skips.
HolderOwnsLock ==
  ~crossed => \A p \in Procs : Holding(p) => file = [by |-> p, pid |-> pid[p]]

\* The lock at the path names a process of another program: a killed worker's
\* pid that was given out again.
NamesOther == file # Null /\ file.pid \in others

\* However workers were started and killed, a worker runs again and again,
\* unless a process of another program, which may never end, has got the pid of
\* a killed worker: no lock is left that keeps workers out otherwise, also where
\* starts have crossed, and with a pid that the reader itself has got.
WorkerComesBack == Reclaims => []<>(NamesOther \/ \E p \in Procs : Holding(p))
=============================================================================
