------------------------------ MODULE JobQueue ------------------------------
(***************************************************************************)
(* What the governance job queue promises, without leases, clocks or       *)
(* requests: a job that was submitted is worked on by one executor at a    *)
(* time; only a job nobody holds is started; the holder completes it,      *)
(* gives it back or gives it up; an executor may vanish and its job is     *)
(* then started again; an outcome is final.                                *)
(***************************************************************************)
CONSTANTS Jobs, Executors, Null

VARIABLES
  phase,   \* phase[j]: absent, pending, running, completed or failed
  holder   \* holder[j]: the executor that works on j, or Null

vars == <<phase, holder>>

Init ==
  /\ phase = [j \in Jobs |-> "absent"]
  /\ holder = [j \in Jobs |-> Null]

Become(j, status, e) ==
  /\ phase' = [phase EXCEPT ![j] = status]
  /\ holder' = [holder EXCEPT ![j] = e]

Submit(j) == phase[j] = "absent" /\ Become(j, "pending", Null)

Start(j, e) ==
  /\ phase[j] \in {"pending", "running"}
  /\ holder[j] = Null
  /\ \A k \in Jobs : holder[k] # e
  /\ Become(j, "running", e)

End(j, status) ==
  /\ phase[j] = "running"
  /\ holder[j] # Null
  /\ Become(j, status, Null)

Complete(j) == End(j, "completed")
GiveBack(j) == End(j, "pending")
GiveUp(j) == End(j, "failed")

\* Some executors die: one whose last write failed, or all with the process.
Vanish ==
  /\ \E dead \in SUBSET Executors :
       holder' = [j \in Jobs |-> IF holder[j] \in dead THEN Null ELSE holder[j]]
  /\ UNCHANGED phase

Next ==
  \/ \E j \in Jobs :
       \/ Submit(j)
       \/ \E e \in Executors : Start(j, e)
       \/ Complete(j)
       \/ GiveBack(j)
       \/ GiveUp(j)
  \/ Vanish

Spec == Init /\ [][Next]_vars
=============================================================================
