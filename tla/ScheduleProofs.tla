--------------------------- MODULE ScheduleProofs ---------------------------
(***************************************************************************)
(* The timer and the worker on the job queue: the queue they use is the    *)
(* one of GovernanceJobs, with all its theorems, and one worker means one  *)
(* consolidation at a time.  For any number of jobs, executors, scheduled  *)
(* runs, crashes and clients that give up, and also when executions        *)
(* outlive their lease.                                                    *)
(***************************************************************************)
EXTENDS Schedule, GovernanceJobsProofs

-----------------------------------------------------------------------------
(* Part 1: the queue below *)

\* A run that is on has the bucket of its time for a key, and only one that has
\* posted has an executor.
PostInv ==
  /\ sched.pc # "off" => bucket \in Keys
  /\ sched.on # Null => sched.pc = "sent"

\* Whatever a client does, the queue takes a step of its own or none.
LEMMA StepOfQueue == PostInv /\ [NextSchedule]_svars => [Next]_vars
  <1> SUFFICES ASSUME PostInv, [NextSchedule]_svars PROVE [Next]_vars
    OBVIOUS
  <1>1. ASSUME NEW e \in Executors, SchedPost(e) PROVE [Next]_vars
    <2>1. CASE UNCHANGED vars
      BY <2>1
    <2>2. CASE \E n \in Requested : FindNothing(e, bucket, n, FALSE)
      <3>1. bucket \in Keys \cup {Null} /\ FALSE \in BOOLEAN
        BY <1>1 DEF SchedPost, PostInv
      <3>2. Enqueue(e)
        BY <2>2, <3>1 DEF Enqueue
      <3>3. QED
        BY <3>2 DEF Next
    <2>3. QED
      BY <1>1, <2>1, <2>2 DEF SchedPost
  <1>2. ASSUME NEW e \in Executors, WorkerPolls(e) PROVE [Next]_vars
    BY <1>2 DEF WorkerPolls, Next
  <1>3. ASSUME NEW e \in Executors, HandlerSteps(e) PROVE [Next]_vars
    BY <1>3 DEF HandlerSteps, Next
  <1>4. CASE TimerFires \/ SchedGivesUp \/ WorkerStarts \/ WorkerGivesUp
    BY <1>4 DEF TimerFires, SchedGivesUp, WorkerStarts, WorkerGivesUp
  <1>5. CASE ApiCrashes
    BY <1>5 DEF ApiCrashes, Next
  <1>6. CASE TimePasses
    BY <1>6 DEF TimePasses, Next
  <1>7. CASE UNCHANGED svars
    BY <1>7 DEF svars
  <1>8. QED
    BY <1>1, <1>2, <1>3, <1>4, <1>5, <1>6, <1>7 DEF NextSchedule

LEMMA PostInvariance == PostInv /\ [NextSchedule]_svars => PostInv'
  <1> SUFFICES ASSUME PostInv, [NextSchedule]_svars PROVE PostInv'
    OBVIOUS
  <1>1. CASE TimerFires
    BY <1>1 DEF TimerFires, PostInv
  <1>2. ASSUME NEW e \in Executors, SchedPost(e) PROVE PostInv'
    <2>1. CASE sched' = SchedOff
      BY <2>1 DEF PostInv, SchedOff
    <2>2. CASE sched' = [sched EXCEPT !.pc = "sent", !.on = e]
      <3>1. bucket' = bucket /\ bucket \in Keys
        BY <1>2 DEF SchedPost, PostInv
      <3>2. sched'.on = sched.on \/ sched'.on = e
        BY <2>2
      <3>3. QED
        BY <1>2, <2>2, <3>1 DEF SchedPost, PostInv
    <2>3. QED
      BY <1>2, <2>1, <2>2 DEF SchedPost
  <1>3. ASSUME sched' \in {SchedOff, AfterError}, bucket' = bucket,
               sched.pc # "off"
        PROVE  PostInv'
    BY <1>3 DEF PostInv, SchedOff, AfterError
  <1>4. ASSUME UNCHANGED <<sched, bucket>> PROVE PostInv'
    BY <1>4 DEF PostInv
  <1>5. ASSUME NEW e \in Executors, HandlerSteps(e) PROVE PostInv'
    <2>1. CASE sched.on = e /\ exec'[e].pc = "idle"
      <3>1. sched.pc = "sent"
        BY <2>1, ConstantsOK DEF PostInv
      <3>2. QED
        BY <1>3, <1>5, <2>1, <3>1 DEF HandlerSteps, SchedHears
    <2>2. CASE ~(sched.on = e /\ exec'[e].pc = "idle")
      BY <1>4, <1>5, <2>2 DEF HandlerSteps, SchedHears
    <2>3. QED
      BY <2>1, <2>2
  <1>6. CASE SchedGivesUp
    BY <1>3, <1>6 DEF SchedGivesUp, RunFails
  <1>7. CASE ApiCrashes
    BY <1>3, <1>4, <1>7 DEF ApiCrashes, RunFails
  <1>8. ASSUME NEW e \in Executors, WorkerPolls(e) PROVE PostInv'
    BY <1>4, <1>8 DEF WorkerPolls
  <1>9. CASE WorkerStarts \/ WorkerGivesUp \/ TimePasses \/ UNCHANGED svars
    BY <1>4, <1>9 DEF WorkerStarts, WorkerGivesUp, TimePasses, clients, svars
  <1>10. QED
    BY <1>1, <1>2, <1>5, <1>6, <1>7, <1>8, <1>9 DEF NextSchedule

LEMMA InitPost == InitSchedule => Init /\ PostInv
  BY DEF InitSchedule, PostInv, SchedOff

\* The queue under the timer and the worker behaves as GovernanceJobs says, so
\* that every invariant proved of it holds of the composition.
THEOREM ScheduleUsesQueue == ScheduleSpec => Spec
  BY InitPost, PostInvariance, StepOfQueue, PTL DEF ScheduleSpec, Spec

-----------------------------------------------------------------------------
(* Part 2: one consolidation at a time *)

\* An executor that is on its way to an inline claim, or there.
Claims(e) == exec[e].pc = "claim" \/ (exec[e].pc = "insert" /\ exec[e].inline)

\* Nobody posts an inline request, so jobs are only claimed for the worker; and
\* until it gives up, it waits for the one executor that executes.
WaitInv ==
  /\ TypeOK
  /\ \A e \in Executors : ~Claims(e)
  /\ worker.on # Null => worker.pc = "waiting"
  /\ ~gaveUp => \A e \in Executors : Executing(e) => worker.on = e

LEMMA InitWait == InitSchedule => WaitInv
  <1> SUFFICES ASSUME InitSchedule PROVE WaitInv
    OBVIOUS
  <1>1. TypeOK /\ \A e \in Executors : exec[e].pc = "idle"
    BY InitTypes, IdleType DEF InitSchedule, Init
  <1>2. QED
    BY <1>1 DEF InitSchedule, WaitInv, WorkerAt, Claims, Executing

\* A handler that is not one of an inline request ends, or goes on to release.
LEMMA HandlerEnds ==
  ASSUME WaitInv, NEW e \in Executors, Proceed(e)
  PROVE  \/ exec' = [exec EXCEPT ![e] = IdleHandler]
         \/ /\ exec[e].pc \in {"run", "raised"} /\ exec'[e].pc \in {"raised", "release"}
            /\ \A f \in Executors \ {e} : exec'[f] = exec[f]
  <1>1. exec \in [Executors -> Handler]
    BY DEF WaitInv, TypeOK
  <1>2. exec[e].pc # "claim" /\ (exec[e].pc = "insert" => ~exec[e].inline)
    BY DEF WaitInv, Claims
  <1>3. Finish(e) => exec' = [exec EXCEPT ![e] = IdleHandler]
    BY DEF Finish, Goto
  <1>4. CASE BeginRelease(e)
    <2>1. exec' = [exec EXCEPT ![e] = Releasing(exec[e], jobs[exec[e].job].attempts)]
      BY <1>4 DEF BeginRelease, Goto
    <2>2. Releasing(exec[e], jobs[exec[e].job].attempts).pc = "release"
      BY <1>1 DEF Releasing, Handler
    <2>3. QED
      BY <1>1, <1>4, <2>1, <2>2 DEF BeginRelease
  <1>5. CASE Insert(e)
    BY <1>2, <1>3, <1>5 DEF Insert
  <1>6. CASE InsertConflicts(e) \/ RequestFails(e) \/ ClaimRefused(e) \/ FinalizeRead(e)
             \/ Release(e) \/ ReleaseFails(e)
    BY <1>3, <1>6 DEF InsertConflicts, RequestFails, ClaimRefused, FinalizeRead, Finalize, Release,
       ReleaseFails
  <1>7. CASE FinalizeUnread(e)
    BY <1>1, <1>7 DEF FinalizeUnread, Finalize, Goto, Handler
  <1>8. QED
    BY <1>2, <1>4, <1>5, <1>6, <1>7, FinalizeCases DEF Proceed, ClaimById

LEMMA WaitInvariance == PostInv /\ WaitInv /\ [NextSchedule]_svars => WaitInv'
  <1> SUFFICES ASSUME PostInv, WaitInv, [NextSchedule]_svars PROVE WaitInv'
    OBVIOUS
  <1>1. /\ TypeOK' /\ exec \in [Executors -> Handler] /\ Null \notin Executors
        /\ IdleHandler.pc = "idle"
    BY StepOfQueue, TypeInvariance, ConstantsOK, IdleType DEF WaitInv, TypeOK
  <1>2. ASSUME NEW e \in Executors, NEW h, exec' = [exec EXCEPT ![e] = h],
               h.pc \in {"idle", "insert"}, h.pc = "insert" => ~h.inline,
               UNCHANGED gaveUp,
               \/ worker' = worker
               \/ worker.on = e /\ worker' \in {WorkerAt("polling"), WorkerAt("down")}
        PROVE  WaitInv'
    <2>1. exec'[e] = h /\ \A f \in Executors \ {e} : exec'[f] = exec[f]
      BY <1>1, <1>2
    <2>2. \A f \in Executors : ~Claims(f)'
      BY <1>2, <2>1 DEF WaitInv, Claims
    <2>3. worker'.on # Null => worker'.pc = "waiting"
      BY <1>2 DEF WaitInv, WorkerAt
    <2>4. ASSUME ~gaveUp', NEW f \in Executors, Executing(f)' PROVE worker'.on = f
      <3>1. f # e /\ Executing(f)
        BY <1>2, <2>1, <2>4 DEF Executing
      <3>2. worker.on = f
        BY <1>2, <2>4, <3>1 DEF WaitInv
      <3>3. QED
        BY <1>2, <3>1, <3>2
    <2>5. QED
      BY <1>1, <2>2, <2>3, <2>4 DEF WaitInv
  <1>3. ASSUME exec' = exec, UNCHANGED <<worker, gaveUp>> PROVE WaitInv'
    BY <1>1, <1>3 DEF WaitInv, Claims, Executing
  <1>4. ASSUME NEW e \in Executors, SchedPost(e) PROVE WaitInv'
    <2>1. CASE UNCHANGED vars
      BY <1>3, <1>4, <2>1 DEF SchedPost, vars
    <2>2. ASSUME NEW n \in Requested, FindNothing(e, bucket, n, FALSE) PROVE WaitInv'
      <3> DEFINE h == Inserting(bucket, n, FALSE)
      <3>1. exec' = [exec EXCEPT ![e] = h]
        BY <2>2 DEF FindNothing, Goto
      <3>2. h.pc = "insert" /\ ~h.inline
        BY DEF Inserting, IdleHandler
      <3>3. UNCHANGED <<worker, gaveUp>>
        BY <1>4 DEF SchedPost
      <3> HIDE DEF h
      <3>4. QED
        BY <1>2, <3>1, <3>2, <3>3
    <2>3. QED
      BY <1>4, <2>1, <2>2 DEF SchedPost
  <1>5. ASSUME NEW e \in Executors, WorkerPolls(e) PROVE WaitInv'
    <2>1. PICK j \in Jobs, ttl \in Leases : exec' = [exec EXCEPT ![e] = Running(j, ttl)]
      BY <1>5 DEF WorkerPolls, Poll, ClaimNext, OldestClaimable, Present, Goto
    <2>2. /\ exec'[e] = Running(j, ttl) /\ Running(j, ttl).pc = "run"
          /\ \A f \in Executors \ {e} : exec'[f] = exec[f]
      BY <1>1, <2>1, RunningType
    <2>3. worker.on = Null /\ worker' = [pc |-> "waiting", on |-> e] /\ gaveUp' = gaveUp
      BY <1>5 DEF WorkerPolls, AfterPoll, WaitInv
    <2>4. ~gaveUp => \A f \in Executors : ~Executing(f)
      BY <1>1, <2>3 DEF WaitInv
    <2>5. \A f \in Executors : ~Claims(f)'
      BY <2>2 DEF WaitInv, Claims
    <2>6. ~gaveUp' => \A f \in Executors : Executing(f)' => worker'.on = f
      BY <2>2, <2>3, <2>4 DEF Executing
    <2>7. QED
      BY <1>1, <2>3, <2>5, <2>6 DEF WaitInv
  <1>6. ASSUME NEW e \in Executors, HandlerSteps(e) PROVE WaitInv'
    <2>1. gaveUp' = gaveUp
      BY <1>6 DEF HandlerSteps
    <2>2. CASE exec' = [exec EXCEPT ![e] = IdleHandler]
      <3>1. exec'[e].pc = "idle"
        BY <1>1, <2>2
      <3>2. \/ worker' = worker
            \/ worker.on = e /\ worker' \in {WorkerAt("polling"), WorkerAt("down")}
        BY <1>6, <3>1 DEF HandlerSteps, WorkerHears
      <3>3. QED
        BY <1>1, <1>2, <2>1, <2>2, <3>2
    <2>3. CASE /\ exec[e].pc \in {"run", "raised"} /\ exec'[e].pc \in {"raised", "release"}
               /\ \A f \in Executors \ {e} : exec'[f] = exec[f]
      <3>1. worker' = worker
        BY <1>6, <2>3 DEF HandlerSteps, WorkerHears
      <3>2. \A f \in Executors : ~Claims(f)' /\ (Executing(f)' => Executing(f))
        BY <2>3 DEF WaitInv, Claims, Executing
      <3>3. QED
        BY <1>1, <2>1, <3>1, <3>2 DEF WaitInv
    <2>4. QED
      BY <1>6, <2>2, <2>3, HandlerEnds DEF HandlerSteps
  <1>7. CASE ApiCrashes
    <2>1. \A e \in Executors : exec'[e].pc = "idle"
      BY <1>1, <1>7 DEF ApiCrashes, Crash
    <2>2. worker'.on # Null => worker'.pc = "waiting"
      BY <1>7 DEF ApiCrashes, WaitInv, WorkerAt
    <2>3. QED
      BY <1>1, <2>1, <2>2 DEF WaitInv, Claims, Executing
  <1>8. CASE TimePasses
    <2>1. \A e \in Executors : exec'[e].pc = exec[e].pc /\ exec'[e].inline = exec[e].inline
      BY <1>1, <1>8 DEF TimePasses, Tick, AgedHandler, Handler
    <2>2. UNCHANGED <<worker, gaveUp>>
      BY <1>8 DEF TimePasses, clients
    <2>3. QED
      BY <1>1, <2>1, <2>2 DEF WaitInv, Claims, Executing
  <1>9. CASE WorkerGivesUp
    BY <1>1, <1>9 DEF WorkerGivesUp, WorkerAt, vars, WaitInv, Claims, Executing
  <1>10. CASE WorkerStarts
    <2>1. worker.on = Null /\ worker'.on = Null /\ exec' = exec /\ gaveUp' = gaveUp
      BY <1>10 DEF WorkerStarts, WorkerAt, vars, WaitInv
    <2>2. QED
      BY <1>1, <2>1 DEF WaitInv, Claims, Executing
  <1>11. CASE TimerFires \/ SchedGivesUp \/ UNCHANGED svars
    BY <1>3, <1>11 DEF TimerFires, SchedGivesUp, svars, vars
  <1>12. QED
    BY <1>4, <1>5, <1>6, <1>7, <1>8, <1>9, <1>10, <1>11 DEF NextSchedule

\* As long as the worker has not given up on a handler, at most one executor
\* executes a job: a crash, a lease that runs out under an execution, or a
\* scheduled run that posts again cannot make it two.
THEOREM OneWorkerAtATime == ScheduleSpec => []OneAtATime
  <1>1. WaitInv => OneAtATime
    <2> SUFFICES ASSUME WaitInv, ~gaveUp
                 PROVE  Cardinality({e \in Executors : Executing(e)}) <= 1
      BY DEF OneAtATime
    <2> DEFINE S == {e \in Executors : Executing(e)}
    <2>1. S \subseteq {worker.on}
      BY DEF WaitInv
    <2>2. IsFiniteSet({worker.on}) /\ Cardinality({worker.on}) = 1
      BY FS_Singleton
    <2>3. QED
      BY <2>1, <2>2, FS_Subset
  <1>2. QED
    BY <1>1, InitPost, InitWait, PostInvariance, WaitInvariance, PTL DEF ScheduleSpec
=============================================================================
