------------------------------ MODULE Schedule ------------------------------
(***************************************************************************)
(* The clients of the job queue: the daily timer that posts a              *)
(* consolidation (scripts/scheduled_consolidate.py, mode enqueue) and the  *)
(* worker that asks for jobs to be run (scripts/governance_worker.py).     *)
(* Both are processes of their own: they wait for an answer of the API     *)
(* process, and when they give up the handler they called goes on.         *)
(***************************************************************************)
EXTENDS GovernanceJobs

CONSTANTS
  MaxTries,   \* how often a scheduled run posts: MEMORY_CONSOLIDATE_ATTEMPTS
  MaxRuns,    \* bound: scheduled runs
  MaxFaults   \* bound: clients that give up or are killed

ASSUME ScheduleConstantsOK ==
  /\ Keys = 1 .. MaxRuns  \* a bucket of the clock makes an idempotency key
  /\ MaxTries \in Nat \ {0}
  /\ MaxFaults \in Nat

VARIABLES
  sched,     \* the scheduled run
  stale,     \* did a killed run leave its lock file?
  runs,      \* runs the timer has started (bounded by MaxRuns)
  bucket,    \* the bucket of the latest run
  worker,    \* the worker process
  asked,     \* history: buckets for which a run began
  missed,    \* history: buckets of which some run failed
  gaveUp,    \* history: the worker left a handler behind
  faults     \* failures so far (bounded by MaxFaults)

clients == <<sched, worker>>
svars == <<vars, sched, stale, runs, bucket, worker, asked, missed, gaveUp, faults>>

-----------------------------------------------------------------------------
Sched == [pc : {"off", "post", "sent"}, on : Executors \cup {Null}, tries : 0 .. MaxTries]
Worker == [pc : {"down", "polling", "waiting"}, on : Executors \cup {Null}]

SchedOff == [pc |-> "off", on |-> Null, tries |-> 0]
WorkerAt(pc) == [pc |-> pc, on |-> Null]

InitSchedule ==
  /\ Init
  /\ sched = SchedOff
  /\ stale = FALSE
  /\ runs = 0
  /\ bucket = 0
  /\ worker = WorkerAt("down")
  /\ asked = {}
  /\ missed = {}
  /\ gaveUp = FALSE
  /\ faults = 0

-----------------------------------------------------------------------------
(* The scheduled run *)

\* The timer fires, a day later or to catch up, perhaps within the same bucket.
\* A lock file that is left over makes the run skip.
TimerFires ==
  /\ sched.pc = "off"
  /\ runs < MaxRuns
  /\ runs' = runs + 1
  /\ bucket' \in ({bucket, bucket + 1} \cap Keys)
  /\ asked' = asked \cup {bucket'}
  /\ IF stale
       THEN missed' = missed \cup {bucket'} /\ UNCHANGED sched
       ELSE /\ sched' = [pc |-> "post", on |-> Null, tries |-> MaxTries]
            /\ UNCHANGED missed
  /\ UNCHANGED <<vars, stale, worker, gaveUp, faults>>

\* run_consolidation posts: a job with the key is the answer, whatever became of
\* it, or the handler goes on to insert one.
SchedPost(e) ==
  /\ sched.pc = "post"
  /\ exec[e].pc = "idle"
  /\ IF RowsWithKey(bucket) # {}
       THEN sched' = SchedOff /\ UNCHANGED vars
       ELSE /\ \E n \in Requested : FindNothing(e, bucket, n, FALSE)
            /\ sched' = [sched EXCEPT !.pc = "sent", !.on = e]
  /\ UNCHANGED <<stale, runs, bucket, worker, asked, missed, gaveUp, faults>>

\* An answer other than 200 is retried with the same body; the last one ends
\* the run with an error.
AfterErrorMutant == SchedOff
AfterError ==
  IF sched.tries > 1
    THEN [pc |-> "post", on |-> Null, tries |-> sched.tries - 1]
    ELSE SchedOff

\* Ends the run without an answer.
RunFails ==
  /\ sched' = SchedOff
  /\ missed' = missed \cup {bucket}

\* The run times out, or is killed and leaves its lock file.
SchedGivesUp ==
  /\ sched.pc # "off"
  /\ faults < MaxFaults
  /\ faults' = faults + 1
  /\ stale' \in {stale, TRUE}
  /\ RunFails
  /\ UNCHANGED <<vars, runs, bucket, worker, asked, gaveUp>>

-----------------------------------------------------------------------------
(* The worker *)

\* Restart=always
WorkerStarts ==
  /\ worker.pc = "down"
  /\ worker' = WorkerAt("polling")
  /\ UNCHANGED <<vars, sched, stale, runs, bucket, asked, missed, gaveUp, faults>>

\* run_once: the worker waits until the job it was given is done.
AfterPollMutant(e) == WorkerAt("polling")
AfterPoll(e) == [pc |-> "waiting", on |-> e]

WorkerPolls(e) ==
  /\ worker.pc = "polling"
  /\ Poll(e)
  /\ worker' = AfterPoll(e)
  /\ UNCHANGED <<sched, stale, runs, bucket, asked, missed, gaveUp, faults>>

\* The client's timeout ends before the handler does: main returns 1.
WorkerGivesUp ==
  /\ worker.pc = "waiting"
  /\ faults < MaxFaults
  /\ faults' = faults + 1
  /\ gaveUp' = TRUE
  /\ worker' = WorkerAt("down")
  /\ UNCHANGED <<vars, sched, stale, runs, bucket, asked, missed>>

-----------------------------------------------------------------------------
(* The API process *)

\* The scheduled run hears of its handler's end: a 200 when the job is in, unless
\* the audit entry after the INSERT fails, which is a 500 like any other.
SchedHears(e) ==
  IF sched.on = e /\ exec'[e].pc = "idle"
    THEN \/ jobs' # jobs /\ sched' = SchedOff /\ UNCHANGED missed
         \/ /\ sched' = AfterError
            /\ missed' = IF sched.tries > 1 THEN missed ELSE missed \cup {bucket}
    ELSE UNCHANGED <<sched, missed>>

\* The worker hears of it: it polls again, or exits after an error.
WorkerHears(e) ==
  IF worker.on = e /\ exec'[e].pc = "idle"
    THEN worker' \in {WorkerAt("polling"), WorkerAt("down")}
    ELSE UNCHANGED worker

HandlerSteps(e) ==
  /\ Proceed(e)
  /\ SchedHears(e)
  /\ WorkerHears(e)
  /\ UNCHANGED <<stale, runs, bucket, asked, gaveUp, faults>>

\* The process dies: whoever waits for an answer gets an exception.
ApiCrashes ==
  /\ Crash
  /\ worker' = IF worker.pc = "waiting" THEN WorkerAt("down") ELSE worker
  /\ IF sched.pc = "sent" THEN RunFails ELSE UNCHANGED <<sched, missed>>
  /\ UNCHANGED <<stale, runs, bucket, asked, gaveUp, faults>>

TimePasses ==
  /\ Tick
  /\ UNCHANGED <<clients, stale, runs, bucket, asked, missed, gaveUp, faults>>

NextSchedule ==
  \/ TimerFires
  \/ \E e \in Executors : SchedPost(e) \/ WorkerPolls(e) \/ HandlerSteps(e)
  \/ SchedGivesUp
  \/ WorkerStarts
  \/ WorkerGivesUp
  \/ ApiCrashes
  \/ TimePasses

ScheduleSpec == InitSchedule /\ [][NextSchedule]_svars

\* Handlers and the clients' processes are scheduled, time passes, a request
\* that can be served again and again is served.  The timer owes nothing.
ScheduleFairness ==
  /\ \A e \in Executors : WF_svars(HandlerSteps(e))
  /\ SF_svars(\E e \in Executors : SchedPost(e))
  /\ SF_svars(\E e \in Executors : WorkerPolls(e))
  /\ WF_svars(WorkerStarts)
  /\ WF_svars(TimePasses)

FairSchedule == ScheduleSpec /\ ScheduleFairness

-----------------------------------------------------------------------------
(* Properties *)

\* One worker means one consolidation at a time, as long as it waits for the job
\* it was given: neither crashes nor executions that outlive their lease make two
\* run side by side.
OneAtATime ==
  ~gaveUp => Cardinality({e \in Executors : Executing(e)}) <= 1

\* Every job the queue accepted is completed or given up in the end, and stays so,
\* whatever crashes or gives up (finitely often) and however late an execution
\* is: the worker comes back and asks again.
JobsSettle ==
  <>[](\A j \in Jobs : jobs[j].status \notin {"pending", "running"})

\* A run of the timer that did not fail has its consolidation: the job of its
\* bucket is completed or given up in the end, whether the run itself, a retry
\* after a lost answer, or an earlier run put it in.
RunIsConsolidated ==
  <>[](\A k \in asked :
         \/ k \in missed
         \/ \E j \in RowsWithKey(k) : jobs[j].status \in {"completed", "failed"})
=============================================================================
