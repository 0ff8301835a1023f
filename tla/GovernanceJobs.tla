--------------------------- MODULE GovernanceJobs ---------------------------
(***************************************************************************)
(* The governance job queue of the API process: the governance_jobs table  *)
(* (backend/governance_jobs.py), the two handlers that put work into it    *)
(* and take work out of it (backend/routers/governance.py) and the         *)
(* dispatcher that runs a claimed job (backend/services.py).               *)
(*                                                                         *)
(* Handlers are synchronous FastAPI endpoints, so each runs on a thread of *)
(* the server's pool, here an executor.  One step is one SQLite            *)
(* transaction, or one autocommitted SELECT whose answer a later statement *)
(* uses: other executors run in between.                                   *)
(*                                                                         *)
(* Time is relative: a lease holds the ticks left before it expires, and   *)
(* an expired lease is 0.  created_at is a rank, taken when the request    *)
(* starts (now is read before the INSERT), so two requests may tie.        *)
(***************************************************************************)
EXTENDS Integers, FiniteSets

CONSTANTS
  Jobs,        \* job_id values (uuid4)
  Keys,        \* idempotency keys clients use
  Executors,   \* threads that serve requests
  Requested,   \* max_attempts values clients ask for
  Leases,      \* lease lengths clients ask for, in ticks
  Null,        \* SQL NULL
  MayOverrun,  \* can an execution outlive its lease?
  ReadsMayFail, \* can the fetch that follows a committed write raise?
  MaxLosses    \* bound: executions lost to a crash or a failed write

ASSUME ConstantsOK ==
  /\ Requested \subseteq Int
  /\ Leases \subseteq Nat \ {0}
  /\ Null \notin Jobs \cup Keys \cup Executors \cup Nat
  /\ IsFiniteSet(Jobs)
  /\ {MayOverrun, ReadsMayFail} \subseteq BOOLEAN
  /\ MaxLosses \in Nat

VARIABLES
  jobs,    \* the table: job_id -> row
  exec,    \* what each executor is doing, with the handler's local variables
  losses   \* executions lost so far (history, bounded by MaxLosses)

vars == <<jobs, exec, losses>>

-----------------------------------------------------------------------------
(* Rows and handlers *)

Statuses == {"absent", "pending", "running", "completed", "failed"}

\* finished_at and error_text are kept as set / NULL.  leased_by is written
\* together with lease_expires_at and never read; result_json, started_at and
\* updated_at are never read by the queue either.
Row == [status: Statuses, key: Keys \cup {Null}, attempts: Nat,
        maxAttempts: Nat, lease: Nat \cup {Null}, finished: BOOLEAN,
        error: BOOLEAN, created: Nat]

AbsentRow == [status |-> "absent", key |-> Null, attempts |-> 0,
              maxAttempts |-> 0, lease |-> Null, finished |-> FALSE,
              error |-> FALSE, created |-> 0]

\* Where a handler stands: between the SELECT and the INSERT of an enqueue, on
\* its way to an inline claim, executing a claimed job, about to release one it
\* has completed, or between the SELECT and the UPDATE of a release.
Phases == {"idle", "insert", "claim", "run", "raised", "release"}

Handler == [pc: Phases, job: Jobs \cup {Null}, key: Keys \cup {Null},
            maxAttempts: Nat, inline: BOOLEAN, created: Nat,
            attempts: Nat, left: Nat]

IdleHandler == [pc |-> "idle", job |-> Null, key |-> Null, maxAttempts |-> 0,
                inline |-> FALSE, created |-> 0, attempts |-> 0, left |-> 0]

Present == {j \in Jobs : jobs[j].status # "absent"}

Executing(e) == exec[e].pc \in {"run", "raised", "release"}

Goto(e, h) == exec' = [exec EXCEPT ![e] = h]
Finish(e) == Goto(e, IdleHandler)

Init ==
  /\ jobs = [j \in Jobs |-> AbsentRow]
  /\ exec = [e \in Executors |-> IdleHandler]
  /\ losses = 0

-----------------------------------------------------------------------------
(* Enqueue: POST /v1/governance/jobs *)

\* max(1, min(max_attempts, 10))
ClampAttemptsMutant(n) == IF n > 10 THEN 10 ELSE n
ClampAttempts(n) == IF n < 1 THEN 1 ELSE IF n > 10 THEN 10 ELSE n

\* The value of utcnow_iso(): later than every row already written.  Rows are
\* never deleted.
NowRank == Cardinality(Present)

RowsWithKey(k) == IF k = Null THEN {} ELSE {j \in Present : jobs[j].key = k}

Inserting(k, n, inline) ==
  [IdleHandler EXCEPT !.pc = "insert", !.key = k, !.inline = inline,
     !.maxAttempts = ClampAttempts(n), !.created = NowRank]

Claiming(j) == [IdleHandler EXCEPT !.pc = "claim", !.job = j]

\* The SELECT by idempotency_key finds the job: the handler answers with that
\* row and stops, unless the request asked to run it inline and the row it saw
\* is not completed.
FindExisting(e, k) ==
  /\ exec[e].pc = "idle"
  /\ \E j \in RowsWithKey(k) :
       /\ jobs[j].status # "completed"
       /\ Goto(e, Claiming(j))
  /\ UNCHANGED <<jobs, losses>>

\* The SELECT finds nothing, or the request has no key: an INSERT follows.
FindNothing(e, k, n, inline) ==
  /\ exec[e].pc = "idle"
  /\ RowsWithKey(k) = {}
  /\ Goto(e, Inserting(k, n, inline))
  /\ UNCHANGED <<jobs, losses>>

NewRow(h) ==
  [AbsentRow EXCEPT !.status = "pending", !.key = h.key,
     !.maxAttempts = h.maxAttempts, !.created = h.created]

\* idempotency_key TEXT UNIQUE: NULLs do not conflict.
KeyIsFreeMutant(k) == k = k
KeyIsFree(k) == RowsWithKey(k) = {}

\* The INSERT commits: the job is pending, and an inline request goes on to
\* claim it by id, unless the fetch of the new row raises.
Insert(e) ==
  /\ exec[e].pc = "insert"
  /\ KeyIsFree(exec[e].key)
  /\ \E j \in Jobs \ Present :
       /\ jobs' = [jobs EXCEPT ![j] = NewRow(exec[e])]
       /\ \/ exec[e].inline /\ Goto(e, Claiming(j))
          \/ (exec[e].inline => ReadsMayFail) /\ Finish(e)
  /\ UNCHANGED losses

\* The INSERT meets a row another request put in since the SELECT: the UNIQUE
\* constraint raises IntegrityError, nothing is written, the request fails.
InsertConflicts(e) ==
  /\ exec[e].pc = "insert"
  /\ RowsWithKey(exec[e].key) # {}
  /\ Finish(e)
  /\ UNCHANGED <<jobs, losses>>

\* The write lock does not come within the busy timeout: the request fails and
\* has changed nothing.
RequestFails(e) ==
  /\ exec[e].pc \in {"insert", "claim"}
  /\ Finish(e)
  /\ UNCHANGED <<jobs, losses>>

-----------------------------------------------------------------------------
(* Claim: POST /v1/governance/jobs/run-next, and the inline claim by id *)

\* running, with a lease, and lease_expires_at <= now
ExpiredMutant(r) == r.status = "running" /\ r.lease = Null
Expired(r) == r.status = "running" /\ r.lease # Null /\ r.lease = 0

ClaimableMutant(r) == r.status \in {"pending", "running"}
Claimable(r) == r.status = "pending" \/ Expired(r)

\* ORDER BY created_at ASC LIMIT 1
OldestClaimable ==
  {j \in Present : /\ Claimable(jobs[j])
                   /\ \A k \in Present : Claimable(jobs[k]) =>
                                           jobs[j].created <= jobs[k].created}

Claimed(r, ttl) ==
  [r EXCEPT !.status = "running", !.attempts = r.attempts + 1, !.lease = ttl]

Running(j, ttl) ==
  [IdleHandler EXCEPT !.pc = "run", !.job = j, !.left = ttl]

\* BEGIN IMMEDIATE; SELECT; UPDATE; COMMIT, then dispatch_governance_job.
\* Attempts are counted but not compared with max_attempts.
ClaimNext(e, ttl) ==
  /\ exec[e].pc = "idle"
  /\ \E j \in OldestClaimable :
       /\ jobs' = [jobs EXCEPT ![j] = Claimed(jobs[j], ttl)]
       /\ Goto(e, Running(j, ttl))
  /\ UNCHANGED losses

\* Claim by id takes a pending row, and a running row with no lease or an
\* expired one.
ClaimableByIdMutant(r) == r.status # "completed" /\ (r.lease = Null \/ r.lease = 0)
ClaimableById(r) ==
  \/ r.status = "pending"
  \/ r.status = "running" /\ (r.lease = Null \/ r.lease = 0)

ClaimById(e, ttl) ==
  LET j == exec[e].job IN
  /\ exec[e].pc = "claim"
  /\ ClaimableById(jobs[j])
  /\ jobs' = [jobs EXCEPT ![j] = Claimed(jobs[j], ttl)]
  /\ Goto(e, Running(j, ttl))
  /\ UNCHANGED losses

\* Someone else holds the job or it is over: the handler answers with the row.
ClaimRefused(e) ==
  /\ exec[e].pc = "claim"
  /\ ~ClaimableById(jobs[exec[e].job])
  /\ Finish(e)
  /\ UNCHANGED <<jobs, losses>>

-----------------------------------------------------------------------------
(* Dispatch: run the consolidation, then finalize or release *)

\* WHERE job_id = ?: neither the status nor the lease is compared.
Finalized(r) ==
  [r EXCEPT !.status = "completed", !.lease = Null, !.error = FALSE,
            !.finished = TRUE]

\* The consolidation and its audit entries succeed and the row is completed.
\* The fetch that reads the committed row back is still in the try block: when
\* it raises, the completed row is released.
Finalize(e) ==
  LET j == exec[e].job IN
  /\ exec[e].pc = "run"
  /\ jobs' = [jobs EXCEPT ![j] = Finalized(jobs[j])]
  /\ \/ Finish(e)
     \/ ReadsMayFail /\ Goto(e, [exec[e] EXCEPT !.pc = "raised"])
  /\ UNCHANGED losses

Releasing(h, attempts) ==
  [h EXCEPT !.pc = "release", !.attempts = attempts]

\* Anything in the try block raises, the finalizing UPDATE included; the
\* release first SELECTs attempts and max_attempts.
BeginRelease(e) ==
  /\ exec[e].pc \in {"run", "raised"}
  /\ Goto(e, Releasing(exec[e], jobs[exec[e].job].attempts))
  /\ UNCHANGED <<jobs, losses>>

StatusAfterReleaseMutant(attempts, maxAttempts) ==
  IF attempts + 1 < maxAttempts THEN "pending" ELSE "failed"
StatusAfterReleaseLateMutant(attempts, maxAttempts) ==
  IF attempts <= maxAttempts THEN "pending" ELSE "failed"
StatusAfterRelease(attempts, maxAttempts) ==
  IF attempts < maxAttempts THEN "pending" ELSE "failed"

ReleasedMutant(r, attempts) ==
  [r EXCEPT !.status = StatusAfterRelease(attempts, r.maxAttempts),
            !.error = TRUE]
Released(r, attempts) ==
  [r EXCEPT !.status = StatusAfterRelease(attempts, r.maxAttempts),
            !.error = TRUE, !.lease = Null]

\* The UPDATE of the release uses the attempts it read and, like the
\* finalizing one, compares nothing but the job_id.  finished_at stays.
Release(e) ==
  LET j == exec[e].job IN
  /\ exec[e].pc = "release"
  /\ jobs' = [jobs EXCEPT ![j] = Released(jobs[j], exec[e].attempts)]
  /\ Finish(e)
  /\ UNCHANGED losses

\* The fetch of the claimed row raises, or the release does (no write lock): the
\* exception leaves the handler, and a running row stays so until its lease
\* expires.
ReleaseFails(e) ==
  /\ Executing(e)
  /\ losses < MaxLosses
  /\ losses' = losses + 1
  /\ Finish(e)
  /\ UNCHANGED jobs

-----------------------------------------------------------------------------
(* The environment *)

\* The one API process dies and is restarted: every handler is gone, the table
\* survives.
Crash ==
  /\ \E e \in Executors : exec[e].pc # "idle"
  /\ losses < MaxLosses
  /\ losses' = losses + 1
  /\ exec' = [e \in Executors |-> IdleHandler]
  /\ UNCHANGED jobs

Elapse(t) == IF t = 0 THEN 0 ELSE t - 1

AgedRow(r) ==
  [r EXCEPT !.lease = IF r.lease = Null THEN Null ELSE Elapse(r.lease)]

AgedHandler(h) == [h EXCEPT !.left = Elapse(h.left)]

\* Time passes.  Without MayOverrun every execution ends before its lease does.
Tick ==
  /\ \/ \E j \in Jobs : jobs[j].lease # Null /\ jobs[j].lease # 0
     \/ \E e \in Executors : exec[e].left # 0
  /\ MayOverrun \/ \A e \in Executors : Executing(e) => exec[e].left > 1
  /\ jobs' = [j \in Jobs |-> AgedRow(jobs[j])]
  /\ exec' = [e \in Executors |-> AgedHandler(exec[e])]
  /\ UNCHANGED losses

Enqueue(e) ==
  \E k \in Keys \cup {Null} :
    \/ FindExisting(e, k)
    \/ \E n \in Requested, inline \in BOOLEAN : FindNothing(e, k, n, inline)

Poll(e) == \E ttl \in Leases : ClaimNext(e, ttl)

\* What a handler that has started does next.
Proceed(e) ==
  \/ Insert(e)
  \/ InsertConflicts(e)
  \/ RequestFails(e)
  \/ \E ttl \in Leases : ClaimById(e, ttl)
  \/ ClaimRefused(e)
  \/ Finalize(e)
  \/ BeginRelease(e)
  \/ Release(e)
  \/ ReleaseFails(e)

Next ==
  \/ \E e \in Executors : Enqueue(e) \/ Poll(e) \/ Proceed(e)
  \/ Crash
  \/ Tick

Spec == Init /\ [][Next]_vars

-----------------------------------------------------------------------------
(* Properties *)

\* Every row of governance_jobs and every handler has the shape the code gives
\* it.
TypeOK ==
  /\ jobs \in [Jobs -> Row]
  /\ exec \in [Executors -> Handler]
  /\ losses \in 0 .. MaxLosses
  /\ \A e \in Executors :
       exec[e].pc \in {"claim", "run", "raised", "release"} =>
         exec[e].job \in Present

\* At most one row per idempotency key, although enqueue_governance_job looks
\* for the key and inserts the row in two statements.
OneJobPerKey ==
  \A i, j \in Present : jobs[i].key = jobs[j].key /\ jobs[i].key # Null => i = j

\* A row is leased exactly while it runs.  A running row without a lease would
\* be lost to the worker for good: claim_next_governance_job skips it.
LeasedIffRunning ==
  \A j \in Jobs : jobs[j].lease # Null <=> jobs[j].status = "running"

\* release_governance_job_for_retry gives a job up only after max_attempts
\* claims, even when it decides on an attempts value it read before another
\* claim.
FailedOnlyExhausted ==
  \A j \in Jobs : jobs[j].status = "failed" =>
    jobs[j].attempts >= jobs[j].maxAttempts /\ jobs[j].error

\* A completed job carries its completion time and no error, whoever wrote it
\* last.
CompletedIsClean ==
  \A j \in Jobs : jobs[j].status = "completed" =>
    jobs[j].finished /\ ~jobs[j].error

\* No two executors work on one job (when executions end within their lease):
\* a claim never takes a job someone is still working on.
ExclusiveExecution ==
  \A e, f \in Executors :
    Executing(e) /\ Executing(f) /\ exec[e].job = exec[f].job => e = f

\* A job that completed or was given up is never touched again (when
\* executions end within their lease and a row that was written can be read).
OutcomeIsFinal ==
  [][\A j \in Jobs : jobs[j].status \in {"completed", "failed"} =>
                       jobs'[j] = jobs[j]]_vars

\* Attempts exceed max_attempts only by the executions that were lost to a
\* crash or a failed write and recovered by lease expiry (when executions end
\* within their lease).
AttemptsWithinBudget ==
  \A j \in Present : jobs[j].attempts <= jobs[j].maxAttempts + losses

\* "job returns to `pending` before `max_attempts`; job becomes `failed` at
\* exhaustion" (.planning/research/ARCHITECTURE.md:274-275): a job waiting for
\* another execution still has an attempt left.
PendingHasBudget ==
  \A j \in Jobs : jobs[j].status = "pending" =>
                    jobs[j].attempts < jobs[j].maxAttempts
=============================================================================
