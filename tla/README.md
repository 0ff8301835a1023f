# automem in TLA+

automem is a shared memory service for coding agents: one FastAPI process
(`backend/`) over two stores that no transaction spans, a SQLite file
(`tasks.db`: jobs, tasks, memory cache, audit log, keys) and mem0 (an external
vector store that holds the memories themselves). A worker and a timer
(`scripts/`) drive its background work over HTTP, and adapters in the agents
capture and recall memories.

This directory holds TLA+ modules of the parts in which several actors, failures
or crashes meet, the TLC configurations that check them on small instances, and
theorems that TLAPS proves for every value of the constants. `PROJECT.json`
maps every definition to the lines it models and lists runs, mutants, hazards,
findings and theorems.

    tlc -workers 2 -config JobsExclusive.cfg MCGovernanceJobs.tla
    tlapm FactStoreProofs.tla

## 1. Inventory

| Part | State | Operations | Module |
|---|---|---|---|
| Governance job queue: `backend/governance_jobs.py`, `routers/governance.py`, `dispatch_governance_job` | table `governance_jobs` | enqueue (idempotency key), claim next, claim by id (inline), finalize, release, lease expiry | `GovernanceJobs`, modelled |
| Worker and scheduler loops: `scripts/governance_worker.py`, `scripts/scheduled_consolidate.py` | none but the lock file | poll, post a consolidation per time bucket, retry, give up | `Schedule` over `GovernanceJobs`, partly |
| Lock files of both scripts | a file with a pid | create, read, check, unlink | `LockFile`, modelled |
| Long-term fact store: `store_memory_with_governance`, `archive_active_long_term_facts`, `memory_cache.py`, `routers/memories.py` | mem0 records, table `memory_cache` | store, supersede, roll back, forget, rebuild | `FactStore`, `CurrentVersion`, partly |
| Offline consolidation: `run_consolidation_operation` | both of the above, and tasks | rebuild, drop noise, rewrite, deduplicate, archive older versions; tasks | the long-term half in `FactStore`, the task half in `TaskLifecycle` |
| Task lifecycle: `task_storage.py`, `routers/tasks.py` | table `tasks`, task memories in both stores | upsert, close, archive, normalize, prune, summaries | `TaskLifecycle`, modelled |
| Task paging: `fetch_tasks_page` | a cursor in the client's hand | next page | `TaskPaging`, modelled |
| Hybrid search: `search_pipeline.py` | none | filter, merge, rank vector and lexical hits | left out |
| Routing and governance decisions: `routing.py`, `governance/judge.py`, `rules.py`, `task_policy.py`, `long_term.py`, `tasks.py` | none | where a text goes, whether it is kept, which task a turn is about | `Routing`, partly |
| Keys, scopes, identities: `auth.py`, `agent_keys.py`, `main.py` | table `agent_keys` | resolve a key, enforce user, agent and projects | left out |
| Capture adapters: `adapters/claude-code`, `adapters/openclaw`, `automem_client/operations.py` | a prompt file per session, deduplication marks | save the prompt, capture a turn, drop repeated captures | `TurnCapture`, partly |
| Audit log, metrics | append-only rows, counters | append | no decision reads them |
| HTTP client, CLI, MCP wrappers, installer; benchmark; frontend | none the service depends on | conversion, measurement, display | left out |

How they interact. The timer posts a job (`POST /v1/governance/jobs`) and the
worker asks for one to be run (`POST /v1/governance/jobs/run-next`); both are
handlers of the same API process, and so is the consolidation they end up in,
which runs on the thread of the request that claimed the job. Stores, deletions,
rebuilds and consolidations meet in `memory_cache` and in mem0. Handlers are
synchronous and run on a thread pool, so they interleave at every call of the
backend and every SQLite transaction. The database is in WAL mode: a read does
not wait; a write waits up to the busy timeout and then raises.

What is hard, and what would make each part correct:

- **Queue**: two executors on one job, outcomes overwritten by a late executor,
  attempts that are not counted, a job that never ends. Correct: exclusion,
  final outcomes, a bounded number of attempts, every job settles.
- **Locks**: a check and an unlink that are two system calls, stale locks, pids that
  another process gets. Correct: two copies never run together, and a killed one does
  not keep the next one out. The code keeps the first only while starts do not cross,
  the second only while no other program has the pid.
- **Fact store**: two stores updated one after the other, decisions on a
  snapshot, failures half way. Correct: nothing a user said is lost, the stores
  come to agree, an auto-superseded fact has exactly one current version, the one
  the user was last told of.
- **Tasks**: normalization archives on a snapshot while agents write summaries,
  and prunes memories that no transaction covers. Correct: a task an agent works
  on is not archived or pruned behind its back, statuses move one way, a task goes
  only after its memories, noise goes in the end.
- **Timer and worker**: the clients of the queue time out while their handlers go
  on. Correct: one consolidation at a time, every run that did not fail has its
  consolidation, every job settles.
- **Paging**: rows move while they are listed. Correct: no task that stays put is
  skipped or returned twice, and the listing ends.
- **Routing**: several sets of expressions and a model decide one after the other,
  each without knowing the others. Correct: a question is never a fact, an
  explicit request never a task, nothing that was found in a turn is lost on the
  way, and a turn that names a task goes on with it.
- **Adapters**: hooks overlap, are killed and are repeated. Correct: a turn is
  skipped only if it was delivered, and delivered if nothing failed; a fact is held
  at most as often as a turn was sent, one under an auto-superseded key once.
- **Search**: no superseded fact without asking for history, no row outside the
  requested scope, no duplicates after the merge.
- **Keys**: a request never acts for a user or project its key does not cover.

## 2. The modules

### GovernanceJobs, JobQueue, JobsRefinement

`jobs` is the table, `exec` the handlers in flight with their local variables.
A handler moves through `insert` (between the SELECT by key and the INSERT),
`claim` (an inline claim by id follows), `run` (the dispatched consolidation) and
`release` (between the release's SELECT and its UPDATE). One step is one
transaction, or one SELECT whose answer a later statement uses.

| Action | Code |
|---|---|
| `FindExisting`, `FindNothing`, `Insert`, `InsertConflicts` | `enqueue_governance_job` |
| `ClaimNext`; `ClaimById`, `ClaimRefused` | `claim_next_governance_job`; `claim_governance_job_by_id` |
| `Finalize` | `finalize_governance_job`, and the fetch after its commit, which may raise |
| `BeginRelease`, `Release`, `ReleaseFails` | `release_governance_job_for_retry`, its failure leaving `dispatch_governance_job` |
| `RequestFails` | the write lock does not come before the busy timeout |
| `Crash`, `Tick` | the process dies and restarts; time passes |

A lease is kept as the ticks left. `created_at` is a rank taken when the request
starts, so that jobs may tie. `JobQueue` is what the queue promises without
leases or requests; `JobsRefinement` maps the status column and the executor
that works on a row to its `phase` and `holder`.

`MayOverrun` says whether an execution can outlive its lease. Nothing in the code
prevents it: the lease is 300 s by default and never renewed, and a consolidation
takes as long as it takes. With it the code breaks exclusion, final outcomes and
the attempt budget: `release_governance_job_for_retry` reads and writes in two
statements and compares neither status nor lease, so that after an overrun a job
can be pending with no attempt left.

`ReadsMayFail` says whether the fetch that follows the commit of a finalization
(`governance_jobs.py:297`) may raise. It stands inside the `try` of
`dispatch_governance_job`, whose handler releases the job: the row that has just been
completed goes back to pending, and the consolidation runs again. With it the code
breaks final outcomes, and so the refinement. What holds with both is checked with both,
in the composition with the timer and the worker; the rest is checked and proved without
either.

The consolidation itself is one interval here: what it does to memories is the
business of `FactStore`, and it does not touch the job table.

### Schedule

`Schedule` composes the queue with its two clients, which are processes of their
own: the scheduled run (`sched`) and the worker (`worker`). It EXTENDS
`GovernanceJobs`; the clients' steps conjoin the queue's actions or leave the
queue alone.

| Action | Code |
|---|---|
| `TimerFires`, `SchedPost`, `SchedGivesUp` | `scheduled_consolidate.py`: the timer, `single_run_lock` (a left-over file skips the run), `run_consolidation` with its retries |
| `WorkerStarts`, `WorkerPolls`, `WorkerGivesUp` | `governance_worker.py`: `main`, `run_once`; a timeout exits, systemd restarts |
| `HandlerSteps` with `SchedHears` and `WorkerHears` | a handler of the API goes on; its client hears of its end, as an answer or as an error |
| `ApiCrashes` | the API process dies, and whoever waits gets an exception |

A client that gives up leaves its handler behind; that handler keeps running the
job. `asked`, `missed` and `gaveUp` are history. A key is the number of a bucket of
the clock; two runs may fall into one bucket, and the second finds the first's job.

### LockFile

One step is one system call on the path. `script` tells which of the two holds
the lock (`Reclaims`): `single_worker_lock` removes the lock of a process that is
gone, `single_run_lock` does not. Any start of the scheduler's script may overlap any
other. Of the workers one is the `Service` that systemd restarts; others are started
beside it, by a shell or a second unit, and counted (`strays`). `others` are the pids of
processes of other programs and users, which come and go: `_pid_is_alive` takes
them for alive as it takes a worker, a PermissionError included. Pids are given out in
order and wrap around, so that a pid in a stale lock can come to life again, as a worker,
as the reader itself or as somebody else's process.

Two workers that start at once can both get the lock (`locks_crossed`): between
`open(O_EXCL)` and the write of the pid a lock is empty, empty counts as stale, and
stale locks are unlinked unseen. `crossed` is history: since no copy was up, a
worker started while another was on its way to the lock. `MutualExclusion` and
`HolderOwnsLock` are about what comes before that; for the scheduler's script, whose
starts may cross at any time, they have no exception. A left lock whose pid another program
has got keeps workers out for as long as that process lives; `WorkerComesBack` names that
case (`NamesOther`) and no other.

### FactStore, CurrentVersion

One long-term fact, that is the memories of one user, project, category and
fact key. `mem` is mem0 (external, modelled from the calls `backend/` makes),
`cache` the rows of `memory_cache`, `exec` the handlers with their local
variables: what they read (`seen`), what is left to do (`todo`), and where they
stand. `auto` says whether the key supersedes on its own
(`should_auto_supersede_fact`) or asks for review.

| Action | Code |
|---|---|
| `BeginStore`, `AddNew`, `CacheNew` | `store_memory_with_governance`, infer=False |
| `GetItem`, `AddArchived`, `CacheCopy`, `Delete`, `Uncache` | `archive_active_long_term_facts`, for a store and for a consolidation |
| `BeginForget`, `Delete`, `Uncache` | `delete_memory` |
| `BeginRebuild`, `UpsertItem`, `Prune` | `rebuild_memory_cache` |
| `BeginConsolidation`, `ReadRows`, `AddRewritten`, `SelectActive`, `EndLoop` | `run_consolidation_operation` |
| `CallFails`, `DeleteRaises` | a call that raises, and who catches it (`Raised`) |
| `Crash` | the process dies; both stores survive |

`Texts` are the wordings the hot-path judge lets in and `Canonical` is what the
offline judge makes of them: the same text, another one, or nothing (noise).
`disturbed` and `forgotten` are history: whether handlers overlapped or failed
since the last consolidation that had the system to itself, and what users
deleted.

`QuietConsolidation` makes consolidations run alone. The code has no lock that
ensures it; the timer runs one at 03:30. Overlapping a store, a consolidation
may delete the copy the store has just written before the store deletes the
original (`services.py:539-643` decides on a snapshot), so the properties about
it are stated for consolidations that run alone.

`CurrentVersion` adds one history variable, `said`: the version for which the last store
was answered "stored", or "skipped" as a duplicate (`AnswersDuplicate`, a request
that writes nothing). `CurrentIsAsSaid` is about the
current version that the invariants of `FactStore` cannot speak of: that there is
exactly one, and that it is the one the user was told of. It holds while requests
succeed one at a time, until a consolidation finds a version twice; then the
oldest survives, current or not (`facts_current`).

### TaskLifecycle

The tasks of one user. `tasks` is the table, of which a row keeps its status, its
project and what `classify_task_kind` makes of its texts (`work`, or noise); `mem` and
`cache` say which task each memory is about, `ProjectOf` where it was stored; `exec`
holds the handlers, and a cleanup's `rows` and `backed` are the two snapshots it
decides on. `lock` is SQLite's write lock: the cleanup's UPDATEs take it and keep it while memories are deleted over
the network, and every other write waits (`MayWrite`) or gives up (`CallFails`).

| Action | Code |
|---|---|
| `BeginSummary`, `UpdateTask`, `InsertTask`, `AddMemory`, `CacheMemory` | `task_summaries`, `upsert_task`, the store of each field |
| `Close`, `Archive` | `close_task`, `archive_task` |
| `Forget`, `Uncache` | `delete_memory` |
| `BeginCleanup`, `ReadItems`, `Refresh` | `tasks_normalize`, or a consolidation; `rebuild_memory_cache` |
| `ReadRows`, `ReadBacked`, `Decide`, `PruneMemory`, `Commit`, `RollBack` | `normalize_tasks` |
| `ArchiveClosed` | the consolidation's `archive_closed_tasks` |
| `CallFails`, `Crash` | a call that raises; the process dies, SQLite rolls back |

A summary is taken for work before it is written
(`evaluate_task_materialization`), but what is stored is a sanitized, shortened title,
which a cleanup classifies again and may find to be noise: `InsertTask` and
`UpdateTask` leave that open. Noise is there from the start as well, as rows from before
that check. A title that a cleanup rewrites matters only because it takes the write
lock, which `Decide` chooses freely. The rebuild writes its rows in one step: `FactStore`
has it row by row.

A cleanup may be asked for one project. It then reads the tasks of that project and
counts the memories of that project, while `upsert_task` moves a task to the project
of its latest summary and leaves older memories where they are. So a task that has
moved away from its memories counts as work without memory, and the cleanup archives
it; `11-02-PLAN.md:104` ("Real work that still has backing task memory remains active and
retrievable") promises otherwise. `CleanupKeepsWork` is about work that has a
memory in its own project.

`OneCleanup` says that cleanups come one after the other. An admin's request may in
fact overlap a consolidation; then the slower one deletes by task id, and may
delete a task that the other has pruned and a summary has created again.
`overlapped` is history: another handler ran beside the latest cleanup.

A cleanup may overlap a summary, and then archives by task id what it read before:
a cleanup whose reads fall before the summary's first memory is cached, and whose
transaction comes after, archives a task that is work, is backed and was reported
on a moment ago. No call makes an archived task active again. `CleanupKeepsWork`
therefore speaks of cleanups that run alone.

### TaskPaging

`rows` is the table as a listing sees it: of a row, whether it is of the filter (the
user, project and status asked for) and its `updated_at`. Times are numbers; a writer
takes the time (`TakeTime`) before it writes (`WriteRow`), so that rows get times of
the past, and ties are common. `fetch_tasks_page` is `FetchPage`: the rows past the
cursor, in the order of time and id, cut at the page size, which is clamped. The
cursor holds the last row as it was when read. `got` counts what was returned.

### Routing

The way of one turn: `POST /v1/memory-route`, then one `POST /v1/memories` per entry
of the answer, then `POST /v1/task-summaries`, all from the client that posted it.
What the regular expressions look for is abstract: a sentence is the set of the kinds
of words in it (`Kinds`) and of the subjects it speaks of, a text a sequence of
sentences. The decisions are operators named as in the code (`ExtractLongTermEntries`,
`LooksTaskWorthy`, `FallbackRoute`, `HeuristicRoute`, `Materializes`, `ResolveTask`).

| Action | Code |
|---|---|
| `RouteMemory` | `route_memory`: extraction, `resolve_task`, `judge_route_candidate` |
| `PostEntry` | `/v1/memories`: `govern_text_decision` for one entry |
| `JudgeFields`, `UpsertTask`, `StoreField` | `/v1/task-summaries`: the task evaluated again, each field judged, the task written, each field stored and judged once more |
| `CloseTask` | a task is closed by someone else |

Questions are recognised where the code recognises them: some words anywhere (`asking`),
others only where a text begins (`opening`) or ends (`closing`, with no mark behind
it), and a mark only at the end (`IsQueryLike`). `lengthy` stands for what makes
`is_preference_noise` drop a preference. A text that the model writes in the place of another
is one of `ModelTexts`, of which one asks.

`judge` says whether a model is configured; where the code asks it, every answer
is possible, also one that raises. `worth`, `judged` and `blind` are history: what
`resolve_task` made of the turn, whether the model had a say, and whether a turn was
resolved while another's task was on its way or with more tasks than are read.

`resolve_task` compares scores of shared words with a threshold. A message with the
title of a task in one of its sentences is above it (`Titled`); for every other task
the score is left open, so any task that was read may be the answer, or none.

Four things the code does that the model shows and that no property forbids:
`split_sentences` cuts at question marks, so a question known by its mark alone is
stored as a fact; the line breaks of an explicit request are collapsed before it is
split into items, so it is one item, asked about as a whole: a question by its first
or last words in the middle of it is stored, and when a name is cut out of it the rest
is lost; a turn that the heuristics call mixed for a fact which the
extraction does not find is answered with drop, its task notwithstanding
(`TaskIsLostOnlyToAFact` says that this is the only way); and two turns about one
subject in different words make two tasks when too few of the words are shared. The
branch at `routing.py:110-113` can never be taken.

### TurnCapture

Two hosts, chosen at the start. Under claude-code `lastPrompt` is the prompt file of
a session and `marks` with `torn` the one state file of all sessions, which
`write_text` empties before it writes; every hook is a process. Under openclaw
`marks` is a map of the gateway and captures are runs of a handler that interleave
at its awaits. A capture is a record with its local variables.

| Action | Code |
|---|---|
| `Submit`, `OpenPromptFile`, `WritePromptFile`, `PromptHookFails` | the UserPromptSubmit hook: `save_last_prompt` |
| `End`, `Report` | the Stop hook or `agent_end` fires; the same turn is reported again |
| `ReadPrompt`, `Check` | `load_last_prompt`; `should_skip_capture`, `is_duplicate_capture` |
| `Route`, `PostEntry`, `AddEntry`, `PostSummary` | `capture_turn`: the posts, one after the other; the service looks for a fact and then adds it |
| `MarkInMemory`; `ReadMarks`, `OpenMarks`, `WriteMarks` | the mark: a map; or read, empty, write of a file |
| `CaptureFails`, `AddLate`, `GatewayRestarts` | a call that raises, a timeout that kills the hook; a store whose client is gone is done later; the gateway restarts |

The service answers "skipped" only for a fact under one of the four keys that
supersede on their own (`Keyed`, `Known`): a capture that failed half way and is
repeated adds every other fact a second time. `FactsKeptOnce` is about keyed facts,
`CopiesAreSends` about all: no fact is held, or on its way, more often than turns were
sent.

`delivered`, `sends`, `missed` and `overlapped` are history.

## 3. Runs

| Run | Instance | Shows |
|---|---|---|
| `jobs_exclusive` | 2 jobs, 2 executors, budgets 1 and 2, lease 2, 1 loss | without overruns and failing reads: exclusion, final outcomes, attempts within budget plus losses, and the refinement of `JobQueue` |
| `schedule` | 2 scheduled runs of 2 tries, 2 jobs, 2 executors, budgets 1 and 2, lease 1, overruns, failing reads, 1 loss, 1 client that gives up; fair | types, unique keys, leased iff running, given up only when exhausted; one consolidation at a time, every job settles, every run that did not fail is consolidated |
| `locks` | both scripts, 3 processes, 4 pids, 2 kills, 2 starts beside the service; fair | exclusion, and the worker comes back |
| `locks_crossed` (violation) | 2 workers, 3 pids, 1 kill | two workers that start together both run |
| `facts_quiet` | 2 executors, 2 versions, 2 stores and any number answered as duplicates, 1 fault, 5 ids, both kinds of key, any consolidation | no version is lost; a quiet system is healthy; the current version is the one last said |
| `facts_live` | 1 executor; both versions, the alias and noise; 2 stores, 1 fault, 5 ids; fair | no version is lost through rewrites and noise, a consolidation tidies, the stores converge |
| `facts_current` (violation) | a, b, a, then consolidate | the fact has no current version |
| `tasks` | 2 tasks, 2 projects with a memory id each, 2 executors, 1 summary of 1 field, 1 fault, cleanups of the user and of one project with every option on; fair | statuses advance, a cleanup alone keeps work that has a memory and leaves no memory of a pruned task, noise goes |
| `paging` | 3 tasks, 1 writer and its past, 3 times, page sizes 0 to 3 with a maximum of 2; fair | what is not written is listed once, nothing else twice, the listing ends |
| `routing` | 1 client with every turn of one of 12 sentences (or one of them and one of 6), 4 answers and 3 hints; another with 2 turns on the same subjects; model off or on; 1 task read | types, questions and requests go where they may, nothing found is lost, a task is lost only to a fact, a named task goes on |
| `capture` | both hosts, 2 sessions, 2 captures in flight, 2 turns, 1 report repeated, 1 failure, a keyed fact and another; fair | a mark is of a delivered turn, a turn is sent once, no keyed fact twice, no fact oftener than sent, turns are captured |
| `capture_turn` (violation) | claude-code, 1 session, 2 turns | a Stop hook captures the prompt of the next turn |

Why the bounds are enough to see the hard cases. Two executors on one job are all
a race over a row needs, and the second job is there so that order, ties and
keys matter. A lease of 2 lets a tick pass inside an execution that does not
overrun, 1 suffices when it may. One loss covers a crash or a failed release in
every state; the theorems show that the count does not matter. Requested budgets
go through the clamp: 0 and -1 become 1. An execution that overruns needs a second one
beside it to do harm, which the worker starts when it gives up on the first. Two runs of the timer share a bucket or
do not; one failure is a timeout of either client or a killed run that leaves its lock.
Two stores, one fault and the requests
that are not bounded (forgets, rebuilds, consolidations) reach two active
versions, orphaned rows, half-archived facts and a rolled back store; five ids
are enough for two memories, their archived copies and a rewrite, and where they
are used up a store waits for one that nothing mentions. Four pids let three
processes and a stale lock, or another program, have distinct ones and still wrap
around; two kills and two starts beside the service leave a lock, give its pid away and
cross two workers. Two tasks,
noise of the first project or absent at first (`StartsSmall`), let one be pruned or
failing while the other is summarised; the second id stays free for the summary,
which may be of the other project, and where no id is left it waits for a forget or a
prune. A second field of a summary only adds a memory to a task that
has one. With every option of a cleanup on it does the most it can. Three tasks
are a page, its successor and a row that moves between them; sizes 0 and 3 are
clamped to 1 and 2. The twelve sentences of `routing` take each branch of the
expressions at least once, alone and followed by another; two of them ask for the same subject
and the second client for both; one task read makes a second one invisible. Two
sessions, two captures and one failure are two hooks that write one file while one of
them is killed; a keyed fact and another are those the service treats differently.
Executors, jobs and like texts are symmetric in the safety runs only.

Progress of bounded things is stated as "in the end, for good" (`<>[]`): jobs, runs and
turns are only added, and finitely many, so that it implies "leads to" for each
of them.

Every property has a mutant in the module it is about: the code with one guard,
assignment or comparison changed in a way a bug would, under which TLC finds the
property violated.

What the violations say of the code:

- `facts_current`: duplicates are found by text, whatever their status, and the
  oldest survives. Setting a preference back to an earlier value leaves it, after
  the next consolidation, with no current version.
- `locks_crossed`: a worker takes a lock without a pid for stale, and a lock is empty
  from its creation to the write of the pid; what it unlinks is whatever is at the
  path by then. Two workers started together both run, which
  `tests/test_governance_worker.py:121` says should not be.
- `capture_turn`: the Stop hook is asynchronous and takes the prompt of its turn
  from a file that the next prompt overwrites. A user who is faster than the hook
  gets the answer of one turn captured with the prompt of the next. `TurnIsCaptured`
  excuses exactly these sessions (`missed`).

## 4. Fairness

- **A handler that has started goes on** (WF of its steps): threads are
  scheduled, calls return or raise.
- **The worker's poll and the scheduled run's post** (SF in `Schedule`): the service
  has `Restart=always` and the loop sleeps and polls again. Strong, because the
  executors may be busy when it comes; a request that waits for a thread gets
  one. The timer itself owes nothing: what is shown is about runs that began.
- **Time passes** (WF of `Tick`, `TimePasses`).
- **The lock's processes** (WF of each system call, and of starting for the service,
  which has `Restart=always`). A holder need not stop, and another program need
  not end.
- **The consolidation of the user** (SF in `FactStore`): the timer posts one a
  day, the worker runs it. It assumes that `MEMORY_CONSOLIDATE_USER_ID` is set
  and that rewrites and deduplication are on. Without a user the code does
  not rebuild the cache, stale rows stay, and a delete of a missing memory makes
  every retry fail: then there is no convergence. `facts_live` has one executor:
  rebuilds that overlap for ever could keep a consolidation from ever being alone.
- **The cleanup of the user** (SF in `TaskLifecycle`): the same consolidation, with
  `MEMORY_CONSOLIDATE_PRUNE_NON_WORK_ARCHIVED` set besides. Without the rebuild
  that a user's consolidation starts with, a prune that failed once would fail on
  its stale cache rows for ever, and noise would stay.
- **A client that lists asks for the next page** (WF of `FetchPage`). Writers owe
  nothing and may write for ever.
- **A capture that has started goes on** (WF of its steps in `TurnCapture`). Neither
  the user nor the host owes anything.

Crashes, faults, summaries, turns and stores are bounded by constants; forgets,
rebuilds, page reads and writes of rows are not.

## 5. Proofs

All theorems hold for any sets of jobs, keys, executors, leases, budgets, memories,
texts, judges, processes, tasks, turns, sessions and failures, under the ASSUME of
the module (types of the constants; `Jobs` and `Tasks` are finite because their
members are counted; memory ids are numbers, of which a deduplication keeps the
least) and under the hypotheses a theorem states. Each safety property of the
passing runs, invariant or action property, is a theorem, but for two:
`CurrentIsAsSaid` and `CopiesAreSends`. `HolderOwnsLock`, `CursorDescends`
and `CompletedIsClean` are theorems that no run checks: they are steps of others.

`GovernanceJobsProofs`, with or without overruns and failing reads. `TypeOK` is inductive. The other
invariants need `TableInv`: besides them it says that the attempts a
release has read are at most the row's present ones (`ReadIsPast`), for
otherwise a release could fail a job that still has attempts. Every write of a row
is one of four (insert, claim, finalize, release), and one lemma each says which
fields it sets. Theorems: `TypeCorrect`, `KeysAreUnique`, `LeaseMatchesStatus`,
`FailedMeansExhausted`, `CompletedRowIsClean`.

The rest of the module is under `~MayOverrun` and `~ReadsMayFail`. `HoldInv` says that a row that is
worked on is running with exactly the lease its executor has left, which is more
than 0: so no claim takes it, and exclusion follows. From it follow
`ExecutionIsExclusive` and `OutcomesAreFinal`. `BudgetInv` adds that a running row
without a worker has one loss to its account, which makes
`attempts <= maxAttempts + losses` inductive: `AttemptsAreBudgeted`,
`PendingJobsHaveBudget`. The refinement is `HandlersImplementQueue`: under `HoldInv`
the abstract holder of a job is the one executor that works on it, each write of a
row maps to the step of `JobQueue` it stands for, by a lemma per write that says what
becomes of `Status` and `Holder`, and every other step maps to a stutter.

`ScheduleProofs`, with or without overruns. Every step of the timer, the worker and
the service is a step of `GovernanceJobs` or leaves its variables alone
(`StepOfQueue`, from `PostInv`: a scheduled run that posts has the key of a bucket),
so `ScheduleUsesQueue` carries all of the above over to the
composition. `WaitInv` says that nobody claims inline and that, until the worker
gives up on a handler, an executor that executes is the one the worker waits for:
`OneWorkerAtATime`, also where a lease runs out under its execution. That the
worker has one request at a time keeps the service from running two
consolidations, not the lease.

`LockFileProofs`, without hypotheses. `LockInv` says that until starts cross the lock
belongs to its holder and one copy at most is up that is not about to skip (`Clear`),
and that only a worker looks into a lock or crosses another: `LockExcludes`,
`HoldersOwnTheirLock`, `LockTypes`. When the scheduler's script alone is considered,
nothing crosses, and exclusion has no exception: `RunLockExcludes`. For two workers
that cross it is false (`locks_crossed`).

`FactStoreProofs`. `FactInv` adds to the types what a handler has at hand where it is
and that what it has left to do was chosen from what it read (`Fits`); `FactTypes`
follows. `SettledInv` is for a handler that ran without interference: the stores
agree whenever it is at rest, except at the one id it is at, and while nothing
overlapped or failed what it has read is what is there. A store in order therefore
stays in order from one request to the next: `RestIsHealthy`, which is agreement and at
most one current version; that there is one is `CurrentIsAsSaid`, model-checked. The other two
theorems assume `QuietConsolidation`, without which they are false, and that the
judge makes of its own answer the same text (`JudgeIsStable`): true of the rules
(`canonicalize_preference_text`), assumed of the model behind them, true of the judges
of the runs. `SameEverywhere` says that one assignment of texts to ids fits both
stores and whatever every handler has read, since an id is written once. With it
`CopyInv` names, for every memory that a handler is about to delete, the other
memory that has its text, however stale the snapshot: `VersionsAreKept`. A
deduplication needs most: it deletes all but one of each text, so it must know every
memory, which a rebuild and having the system to itself give. `TidyInv` says which
memories are already free of noise, worded as the judge would and distinct: all
outside what the loop at hand has left. At the end that is all of them:
`ConsolidationLeavesTidy`. `KeepsCurrent` is false (`facts_current`).

`RoutingProofs`. Each client's record changes only by its own steps, so the
invariants are predicates of one record that every step re-establishes. `Careful`
joins three: no entry it has or will post asks by its words, its task is worth being
one by the words of the message (`ResolvedIsWork`), and every entry that was
extracted is stored, still to be posted, or noise, as long as the model had no say;
this needs that the plain route of a turn with entries keeps them
(`PlainRouteKeepsEntries`). An entry asks by its words only if it is an explicit
request, or if the model wrote it. `LosesNoTask` follows the task the same way to its last
field. `AloneInv` is about all clients: until a turn is resolved blindly one turn is
on its way, and its task is one that is known already, unless the message holds no active
title (`ResolvedIsKnown`, `Unnamed`). Theorems: `TypesHold`, `QuestionsWriteNoTask`,
`QuestionsBecomeNoFact`, `ExtractedIsStored`, `TasksAreWritten`, `NamedTasksGoOn`.

`TaskPagingProofs`. `ToldInv`: a task nobody has written was returned once if it is
of the filter and not past the cursor, and not at all otherwise. A step of the
listing keeps it because a page ends exactly where the next cursor begins
(`PageEndsAtCursor`, from the order being total and transitive and the page being cut
by cardinality) and the last page is all that is left (`LastPageIsAll`). Theorems:
`ListingTypes`, `CursorGoesDown`, `ListedOnce`, `TwiceIsMoved`.

`TurnCaptureProofs`. `CaptureInv`: what a capture owes is stored or still to do, when
it comes to its mark nothing is left, and the marks it carries from the file are of
delivered turns, so that writing them back, even over the mark of another session,
leaves only such. `OnceInv` adds that captures one after the other never add a keyed
fact that is there. `TurnInv` is about sessions that missed no turn, while no captures overlapped
and none failed: the prompt file holds the prompt of its last turn (`FileHolds`), a capture in flight is
about its own turn and no later one was sent (`OwnTurn`), a turn that was sent is on
its way, marked or past (`Remembered`), and the marks about to be written are those
there are plus its own (`Marking`). So a repeated report finds a mark or is the
only one of its turn. Theorems: `MarksAreDelivered`, `FactsAreKeptOnce`,
`TurnsAreSentOnce`.

`TaskLifecycleProofs`. `TaskInv` adds to the types that only a cleanup is in a place of
a cleanup: an executor between two requests then holds no lock. `OrderInv`, under
`OneCleanup`, says that the rows which a cleanup read as archived still are: only
another cleanup could prune one, and only a pruned one could be inserted again. So
what `Commit` deletes is archived. Every other step keeps a task's place (`Keeps`).
`AloneInv` is what a user's cleanup knows that runs alone: after its rebuild the cache
is the backend, the rows it read have since only moved on in status (`Follows`), and
of a memory it has deleted neither store knows. So it archives only work without a
memory in the projects it cleans, of which it has read the rows, and prunes a row only
after its last memory there.
Theorems: `TasksTyped`, `TasksAdvance`, `WorkStaysActive`, `PrunedTasksAreBare`.

Only model-checked are the liveness properties: `JobsSettle` and `RunIsConsolidated`
of `Schedule`, `WorkerComesBack` of `LockFile`, `Converges` of `FactStore`, `NoiseGoes`
of `TaskLifecycle`, `TurnIsCaptured` of `TurnCapture` and `ListingEnds` of `TaskPaging`.
They rest on fairness, which the provers cannot reason about (nor about ENABLED).
What the two violation runs refute is false and has no theorem.

## 6. Not modelled

- The store with infer=True: mem0's model decides there what to add, update or
  delete, and may return no id.
- mem0's own page limit in `get_all`, and its vector index.
- The regular expressions themselves: which words are of which kind is abstract, and so
  are tokens and titles. Scores below that of a named task are left open (`Titled`).
- Dry runs write nothing beyond the rebuild, and are a `BeginRebuild`. The
  scheduled run's mode inline, which waits for the consolidation itself.
- A consolidation for a whole installation touches other facts as well; facts do
  not interact except that a failing delete ends the run for all (`Raised`).
- Tasks of other users, which `archive_closed_tasks` and a cleanup without a user also
  touch; aliases of tasks.
- Search changes no state. What it returns is decided row by row by filters, and by
  scores and a query classification that are numbers and languages. Known about it, and
  not checked: the lexical query hides superseded facts only when the request has a
  filter (`search_pipeline.py:389`), and a store between its two reads can show
  the old and the new version of a fact.
- Keys, scopes and identities: each request is decided on its own from a row read in
  that request. The decisions are tables, which the tests enumerate.
- Of the adapters: the plugin for opencode, the CLI of claude-code, the MCP server of
  codex, which convert and forward; and the recall of memories into a prompt.
- Job listing and reading, audit entries, metrics: nothing decides on them.
- HTTP client, installer, benchmark and frontend: conversion, measurement, display.

## 7. Plan

1. An abstract capture (a turn is waiting, delivered or missed) that `TurnCapture`
   implements, and an abstract fact (its versions, each kept or forgotten) that
   `FactStore` implements, both with their refinement proved.
2. The scheduled run's mode inline, which claims beside the worker, and the recall of
   the adapters.
3. The two reads of a search beside a store (`search_pipeline.py:293`).
