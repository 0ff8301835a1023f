---------------------------- MODULE TaskLifecycle ----------------------------
(***************************************************************************)
(* Tasks of one user: the tasks table, the memories that back them (mem0   *)
(* and its copy memory_cache), the agents that write summaries, close and  *)
(* archive tasks and forget memories (backend/routers), and the cleanup,   *)
(* normalize_tasks, as an admin or a consolidation runs it.                *)
(*                                                                         *)
(* The cleanup reads the tasks, then the tasks that have a memory, decides *)
(* on both, and writes at the end in one transaction; while it deletes     *)
(* memories in the backend that transaction is open.  One step is one call *)
(* of the backend or one SQLite transaction or SELECT; the row by row      *)
(* writes of the cache rebuild are one step (FactStore has them).          *)
(*                                                                         *)
(* Titles and summaries are abstracted to what classify_task_kind makes of *)
(* the row that is stored, work or not.  Noise is left from before tasks   *)
(* were classified, or written by a summary: the title is cut when it is   *)
(* stored, after the summary was taken for work.                           *)
(***************************************************************************)
EXTENDS Integers, FiniteSets

CONSTANTS
  Tasks,         \* task ids
  Ids,           \* memory ids
  Projects,      \* project ids, and none
  ProjectOf,     \* the project that a memory id is stored with
  Executors,     \* threads that serve requests
  Null,
  FieldCounts,   \* how many fields of a summary are stored: of at most 4
  Requests,      \* cleanups asked for
  OneCleanup,    \* do cleanups come one after the other?
  MaxSummaries,  \* bound: summaries written
  MaxFaults      \* bound: calls that raise without effect, and crashes

\* scoped: with a user; projects: the one asked for, or all of them.
Request == [scoped : BOOLEAN, projects : SUBSET Projects, archiveNoise : BOOLEAN,
            pruneNoise : BOOLEAN, archiveBare : BOOLEAN, pruneBare : BOOLEAN,
            archiveClosed : BOOLEAN]

\* closed_at, archived_at and updated_at are written and decide nothing here.
Row == [status : {"active", "closed", "archived"}, work : BOOLEAN, project : Projects]

ASSUME TaskConstantsOK ==
  /\ FieldCounts \subseteq 1 .. 4
  /\ Requests \subseteq Request
  /\ ProjectOf \in [Ids -> Projects]
  /\ OneCleanup \in BOOLEAN
  /\ {MaxSummaries, MaxFaults} \subseteq Nat
  /\ Null \notin Tasks \cup Ids \cup Executors \cup Projects \cup Request \cup Row

VARIABLES
  tasks,      \* the table: task id -> row, or Null
  mem,        \* the backend: memory id -> the task it is about, or Null
  cache,      \* memory_cache, likewise
  exec,       \* what each executor is doing, with the handler's variables
  lock,       \* the executor whose transaction holds the write lock, or Null
  summaries,  \* summaries begun so far (bounded by MaxSummaries)
  faults,     \* calls that raised and crashes so far (bounded by MaxFaults)
  overlapped  \* history: another handler ran beside the latest cleanup

vars == <<tasks, mem, cache, exec, lock, summaries, faults, overlapped>>

-----------------------------------------------------------------------------
(* Rows and handlers *)

Noise == {r \in Row : r.status = "active" /\ ~r.work}

Stored(s) == {i \in Ids : s[i] # Null}

\* fetch_task_ids_with_memory, and the same for the backend
Backed(s, projects) == {s[i] : i \in {j \in Stored(s) : ProjectOf[j] \in projects}}

Ops == {"none", "summary", "forget", "cleanup"}

Places == {"idle", "upsert", "add", "cache", "uncache",
           "rebuild", "refresh", "rows", "backed", "decide", "prune", "closed"}

Handler == [op : Ops, pc : Places, task : Tasks \cup {Null}, found : BOOLEAN,
            project : Projects \cup {Null}, fields : 0 .. 4, id : Ids \cup {Null},
            req : Request \cup {Null}, items : [Ids -> Tasks \cup {Null}],
            rows : [Tasks -> Row \cup {Null}], backed : SUBSET Tasks,
            todo : SUBSET Ids, deleted : SUBSET Ids, failed : BOOLEAN]

NoItems == [i \in Ids |-> Null]
NoRows == [t \in Tasks |-> Null]

Idle == [op |-> "none", pc |-> "idle", task |-> Null, found |-> FALSE,
         project |-> Null, fields |-> 0, id |-> Null, req |-> Null,
         items |-> NoItems, rows |-> NoRows, backed |-> {}, todo |-> {},
         deleted |-> {}, failed |-> FALSE]

Busy(e) == exec[e].op # "none"
Goto(e, h) == exec' = [exec EXCEPT ![e] = h]

\* Another executor's transaction blocks every write.
MayWrite(e) == lock \in {Null, e}

\* Some tasks are old noise, and each of them may have a memory.
Init ==
  /\ tasks \in [Tasks -> {Null} \cup Noise]
  /\ mem \in [Ids -> Tasks \cup {Null}]
  /\ \A i, j \in Ids : mem[i] # Null /\ mem[i] = mem[j] => i = j
  /\ \A i \in Stored(mem) : tasks[mem[i]] # Null
  /\ cache = mem
  /\ exec = [e \in Executors |-> Idle]
  /\ lock = Null
  /\ summaries = 0
  /\ faults = 0
  /\ overlapped = FALSE

InCleanup == \E e \in Executors : exec[e].op = "cleanup"

\* An executor takes a request other than a cleanup.
Begin(e) ==
  /\ ~Busy(e)
  /\ overlapped' = InCleanup

FreeIds ==
  Ids \ (Stored(mem) \cup Stored(cache) \cup
         UNION {{exec[e].id} \cup exec[e].todo \cup exec[e].deleted
                  \cup Stored(exec[e].items) : e \in Executors})

-----------------------------------------------------------------------------
(* POST /v1/task-summaries *)

\* The summary is taken for work and upsert_task looks for the task.
BeginSummary(e, t, project) ==
  /\ Begin(e)
  /\ summaries < MaxSummaries
  /\ summaries' = summaries + 1
  /\ \E n \in FieldCounts :
       Goto(e, [Idle EXCEPT !.op = "summary", !.pc = "upsert", !.task = t,
                            !.found = (tasks[t] # Null), !.project = project,
                            !.fields = n])
  /\ UNCHANGED <<tasks, mem, cache, lock, faults>>

\* A task that exists keeps its status, whatever the answer says, and moves to
\* the project of the summary.
Updated(r, project, work) == [r EXCEPT !.project = project, !.work = work]

\* UPDATE, of no row when the task was pruned meanwhile.
UpdateTask(e) ==
  LET h == exec[e] IN
  /\ h.pc = "upsert" /\ h.found
  /\ MayWrite(e)
  /\ \E work \in BOOLEAN :
       tasks' = [tasks EXCEPT ![h.task] =
                   IF @ = Null THEN Null ELSE Updated(@, h.project, work)]
  /\ Goto(e, [h EXCEPT !.pc = "add"])
  /\ UNCHANGED <<mem, cache, lock, summaries, faults, overlapped>>

\* INSERT; another request may have inserted the task since the SELECT.
InsertTask(e) ==
  LET h == exec[e] IN
  /\ h.pc = "upsert" /\ ~h.found
  /\ MayWrite(e)
  /\ IF tasks[h.task] = Null
       THEN /\ \E work \in BOOLEAN :
                 tasks' = [tasks EXCEPT ![h.task] =
                             [status |-> "active", work |-> work, project |-> h.project]]
            /\ Goto(e, [h EXCEPT !.pc = "add"])
       ELSE /\ Goto(e, Idle)
            /\ UNCHANGED tasks
  /\ UNCHANGED <<mem, cache, lock, summaries, faults, overlapped>>

\* One memory for each field of the summary: memory_backend.add
AddMemory(e) ==
  LET h == exec[e] IN
  /\ h.pc = "add"
  /\ \E i \in FreeIds :
       /\ ProjectOf[i] = h.project
       /\ mem' = [mem EXCEPT ![i] = h.task]
       /\ Goto(e, [h EXCEPT !.pc = "cache", !.id = i])
  /\ UNCHANGED <<tasks, cache, lock, summaries, faults, overlapped>>

\* cache_memory_record, and on to the next field
CacheMemory(e) ==
  LET h == exec[e] IN
  /\ h.pc = "cache"
  /\ MayWrite(e)
  /\ cache' = [cache EXCEPT ![h.id] = h.task]
  /\ Goto(e, IF h.fields = 1 THEN Idle
             ELSE [h EXCEPT !.pc = "add", !.fields = @ - 1, !.id = Null])
  /\ UNCHANGED <<tasks, mem, lock, summaries, faults, overlapped>>

-----------------------------------------------------------------------------
(* Close, archive and forget *)

MayCloseMutant(r) == TRUE
MayClose(r) == r.status # "archived"

Close(t) ==
  /\ lock = Null
  /\ tasks[t] # Null
  /\ MayClose(tasks[t])
  /\ tasks' = [tasks EXCEPT ![t].status = "closed"]
  /\ UNCHANGED <<mem, cache, exec, lock, summaries, faults, overlapped>>

Archive(t) ==
  /\ lock = Null
  /\ tasks[t] # Null
  /\ tasks' = [tasks EXCEPT ![t].status = "archived"]
  /\ UNCHANGED <<mem, cache, exec, lock, summaries, faults, overlapped>>

\* DELETE /v1/memories/{memory_id}: the backend first, then the cache
Forget(e, i) ==
  /\ Begin(e)
  /\ mem[i] # Null
  /\ mem' = [mem EXCEPT ![i] = Null]
  /\ Goto(e, [Idle EXCEPT !.op = "forget", !.pc = "uncache", !.id = i])
  /\ UNCHANGED <<tasks, cache, lock, summaries, faults>>

Uncache(e) ==
  LET h == exec[e] IN
  /\ h.pc = "uncache"
  /\ MayWrite(e)
  /\ cache' = [cache EXCEPT ![h.id] = Null]
  /\ Goto(e, Idle)
  /\ UNCHANGED <<tasks, mem, lock, summaries, faults, overlapped>>

-----------------------------------------------------------------------------
(* Cleanup: POST /v1/tasks/normalize, and the start of a consolidation *)

\* Without a user a consolidation does not rebuild the cache.
BeginCleanup(e, req) ==
  /\ ~Busy(e)
  /\ OneCleanup => ~InCleanup
  /\ overlapped' = \E f \in Executors : Busy(f)
  /\ Goto(e, [Idle EXCEPT !.op = "cleanup", !.req = req,
                          !.pc = IF req.scoped THEN "rebuild" ELSE "rows"])
  /\ UNCHANGED <<tasks, mem, cache, lock, summaries, faults>>

\* rebuild_memory_cache: get_all, ...
ReadItems(e) ==
  LET h == exec[e] IN
  /\ h.pc = "rebuild"
  /\ Goto(e, [h EXCEPT !.pc = "refresh", !.items = mem])
  /\ UNCHANGED <<tasks, mem, cache, lock, summaries, faults, overlapped>>

\* ... its rows written, and the rows of other memories deleted.
RefreshedMutant(h) == [i \in Ids |-> IF h.items[i] = Null THEN cache[i] ELSE h.items[i]]
Refreshed(h) == h.items

Refresh(e) ==
  LET h == exec[e] IN
  /\ h.pc = "refresh"
  /\ MayWrite(e)
  /\ cache' = Refreshed(h)
  /\ Goto(e, [h EXCEPT !.pc = "rows", !.items = NoItems])
  /\ UNCHANGED <<tasks, mem, lock, summaries, faults, overlapped>>

RowsIn(projects) ==
  [t \in Tasks |-> IF tasks[t] # Null /\ tasks[t].project \in projects
                     THEN tasks[t] ELSE Null]

ReadRows(e) ==
  LET h == exec[e] IN
  /\ h.pc = "rows"
  /\ Goto(e, [h EXCEPT !.pc = "backed", !.rows = RowsIn(h.req.projects)])
  /\ UNCHANGED <<tasks, mem, cache, lock, summaries, faults, overlapped>>

ReadBacked(e) ==
  LET h == exec[e] IN
  /\ h.pc = "backed"
  /\ Goto(e, [h EXCEPT !.pc = "decide", !.backed = Backed(cache, h.req.projects)])
  /\ UNCHANGED <<tasks, mem, cache, lock, summaries, faults, overlapped>>

WithStatus(h, status) ==
  {t \in Tasks : h.rows[t] # Null /\ h.rows[t].status = status}
Work(h) == {t \in Tasks : h.rows[t] # Null /\ h.rows[t].work}
BareMutant(h) == Work(h)
Bare(h) == Work(h) \ h.backed

\* What the request lets the cleanup archive and delete.
ToArchive(h) ==
  WithStatus(h, "active") \cap
    ((IF h.req.archiveNoise THEN Tasks \ Work(h) ELSE {}) \cup
     (IF h.req.archiveBare THEN Bare(h) ELSE {}))
NoiseToPrune(h) ==
  IF h.req.pruneNoise THEN WithStatus(h, "archived") \ Work(h) ELSE {}
BareToPrune(h) ==
  IF h.req.pruneBare THEN WithStatus(h, "archived") \cap Bare(h) ELSE {}

\* The UPDATEs open the transaction, one that only rewrites a title included;
\* then the cached memories of the noise are looked up.
Decide(e) ==
  LET h == exec[e] IN
  /\ h.pc = "decide"
  /\ MayWrite(e)
  /\ \E retitles \in BOOLEAN :
       lock' = IF ToArchive(h) # {} \/ retitles THEN e ELSE Null
  /\ Goto(e, [h EXCEPT !.pc = "prune",
                       !.todo = {i \in Stored(cache) : cache[i] \in NoiseToPrune(h)}])
  /\ UNCHANGED <<tasks, mem, cache, summaries, faults, overlapped>>

\* memory_backend.delete: an exception is caught and remembered.
PruneMemory(e) ==
  LET h == exec[e] IN
  /\ h.pc = "prune"
  /\ \E i \in h.todo :
       IF mem[i] # Null
         THEN /\ mem' = [mem EXCEPT ![i] = Null]
              /\ Goto(e, [h EXCEPT !.todo = @ \ {i}, !.deleted = @ \cup {i}])
         ELSE /\ Goto(e, [h EXCEPT !.todo = @ \ {i}, !.failed = TRUE])
              /\ UNCHANGED mem
  /\ UNCHANGED <<tasks, cache, lock, summaries, faults, overlapped>>

\* One failure rolls everything in SQLite back.
MayCommitMutant(h) == TRUE
MayCommit(h) == ~h.failed

Cleaned(h, t) ==
  IF tasks[t] = Null \/ t \in NoiseToPrune(h) \cup BareToPrune(h) THEN Null
  ELSE IF t \in ToArchive(h) THEN [tasks[t] EXCEPT !.status = "archived"]
  ELSE tasks[t]

\* The DELETEs and the commit.
Commit(e) ==
  LET h == exec[e] IN
  /\ h.pc = "prune" /\ h.todo = {}
  /\ MayCommit(h)
  /\ MayWrite(e)
  /\ tasks' = [t \in Tasks |-> Cleaned(h, t)]
  /\ cache' = [i \in Ids |-> IF i \in h.deleted THEN Null ELSE cache[i]]
  /\ lock' = Null
  /\ Goto(e, IF h.req.archiveClosed
               THEN [Idle EXCEPT !.op = "cleanup", !.pc = "closed", !.req = h.req]
               ELSE Idle)
  /\ UNCHANGED <<mem, summaries, faults, overlapped>>

\* Everything ends the request but a deletion in the backend.
UnlockedMutant(e) == lock
Unlocked(e) == IF lock = e THEN Null ELSE lock

RollBack(e) ==
  LET h == exec[e] IN
  /\ h.pc = "prune" /\ h.todo = {}
  /\ ~MayCommit(h)
  /\ lock' = Unlocked(e)
  /\ Goto(e, Idle)
  /\ UNCHANGED <<tasks, mem, cache, summaries, faults, overlapped>>

\* The consolidation archives every closed task, whoever's it is.
ArchiveClosed(e) ==
  LET h == exec[e] IN
  /\ h.pc = "closed"
  /\ MayWrite(e)
  /\ tasks' = [t \in Tasks |->
                 IF tasks[t] # Null /\ tasks[t].status = "closed"
                   THEN [tasks[t] EXCEPT !.status = "archived"] ELSE tasks[t]]
  /\ Goto(e, Idle)
  /\ UNCHANGED <<mem, cache, lock, summaries, faults, overlapped>>

-----------------------------------------------------------------------------

\* A call raises and has changed nothing, a write that waited for the lock in
\* vain included.
CallFails(e) ==
  LET h == exec[e] IN
  /\ Busy(e)
  /\ faults < MaxFaults
  /\ faults' = faults + 1
  /\ IF h.pc = "prune" /\ h.todo # {}
       THEN /\ \E i \in h.todo :
                 Goto(e, [h EXCEPT !.todo = @ \ {i}, !.failed = TRUE])
            /\ UNCHANGED lock
       ELSE /\ Goto(e, Idle)
            /\ lock' = Unlocked(e)
  /\ UNCHANGED <<tasks, mem, cache, summaries, overlapped>>

\* The API process dies; SQLite rolls an open transaction back.
Crash ==
  /\ \E e \in Executors : Busy(e)
  /\ faults < MaxFaults
  /\ faults' = faults + 1
  /\ exec' = [e \in Executors |-> Idle]
  /\ lock' = Null
  /\ UNCHANGED <<tasks, mem, cache, summaries, overlapped>>

Proceed(e) ==
  \/ UpdateTask(e)
  \/ InsertTask(e)
  \/ AddMemory(e)
  \/ CacheMemory(e)
  \/ Uncache(e)
  \/ ReadItems(e)
  \/ Refresh(e)
  \/ ReadRows(e)
  \/ ReadBacked(e)
  \/ Decide(e)
  \/ PruneMemory(e)
  \/ Commit(e)
  \/ RollBack(e)
  \/ ArchiveClosed(e)

Next ==
  \/ \E e \in Executors :
       \/ \E t \in Tasks, p \in Projects : BeginSummary(e, t, p)
       \/ \E i \in Ids : Forget(e, i)
       \/ \E req \in Requests : BeginCleanup(e, req)
       \/ Proceed(e)
       \/ CallFails(e)
  \/ \E t \in Tasks : Close(t) \/ Archive(t)
  \/ Crash

Spec == Init /\ [][Next]_vars

\* Handlers run to their end.  The timer keeps asking for the user's
\* consolidation (MEMORY_CONSOLIDATE_USER_ID is set, and so is
\* MEMORY_CONSOLIDATE_PRUNE_NON_WORK_ARCHIVED) and it gets its turn.
Pruning == {req \in Requests : /\ req.scoped /\ req.projects = Projects
                              /\ req.archiveNoise /\ req.pruneNoise /\ req.archiveClosed}

Fairness ==
  /\ \A e \in Executors : WF_vars(Proceed(e))
  /\ SF_vars(\E e \in Executors, req \in Pruning : BeginCleanup(e, req))

FairSpec == Spec /\ Fairness

-----------------------------------------------------------------------------
(* Properties *)

\* Rows, memories and handlers have the shape the code gives them, and the
\* write lock is held by a cleanup that deletes memories.
TypeOK ==
  /\ tasks \in [Tasks -> Row \cup {Null}]
  /\ mem \in [Ids -> Tasks \cup {Null}]
  /\ cache \in [Ids -> Tasks \cup {Null}]
  /\ exec \in [Executors -> Handler]
  /\ lock \in {Null} \cup {e \in Executors : exec[e].pc = "prune"}
  /\ summaries \in 0 .. MaxSummaries
  /\ faults \in 0 .. MaxFaults
  /\ overlapped \in BOOLEAN

\* While cleanups come one after the other, no request, however it interleaves
\* with others, brings a closed task back to active or an archived one back
\* from the archive; a task is only pruned from there.
StatusAdvances ==
  [][\A t \in Tasks : tasks[t] # Null =>
       CASE tasks[t].status = "active"   -> tasks'[t] # Null
         [] tasks[t].status = "closed"   -> tasks'[t] # Null /\ tasks'[t].status # "active"
         [] tasks[t].status = "archived" -> tasks'[t] = Null \/ tasks'[t].status = "archived"]_vars

\* A step of a cleanup of the user, with no other handler beside it; or with.
Cleans(e) ==
  exec[e].op = "cleanup" /\ exec[e].req.scoped /\ exec'[e] # exec[e]
CleansAlone(e) == Cleans(e) /\ ~overlapped

\* An active task that is work and has a memory in one of the projects stays as it is.
KeptIfBacked(t, projects) ==
  /\ tasks[t] # Null /\ tasks[t].work /\ tasks[t].status = "active"
  /\ t \in Backed(mem, projects)
  => tasks'[t] = tasks[t]

WorkIsKept == \A t \in Tasks : tasks[t] # Null => KeptIfBacked(t, {tasks[t].project})

\* No cleanup of the user takes an active task from the list that is work and has
\* a memory in its project, if the cleanup runs alone; a cleanup of one project
\* judges the tasks of that project by the memories of that project.
CleanupKeepsWork == [][\A e \in Executors : CleansAlone(e) => WorkIsKept]_vars

\* A cleanup of the user deletes noise only when no memory of it is left in
\* either store, and work only when none is left in the projects it cleans,
\* although it deletes memories one by one and any deletion may fail.  (If it
\* runs alone.)
PruneIsBare ==
  \A e \in Executors, t \in Tasks :
    CleansAlone(e) /\ tasks[t] # Null /\ tasks'[t] = Null =>
      LET projects == IF tasks[t].work THEN exec[e].req.projects ELSE Projects
      IN  t \notin Backed(mem', projects) \cup Backed(cache', projects)

PruneLeavesNoMemory == [][PruneIsBare]_vars

\* Noise is archived and pruned in the end, that of summaries too, although a
\* deletion that failed, or a crash in the middle of a prune, leaves cached rows
\* whose memory is gone and whose deletion would fail again.
NoiseGoes == <>[](\A t \in Tasks : tasks[t] # Null => tasks[t].work)
=============================================================================
