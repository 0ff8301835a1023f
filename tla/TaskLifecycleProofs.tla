------------------------- MODULE TaskLifecycleProofs -------------------------
(***************************************************************************)
(* Proofs about TaskLifecycle, for any tasks, memories, executors and      *)
(* bounds: the state keeps its shape; while cleanups come one after the    *)
(* other, no step brings a closed or archived task back; and a cleanup of  *)
(* the user that runs alone keeps active work that has a memory, and       *)
(* prunes a task only when no memory of it is left.                        *)
(***************************************************************************)
EXTENDS TaskLifecycle, TLAPS

CleanupPlaces == {"rebuild", "refresh", "rows", "backed", "decide", "prune", "closed"}

\* Only a cleanup is in a place of a cleanup, and a summary that is not done
\* has a project and a field left to store.
HandlerInv ==
  /\ \A e \in Executors : exec[e].pc \in CleanupPlaces => exec[e].op = "cleanup"
  /\ \A e \in Executors : exec[e].pc \in {"upsert", "add", "cache"} =>
       exec[e].fields \in 1 .. 4 /\ exec[e].project \in Projects

\* TypeOK is not inductive alone: an executor that begins a request must not
\* hold the lock, and the count of fields must not pass zero.
TaskInv == TypeOK /\ HandlerInv

Locker == {Null} \cup {e \in Executors : exec[e].pc = "prune"}

LEMMA InitTaskInv == Init => TaskInv
  <1> SUFFICES ASSUME Init PROVE TaskInv
    OBVIOUS
  <1> USE TaskConstantsOK
  <1>1. Noise \subseteq Row
    BY DEF Noise
  <1>2. Idle \in Handler
    BY DEF Idle, Handler, Ops, Places, NoItems, NoRows, Row
  <1>3. TypeOK
    <2>1. tasks \in [Tasks -> Row \cup {Null}]
      BY <1>1 DEF Init
    <2>2. exec \in [Executors -> Handler]
      BY <1>2 DEF Init
    <2>3. summaries \in 0 .. MaxSummaries /\ faults \in 0 .. MaxFaults
      <3>1. MaxSummaries \in Nat /\ MaxFaults \in Nat
        OBVIOUS
      <3> QED
        BY <3>1 DEF Init
    <2> QED
      BY <2>1, <2>2, <2>3 DEF Init, TypeOK
  <1>4. HandlerInv
    BY DEF Init, HandlerInv, Idle, CleanupPlaces
  <1> QED
    BY <1>3, <1>4 DEF TaskInv

\* What an executor's step must keep of its handler for the invariant, when the
\* lock stays where it is, goes to that executor or is let go.
LEMMA HandlerStep ==
  ASSUME TaskInv, NEW e \in Executors, NEW h \in Handler, Goto(e, h),
         h.pc \in CleanupPlaces => h.op = "cleanup",
         h.pc \in {"upsert", "add", "cache"} => h.fields \in 1 .. 4 /\ h.project \in Projects,
         \/ lock' = lock /\ (lock = e => h.pc = "prune")
         \/ lock' = e /\ h.pc = "prune"
         \/ lock' = Null
  PROVE  exec' \in [Executors -> Handler] /\ HandlerInv' /\ lock' \in Locker'
  <1> USE TaskConstantsOK
  <1>1. exec \in [Executors -> Handler]
    BY DEF TaskInv, TypeOK
  <1>2. exec' = [exec EXCEPT ![e] = h]
    BY DEF Goto
  <1>3. exec' \in [Executors -> Handler]
    BY <1>1, <1>2
  <1>4. /\ exec'[e] = h
        /\ \A f \in Executors : f # e => exec'[f] = exec[f]
    BY <1>1, <1>2
  <1>5. HandlerInv'
    BY <1>4 DEF TaskInv, HandlerInv
  <1>6. lock' \in Locker'
    BY <1>4 DEF TaskInv, TypeOK, Locker
  <1> QED
    BY <1>3, <1>5, <1>6

\* An executor between two requests, or at a place where the transaction is not
\* open, does not hold the write lock.
LEMMA NotLocker ==
  ASSUME TaskInv, NEW e \in Executors, exec[e].pc # "prune" \/ ~Busy(e)
  PROVE  lock # e
  BY TaskConstantsOK DEF TaskInv, TypeOK, HandlerInv, Busy, CleanupPlaces

LEMMA IdleHandler ==
  Idle \in Handler /\ Idle.pc = "idle" /\ Idle.op = "none"
  BY TaskConstantsOK DEF Idle, Handler, Ops, Places, NoItems, NoRows, Row

LEMMA StepTaskInv == TaskInv /\ [Next]_vars => TaskInv'
  <1> SUFFICES ASSUME TaskInv, [Next]_vars PROVE TaskInv'
    OBVIOUS
  <1> USE TaskConstantsOK
  <1>0. /\ tasks \in [Tasks -> Row \cup {Null}]
        /\ mem \in [Ids -> Tasks \cup {Null}]
        /\ cache \in [Ids -> Tasks \cup {Null}]
        /\ exec \in [Executors -> Handler]
        /\ summaries \in 0 .. MaxSummaries /\ faults \in 0 .. MaxFaults
        /\ overlapped \in BOOLEAN
        /\ lock \in Locker
    BY DEF TaskInv, TypeOK, Locker
  <1>1. ASSUME NEW e \in Executors, NEW t \in Tasks, NEW p \in Projects,
               BeginSummary(e, t, p) PROVE TaskInv'
    <2>1. PICK n \in FieldCounts :
            Goto(e, [Idle EXCEPT !.op = "summary", !.pc = "upsert", !.task = t,
                                 !.found = (tasks[t] # Null), !.project = p,
                                 !.fields = n])
      BY <1>1 DEF BeginSummary
    <2> DEFINE h == [Idle EXCEPT !.op = "summary", !.pc = "upsert", !.task = t,
                                 !.found = (tasks[t] # Null), !.project = p,
                                 !.fields = n]
    <2>2. h \in Handler /\ h.pc = "upsert" /\ h.fields \in 1 .. 4 /\ h.project \in Projects
      <3>1. n \in 1 .. 4 /\ n \in 0 .. 4
        OBVIOUS
      <3> QED
        BY <3>1, IdleHandler DEF Handler, Ops, Places
    <2>3. lock' = lock /\ lock # e
      BY <1>1, NotLocker DEF BeginSummary, Begin
    <2>4. exec' \in [Executors -> Handler] /\ HandlerInv' /\ lock' \in Locker'
      <3> HIDE DEF h
      <3> QED BY <2>1, <2>2, <2>3, HandlerStep DEF h, CleanupPlaces
    <2>5. overlapped' \in BOOLEAN /\ summaries' \in 0 .. MaxSummaries
      BY <1>0, <1>1 DEF BeginSummary, Begin, InCleanup
    <2> QED
      BY <1>0, <1>1, <2>4, <2>5 DEF BeginSummary, TaskInv, TypeOK, Locker
  <1>2. ASSUME NEW e \in Executors, NEW i \in Ids, Forget(e, i) PROVE TaskInv'
    <2> DEFINE h == [Idle EXCEPT !.op = "forget", !.pc = "uncache", !.id = i]
    <2>2. h \in Handler /\ h.pc = "uncache"
      BY IdleHandler DEF Handler, Ops, Places
    <2>3. lock' = lock /\ lock # e /\ Goto(e, h)
      BY <1>2, NotLocker DEF Forget, Begin
    <2>4. exec' \in [Executors -> Handler] /\ HandlerInv' /\ lock' \in Locker'
      <3> HIDE DEF h
      <3> QED BY <2>2, <2>3, HandlerStep DEF CleanupPlaces
    <2>5. overlapped' \in BOOLEAN /\ mem' \in [Ids -> Tasks \cup {Null}]
      BY <1>0, <1>2 DEF Forget, Begin, InCleanup
    <2> QED
      BY <1>0, <1>2, <2>4, <2>5 DEF Forget, TaskInv, TypeOK, Locker
  <1>3. ASSUME NEW e \in Executors, NEW req \in Requests, BeginCleanup(e, req)
        PROVE  TaskInv'
    <2> DEFINE h == [Idle EXCEPT !.op = "cleanup", !.req = req,
                                 !.pc = IF req.scoped THEN "rebuild" ELSE "rows"]
    <2>2. h \in Handler /\ h.pc \in {"rebuild", "rows"} /\ h.op = "cleanup"
      BY IdleHandler DEF Handler, Ops, Places
    <2>3. lock' = lock /\ lock # e /\ Goto(e, h)
      BY <1>3, NotLocker DEF BeginCleanup
    <2>4. exec' \in [Executors -> Handler] /\ HandlerInv' /\ lock' \in Locker'
      <3> HIDE DEF h
      <3> QED BY <2>2, <2>3, HandlerStep
    <2>5. overlapped' \in BOOLEAN
      BY <1>3 DEF BeginCleanup
    <2> QED
      BY <1>0, <1>3, <2>4, <2>5 DEF BeginCleanup, TaskInv, TypeOK, Locker
  <1>4. ASSUME NEW e \in Executors, Proceed(e) PROVE TaskInv'
    <2> DEFINE h == exec[e]
    <2>0. h \in Handler
      BY <1>0
    <2>1. CASE UpdateTask(e)
      <3>1. [h EXCEPT !.pc = "add"] \in Handler
        BY <2>0 DEF Handler, Places
      <3>2. exec' \in [Executors -> Handler] /\ HandlerInv' /\ lock' \in Locker'
        BY <2>0, <2>1, <3>1, HandlerStep, NotLocker
           DEF UpdateTask, Handler, CleanupPlaces, TaskInv, HandlerInv
      <3>3. tasks' \in [Tasks -> Row \cup {Null}]
        <4>0. PICK work \in BOOLEAN :
                tasks' = [tasks EXCEPT ![h.task] =
                            IF @ = Null THEN Null ELSE Updated(@, h.project, work)]
          BY <2>1 DEF UpdateTask
        <4> DEFINE new == IF tasks[h.task] = Null THEN Null
                          ELSE Updated(tasks[h.task], h.project, work)
        <4>1. ASSUME h.task \in Tasks PROVE new \in Row \cup {Null}
          <5>1. h.project \in Projects
            BY <2>1 DEF UpdateTask, TaskInv, HandlerInv
          <5>2. \A r \in Row : Updated(r, h.project, work) \in Row
            BY <4>0, <5>1 DEF Updated, Row
          <5>3. tasks[h.task] \in Row \cup {Null}
            BY <1>0, <4>1
          <5> QED
            BY <5>2, <5>3
        <4>2. tasks' = [tasks EXCEPT ![h.task] = new]
          BY <4>0
        <4> HIDE DEF new
        <4> QED
          BY <1>0, <4>1, <4>2
      <3> QED
        BY <1>0, <2>1, <3>2, <3>3 DEF UpdateTask, TaskInv, TypeOK, Locker
    <2>2. CASE InsertTask(e)
      <3>1. [h EXCEPT !.pc = "add"] \in Handler
        BY <2>0 DEF Handler, Places
      <3>2. exec' \in [Executors -> Handler] /\ HandlerInv' /\ lock' \in Locker'
        <4>1. CASE Goto(e, [h EXCEPT !.pc = "add"])
          BY <2>0, <2>2, <3>1, <4>1, HandlerStep, NotLocker
             DEF InsertTask, Handler, CleanupPlaces, TaskInv, HandlerInv
        <4>2. CASE Goto(e, Idle)
          BY <2>2, <4>2, IdleHandler, HandlerStep, NotLocker
             DEF InsertTask, CleanupPlaces
        <4> QED
          BY <2>2, <4>1, <4>2 DEF InsertTask
      <3>3. tasks' \in [Tasks -> Row \cup {Null}]
        <4>1. CASE tasks' = tasks
          BY <1>0, <4>1
        <4>2. CASE tasks' # tasks
          <5>1. PICK work \in BOOLEAN :
                  tasks' = [tasks EXCEPT ![h.task] =
                              [status |-> "active", work |-> work, project |-> h.project]]
            BY <2>2, <4>2 DEF InsertTask
          <5> DEFINE r == [status |-> "active", work |-> work, project |-> h.project]
          <5>2. h.project \in Projects
            BY <2>2 DEF InsertTask, TaskInv, HandlerInv
          <5>3. r \in Row
            BY <5>1, <5>2 DEF Row
          <5>4. tasks' = [tasks EXCEPT ![h.task] = r]
            BY <5>1
          <5> HIDE DEF r
          <5> QED
            BY <1>0, <5>3, <5>4
        <4> QED
          BY <4>1, <4>2
      <3> QED
        BY <1>0, <2>2, <3>2, <3>3 DEF InsertTask, TaskInv, TypeOK, Locker
    <2>3. CASE AddMemory(e)
      <3>1. PICK i \in Ids : /\ mem' = [mem EXCEPT ![i] = h.task]
                             /\ Goto(e, [h EXCEPT !.pc = "cache", !.id = i])
        BY <2>3 DEF AddMemory, FreeIds
      <3>2. [h EXCEPT !.pc = "cache", !.id = i] \in Handler
        BY <2>0 DEF Handler, Places
      <3>3. exec' \in [Executors -> Handler] /\ HandlerInv' /\ lock' \in Locker'
        BY <2>0, <2>3, <3>1, <3>2, HandlerStep, NotLocker
           DEF AddMemory, Handler, CleanupPlaces, TaskInv, HandlerInv
      <3>4. mem' \in [Ids -> Tasks \cup {Null}]
        BY <1>0, <2>0, <3>1 DEF Handler
      <3> QED
        BY <1>0, <2>3, <3>3, <3>4 DEF AddMemory, TaskInv, TypeOK, Locker
    <2>4. CASE CacheMemory(e)
      <3>1. h.fields \in 1 .. 4
        BY <2>4 DEF CacheMemory, TaskInv, HandlerInv
      <3> DEFINE g == [h EXCEPT !.pc = "add", !.fields = @ - 1, !.id = Null]
      <3>2. exec' \in [Executors -> Handler] /\ HandlerInv' /\ lock' \in Locker'
        <4>1. CASE h.fields = 1
          <5>1. Goto(e, Idle) /\ lock' = lock /\ lock # e
            BY <2>4, <4>1, NotLocker DEF CacheMemory
          <5> QED
            BY <5>1, IdleHandler, HandlerStep DEF CleanupPlaces
        <4>2. CASE h.fields # 1
          <5>1. g \in Handler /\ g.pc = "add" /\ g.fields \in 1 .. 4 /\ g.project \in Projects
            <6>1. h.fields - 1 \in 1 .. 4 /\ h.fields - 1 \in 0 .. 4
              BY <3>1, <4>2
            <6> QED
              BY <2>0, <2>4, <6>1 DEF Handler, Places, CacheMemory, TaskInv, HandlerInv
          <5>2. Goto(e, g) /\ lock' = lock /\ lock # e
            BY <2>4, <4>2, NotLocker DEF CacheMemory
          <5> HIDE DEF g
          <5> QED
            BY <5>1, <5>2, HandlerStep DEF CleanupPlaces
        <4> QED
          BY <4>1, <4>2
      <3>3. cache' \in [Ids -> Tasks \cup {Null}]
        BY <1>0, <2>0, <2>4 DEF CacheMemory, Handler
      <3> QED
        BY <1>0, <2>4, <3>2, <3>3 DEF CacheMemory, TaskInv, TypeOK, Locker
    <2>5. CASE Uncache(e)
      <3>1. exec' \in [Executors -> Handler] /\ HandlerInv' /\ lock' \in Locker'
        BY <2>5, IdleHandler, HandlerStep, NotLocker DEF Uncache, CleanupPlaces
      <3>2. cache' \in [Ids -> Tasks \cup {Null}]
        BY <1>0, <2>5 DEF Uncache
      <3> QED
        BY <1>0, <2>5, <3>1, <3>2 DEF Uncache, TaskInv, TypeOK, Locker
    <2>6. CASE ReadItems(e)
      <3>1. [h EXCEPT !.pc = "refresh", !.items = mem] \in Handler
        BY <1>0, <2>0 DEF Handler, Places
      <3>2. exec' \in [Executors -> Handler] /\ HandlerInv' /\ lock' \in Locker'
        BY <2>0, <2>6, <3>1, HandlerStep, NotLocker
           DEF ReadItems, Handler, CleanupPlaces, TaskInv, HandlerInv
      <3> QED
        BY <1>0, <2>6, <3>2 DEF ReadItems, TaskInv, TypeOK, Locker
    <2>7. CASE Refresh(e)
      <3>1. [h EXCEPT !.pc = "rows", !.items = NoItems] \in Handler
        BY <2>0 DEF Handler, Places, NoItems
      <3>2. exec' \in [Executors -> Handler] /\ HandlerInv' /\ lock' \in Locker'
        BY <2>0, <2>7, <3>1, HandlerStep, NotLocker
           DEF Refresh, Handler, CleanupPlaces, TaskInv, HandlerInv
      <3>3. cache' \in [Ids -> Tasks \cup {Null}]
        BY <2>0, <2>7 DEF Refresh, Refreshed, Handler
      <3> QED
        BY <1>0, <2>7, <3>2, <3>3 DEF Refresh, TaskInv, TypeOK, Locker
    <2>8. CASE ReadRows(e)
      <3> DEFINE rows == RowsIn(h.req.projects)
      <3>0. rows \in [Tasks -> Row \cup {Null}]
        BY <1>0 DEF RowsIn
      <3>1. [h EXCEPT !.pc = "backed", !.rows = rows] \in Handler
        <4> HIDE DEF rows
        <4> QED
          BY <2>0, <3>0 DEF Handler, Places
      <3>2. exec' \in [Executors -> Handler] /\ HandlerInv' /\ lock' \in Locker'
        BY <2>0, <2>8, <3>1, HandlerStep, NotLocker
           DEF ReadRows, Handler, CleanupPlaces, TaskInv, HandlerInv
      <3> QED
        BY <1>0, <2>8, <3>2 DEF ReadRows, TaskInv, TypeOK, Locker
    <2>9. CASE ReadBacked(e)
      <3> DEFINE backed == Backed(cache, h.req.projects)
      <3>0. backed \in SUBSET Tasks
        BY <1>0 DEF Backed, Stored
      <3>1. [h EXCEPT !.pc = "decide", !.backed = backed] \in Handler
        <4> HIDE DEF backed
        <4> QED
          BY <2>0, <3>0 DEF Handler, Places
      <3>2. exec' \in [Executors -> Handler] /\ HandlerInv' /\ lock' \in Locker'
        BY <2>0, <2>9, <3>1, HandlerStep, NotLocker
           DEF ReadBacked, Handler, CleanupPlaces, TaskInv, HandlerInv
      <3> QED
        BY <1>0, <2>9, <3>2 DEF ReadBacked, TaskInv, TypeOK, Locker
    <2>10. CASE Decide(e)
      <3> DEFINE s == {i \in Stored(cache) : cache[i] \in NoiseToPrune(h)}
                 g == [h EXCEPT !.pc = "prune", !.todo = s]
      <3>0. s \in SUBSET Ids
        BY DEF Stored
      <3>1. g \in Handler /\ g.pc = "prune" /\ g.op = h.op
        <4> HIDE DEF s
        <4> QED
          BY <2>0, <3>0 DEF Handler, Places
      <3>2. h.op = "cleanup" /\ Goto(e, g) /\ lock' \in {e, Null}
        BY <2>10 DEF Decide, TaskInv, HandlerInv, CleanupPlaces
      <3>3. exec' \in [Executors -> Handler] /\ HandlerInv' /\ lock' \in Locker'
        <4> HIDE DEF g
        <4> QED
          BY <3>1, <3>2, HandlerStep
      <3> QED
        BY <1>0, <2>10, <3>3 DEF Decide, TaskInv, TypeOK, Locker
    <2>11. CASE PruneMemory(e)
      <3>1. PICK i \in h.todo :
              IF mem[i] # Null
                THEN /\ mem' = [mem EXCEPT ![i] = Null]
                     /\ Goto(e, [h EXCEPT !.todo = @ \ {i}, !.deleted = @ \cup {i}])
                ELSE /\ Goto(e, [h EXCEPT !.todo = @ \ {i}, !.failed = TRUE])
                     /\ UNCHANGED mem
        BY <2>11 DEF PruneMemory
      <3>2. /\ [h EXCEPT !.todo = @ \ {i}, !.deleted = @ \cup {i}] \in Handler
            /\ [h EXCEPT !.todo = @ \ {i}, !.failed = TRUE] \in Handler
        BY <2>0 DEF Handler
      <3>3. h.pc = "prune" /\ h.op = "cleanup" /\ lock' = lock
        BY <2>11 DEF PruneMemory, TaskInv, HandlerInv, CleanupPlaces
      <3>4. exec' \in [Executors -> Handler] /\ HandlerInv' /\ lock' \in Locker'
        BY <2>0, <3>1, <3>2, <3>3, HandlerStep DEF Handler
      <3>5. mem' \in [Ids -> Tasks \cup {Null}]
        BY <1>0, <3>1
      <3> QED
        BY <1>0, <2>11, <3>4, <3>5 DEF PruneMemory, TaskInv, TypeOK, Locker
    <2>12. CASE Commit(e)
      <3> DEFINE g == [Idle EXCEPT !.op = "cleanup", !.pc = "closed", !.req = h.req]
      <3>1. g \in Handler /\ g.pc = "closed" /\ g.op = "cleanup"
        BY <2>0, IdleHandler DEF Handler, Ops, Places
      <3>2. (Goto(e, g) \/ Goto(e, Idle)) /\ lock' = Null
        BY <2>12 DEF Commit
      <3>3. exec' \in [Executors -> Handler] /\ HandlerInv' /\ lock' \in Locker'
        <4> HIDE DEF g
        <4>1. CASE Goto(e, g)
          BY <3>1, <3>2, <4>1, HandlerStep
        <4>2. CASE Goto(e, Idle)
          BY <3>2, <4>2, IdleHandler, HandlerStep DEF CleanupPlaces
        <4> QED
          BY <3>2, <4>1, <4>2
      <3>4. \A t \in Tasks : Cleaned(h, t) \in Row \cup {Null}
        BY <1>0 DEF Cleaned, Row
      <3>5. tasks' \in [Tasks -> Row \cup {Null}]
        BY <2>12, <3>4 DEF Commit
      <3>6. cache' \in [Ids -> Tasks \cup {Null}]
        BY <1>0, <2>12 DEF Commit
      <3> QED
        BY <1>0, <2>12, <3>3, <3>5, <3>6 DEF Commit, TaskInv, TypeOK, Locker
    <2>13. CASE RollBack(e)
      <3>1. exec' \in [Executors -> Handler] /\ HandlerInv' /\ lock' \in Locker'
        BY <2>13, IdleHandler, HandlerStep DEF RollBack, Unlocked, CleanupPlaces
      <3> QED
        BY <1>0, <2>13, <3>1 DEF RollBack, TaskInv, TypeOK, Locker
    <2>14. CASE ArchiveClosed(e)
      <3>1. exec' \in [Executors -> Handler] /\ HandlerInv' /\ lock' \in Locker'
        BY <2>14, IdleHandler, HandlerStep, NotLocker DEF ArchiveClosed, CleanupPlaces
      <3>2. tasks' \in [Tasks -> Row \cup {Null}]
        BY <1>0, <2>14 DEF ArchiveClosed, Row
      <3> QED
        BY <1>0, <2>14, <3>1, <3>2 DEF ArchiveClosed, TaskInv, TypeOK, Locker
    <2> QED
      BY <1>4, <2>1, <2>2, <2>3, <2>4, <2>5, <2>6, <2>7, <2>8, <2>9, <2>10,
         <2>11, <2>12, <2>13, <2>14 DEF Proceed
  <1>5. ASSUME NEW e \in Executors, CallFails(e) PROVE TaskInv'
    <2> DEFINE h == exec[e]
    <2>0. h \in Handler /\ Busy(e)
      BY <1>0, <1>5 DEF CallFails
    <2>1. exec' \in [Executors -> Handler] /\ HandlerInv' /\ lock' \in Locker'
      <3>1. CASE h.pc = "prune" /\ h.todo # {}
        <4>1. PICK i \in h.todo : Goto(e, [h EXCEPT !.todo = @ \ {i}, !.failed = TRUE])
          BY <1>5, <3>1 DEF CallFails
        <4>2. [h EXCEPT !.todo = @ \ {i}, !.failed = TRUE] \in Handler
          BY <2>0 DEF Handler
        <4>3. h.op = "cleanup" /\ lock' = lock
          BY <1>5, <3>1 DEF CallFails, TaskInv, HandlerInv, CleanupPlaces
        <4> QED
          BY <2>0, <3>1, <4>1, <4>2, <4>3, HandlerStep DEF Handler
      <3>2. CASE ~(h.pc = "prune" /\ h.todo # {})
        BY <1>5, <3>2, IdleHandler, HandlerStep DEF CallFails, Unlocked, CleanupPlaces
      <3> QED
        BY <3>1, <3>2
    <2>2. faults' \in 0 .. MaxFaults
      <3>1. faults' = faults + 1 /\ faults < MaxFaults /\ MaxFaults \in Nat
        BY <1>5 DEF CallFails
      <3> QED
        BY <1>0, <3>1
    <2> QED
      BY <1>0, <1>5, <2>1, <2>2 DEF CallFails, TaskInv, TypeOK, Locker
  <1>6. ASSUME NEW t \in Tasks, Close(t) PROVE TaskInv'
    <2>1. tasks' \in [Tasks -> Row \cup {Null}]
      BY <1>0, <1>6 DEF Close, Row
    <2> QED
      BY <1>0, <1>6, <2>1 DEF Close, TaskInv, TypeOK, HandlerInv, Locker
  <1>7. ASSUME NEW t \in Tasks, Archive(t) PROVE TaskInv'
    <2>1. tasks' \in [Tasks -> Row \cup {Null}]
      BY <1>0, <1>7 DEF Archive, Row
    <2> QED
      BY <1>0, <1>7, <2>1 DEF Archive, TaskInv, TypeOK, HandlerInv, Locker
  <1>8. CASE Crash
    <2>1. exec' \in [Executors -> Handler] /\ HandlerInv'
      BY <1>8, IdleHandler DEF Crash, HandlerInv, CleanupPlaces
    <2>2. faults' \in 0 .. MaxFaults
      BY <1>0, <1>8 DEF Crash
    <2> QED
      BY <1>0, <1>8, <2>1, <2>2 DEF Crash, TaskInv, TypeOK
  <1>9. CASE UNCHANGED vars
    BY <1>9 DEF vars, TaskInv, TypeOK, HandlerInv
  <1> QED
    BY <1>1, <1>2, <1>3, <1>4, <1>5, <1>6, <1>7, <1>8, <1>9 DEF Next

\* Every state of the tasks, their memories and their handlers has its type,
\* and only a cleanup that deletes memories holds the write lock.
THEOREM TasksTyped == Spec => []TypeOK
  <1>1. TaskInv => TypeOK
    BY DEF TaskInv
  <1> QED
    BY InitTaskInv, StepTaskInv, <1>1, PTL DEF Spec

-----------------------------------------------------------------------------

\* The rows that a cleanup read as archived are archived when it decides on
\* them: nobody else can prune them, so nobody can insert them again.
OrderInv ==
  /\ \A e, f \in Executors :
       exec[e].op = "cleanup" /\ exec[f].op = "cleanup" => e = f
  /\ \A e \in Executors, t \in Tasks :
       exec[e].op = "cleanup" /\ exec[e].rows[t] # Null
         /\ exec[e].rows[t].status = "archived" =>
       tasks[t] # Null /\ tasks[t].status = "archived"

Advances(t) ==
  tasks[t] # Null =>
    CASE tasks[t].status = "active"   -> tasks'[t] # Null
      [] tasks[t].status = "closed"   -> tasks'[t] # Null /\ tasks'[t].status # "active"
      [] tasks[t].status = "archived" -> tasks'[t] = Null \/ tasks'[t].status = "archived"

\* A step that prunes nothing leaves archived tasks archived.
Keeps(t) ==
  tasks[t] # Null =>
    /\ tasks'[t] # Null
    /\ tasks[t].status = "closed" => tasks'[t].status \in {"closed", "archived"}
    /\ tasks[t].status = "archived" => tasks'[t].status = "archived"

LEMMA KeepsAdvances ==
  ASSUME TypeOK, NEW t \in Tasks, Keeps(t) PROVE Advances(t)
  <1>1. CASE tasks[t] = Null
    BY <1>1 DEF Advances
  <1>2. CASE tasks[t] # Null
    <2>1. tasks[t].status \in {"active", "closed", "archived"}
      BY <1>2 DEF TypeOK, Row
    <2> QED
      BY <1>2, <2>1 DEF Keeps, Advances
  <1> QED
    BY <1>1, <1>2

\* The handler of a step that is not a commit: it begins no second cleanup, and
\* the rows it has are those it had, or none, or those of the table.
LEMMA OrderStep ==
  ASSUME TypeOK, OrderInv, \A t \in Tasks : Keeps(t),
         NEW e \in Executors, NEW h \in Handler, Goto(e, h),
         h.op = "cleanup" => exec[e].op = "cleanup" \/ ~InCleanup,
         \A t \in Tasks : h.op = "cleanup" =>
           \/ h.rows[t] = Null
           \/ exec[e].op = "cleanup" /\ h.rows[t] = exec[e].rows[t]
           \/ h.rows[t] = tasks[t]
  PROVE  OrderInv'
  <1>1. exec' = [exec EXCEPT ![e] = h] /\ exec \in [Executors -> Handler]
    BY DEF Goto, TypeOK
  <1>2. /\ exec'[e] = h
        /\ \A f \in Executors : f # e => exec'[f] = exec[f]
    BY <1>1
  <1>3. \A f, g \in Executors :
          exec'[f].op = "cleanup" /\ exec'[g].op = "cleanup" => f = g
    BY <1>2 DEF OrderInv, InCleanup
  <1>4. ASSUME NEW f \in Executors, NEW t \in Tasks, exec'[f].op = "cleanup",
               exec'[f].rows[t] # Null, exec'[f].rows[t].status = "archived"
        PROVE  tasks'[t] # Null /\ tasks'[t].status = "archived"
    <2>1. tasks[t] # Null /\ tasks[t].status = "archived"
      BY <1>2, <1>4 DEF OrderInv
    <2> QED
      BY <2>1 DEF Keeps
  <1> QED
    BY <1>3, <1>4 DEF OrderInv

\* One case for each action: what it does to a task's status, and what its
\* handler keeps of what it read.
LEMMA StepOrder ==
  ASSUME OneCleanup, TaskInv, OrderInv, [Next]_vars
  PROVE  OrderInv' /\ \A t \in Tasks : Advances(t)
  <1> DEFINE Goal == OrderInv' /\ \A t \in Tasks : Advances(t)
  <1> USE TaskConstantsOK
  <1>0. /\ TypeOK
        /\ tasks \in [Tasks -> Row \cup {Null}]
        /\ exec \in [Executors -> Handler]
        /\ exec' \in [Executors -> Handler]
        /\ \A t \in Tasks : Null # tasks[t] => tasks[t] \in Row
    BY StepTaskInv DEF TaskInv, TypeOK
  <1>k. ASSUME UNCHANGED tasks PROVE \A t \in Tasks : Keeps(t)
    BY <1>0, <1>k DEF Keeps, Row
  <1>r. /\ \A r \in Row, p \in Projects, work \in BOOLEAN :
             Updated(r, p, work) \in Row /\ Updated(r, p, work).status = r.status
        /\ \A r \in Row, st \in {"closed", "archived"} :
             /\ [r EXCEPT !.status = st] \in Row
             /\ [r EXCEPT !.status = st].status = st
        /\ Null \notin Row
    BY DEF Row, Updated
  <1>g. ASSUME NEW e \in Executors, NEW h, Goto(e, h) PROVE h = exec'[e] /\ h \in Handler
    BY <1>0, <1>g DEF Goto
  <1>a. ASSUME \A t \in Tasks : Keeps(t) PROVE \A t \in Tasks : Advances(t)
    BY <1>0, <1>a, KeepsAdvances
  <1>1. ASSUME NEW e \in Executors, NEW s \in Tasks, NEW p \in Projects,
               BeginSummary(e, s, p) PROVE Goal
    <2>1. PICK n \in FieldCounts :
            Goto(e, [Idle EXCEPT !.op = "summary", !.pc = "upsert", !.task = s,
                                 !.found = (tasks[s] # Null), !.project = p,
                                 !.fields = n])
      BY <1>1 DEF BeginSummary
    <2> DEFINE h == [Idle EXCEPT !.op = "summary", !.pc = "upsert", !.task = s,
                                 !.found = (tasks[s] # Null), !.project = p,
                                 !.fields = n]
    <2>2. h.op = "summary"
      BY IdleHandler DEF Handler
    <2>3. \A t \in Tasks : Keeps(t)
      BY <1>1, <1>k DEF BeginSummary
    <2>4. h \in Handler /\ Goto(e, h)
      BY <1>g, <2>1
    <2> HIDE DEF h
    <2> QED
      BY <1>0, <1>a, <2>2, <2>3, <2>4, OrderStep
  <1>2. ASSUME NEW e \in Executors, NEW i \in Ids, Forget(e, i) PROVE Goal
    <2> DEFINE h == [Idle EXCEPT !.op = "forget", !.pc = "uncache", !.id = i]
    <2>1. h.op = "forget"
      BY IdleHandler DEF Handler
    <2>2. \A t \in Tasks : Keeps(t)
      BY <1>2, <1>k DEF Forget
    <2>3. Goto(e, h)
      BY <1>2 DEF Forget
    <2>4. h \in Handler
      BY <1>g, <2>3
    <2> HIDE DEF h
    <2> QED
      BY <1>0, <1>a, <2>1, <2>2, <2>3, <2>4, OrderStep
  <1>3. ASSUME NEW e \in Executors, NEW req \in Requests, BeginCleanup(e, req)
        PROVE  Goal
    <2> DEFINE h == [Idle EXCEPT !.op = "cleanup", !.req = req,
                                 !.pc = IF req.scoped THEN "rebuild" ELSE "rows"]
    <2>1. \A t \in Tasks : h.rows[t] = Null
      BY DEF Idle, NoRows
    <2>2. \A t \in Tasks : Keeps(t)
      BY <1>3, <1>k DEF BeginCleanup
    <2>3. Goto(e, h) /\ ~InCleanup
      BY <1>3 DEF BeginCleanup
    <2>4. h \in Handler
      BY <1>g, <2>3
    <2> HIDE DEF h
    <2> QED
      BY <1>0, <1>a, <2>1, <2>2, <2>3, <2>4, OrderStep
  <1>4. ASSUME NEW e \in Executors, Proceed(e) PROVE Goal
    <2> DEFINE h == exec[e]
               Same(g) == g.op = h.op /\ g.rows = h.rows
    <2>0. h \in Handler
      BY <1>0
    <2>s. ASSUME NEW g, Goto(e, g), \A t \in Tasks : Keeps(t),
                 Same(g) \/ g.op # "cleanup"
          PROVE  Goal
      <3>1. g \in Handler
        BY <1>g, <2>s
      <3> QED
        BY <1>0, <1>a, <2>s, <3>1, OrderStep
    <2>i. ASSUME Goto(e, Idle), \A t \in Tasks : Keeps(t) PROVE Goal
      BY <2>i, <2>s, IdleHandler
    <2>1. CASE UpdateTask(e)
      <3>1. \A t \in Tasks : Keeps(t)
        <4>1. PICK work \in BOOLEAN :
                tasks' = [tasks EXCEPT ![h.task] =
                            IF @ = Null THEN Null ELSE Updated(@, h.project, work)]
          BY <2>1 DEF UpdateTask
        <4>2. h.project \in Projects
          BY <2>1 DEF UpdateTask, TaskInv, HandlerInv
        <4> QED
          BY <1>0, <1>r, <4>1, <4>2 DEF Keeps
      <3>2. Same([h EXCEPT !.pc = "add"])
        BY <2>0 DEF Handler
      <3> QED
        BY <2>1, <2>s, <3>1, <3>2 DEF UpdateTask
    <2>2. CASE InsertTask(e)
      <3>1. \A t \in Tasks : Keeps(t)
        <4>1. CASE tasks[h.task] = Null
          <5>1. \A t \in Tasks : tasks[t] # Null => tasks'[t] = tasks[t]
            BY <1>0, <2>2, <4>1 DEF InsertTask
          <5> QED
            BY <1>0, <5>1 DEF Keeps, Row
        <4>2. CASE tasks[h.task] # Null
          BY <1>k, <2>2, <4>2 DEF InsertTask
        <4> QED
          BY <4>1, <4>2
      <3>2. Same([h EXCEPT !.pc = "add"])
        BY <2>0 DEF Handler
      <3> QED
        BY <2>2, <2>i, <2>s, <3>1, <3>2 DEF InsertTask
    <2>3. CASE AddMemory(e)
      <3>1. PICK i \in Ids : Goto(e, [h EXCEPT !.pc = "cache", !.id = i])
        BY <2>3 DEF AddMemory, FreeIds
      <3>2. Same([h EXCEPT !.pc = "cache", !.id = i])
        BY <2>0 DEF Handler
      <3> QED
        BY <1>k, <2>3, <2>s, <3>1, <3>2 DEF AddMemory
    <2>4. CASE CacheMemory(e)
      <3> DEFINE g == [h EXCEPT !.pc = "add", !.fields = @ - 1, !.id = Null]
      <3>1. Goto(e, Idle) \/ Goto(e, g)
        BY <2>4 DEF CacheMemory
      <3>2. Same(g)
        BY <2>0 DEF Handler
      <3>3. \A t \in Tasks : Keeps(t)
        BY <1>k, <2>4 DEF CacheMemory
      <3> HIDE DEF g
      <3> QED
        BY <2>i, <2>s, <3>1, <3>2, <3>3
    <2>5. CASE Uncache(e)
      BY <1>k, <2>5, <2>i DEF Uncache
    <2>6. CASE ReadItems(e)
      <3>1. Same([h EXCEPT !.pc = "refresh", !.items = mem])
        BY <2>0 DEF Handler
      <3> QED
        BY <1>k, <2>6, <2>s, <3>1 DEF ReadItems
    <2>7. CASE Refresh(e)
      <3>1. Same([h EXCEPT !.pc = "rows", !.items = NoItems])
        BY <2>0 DEF Handler
      <3> QED
        BY <1>k, <2>7, <2>s, <3>1 DEF Refresh
    <2>8. CASE ReadRows(e)
      <3> DEFINE g == [h EXCEPT !.pc = "backed", !.rows = RowsIn(h.req.projects)]
      <3>1. g.op = h.op /\ \A t \in Tasks : g.rows[t] = Null \/ g.rows[t] = tasks[t]
        BY <2>0 DEF Handler, RowsIn
      <3>2. h.op = "cleanup" /\ Goto(e, g)
        BY <2>8 DEF ReadRows, TaskInv, HandlerInv, CleanupPlaces
      <3>3. g \in Handler /\ \A t \in Tasks : Keeps(t)
        BY <1>g, <1>k, <2>8, <3>2 DEF ReadRows
      <3> HIDE DEF g
      <3> QED
        BY <1>0, <1>a, <3>1, <3>2, <3>3, OrderStep
    <2>9. CASE ReadBacked(e)
      <3>1. Same([h EXCEPT !.pc = "decide", !.backed = Backed(cache, h.req.projects)])
        BY <2>0 DEF Handler
      <3> QED
        BY <1>k, <2>9, <2>s, <3>1 DEF ReadBacked
    <2>10. CASE Decide(e)
      <3> DEFINE s == {i \in Stored(cache) : cache[i] \in NoiseToPrune(h)}
      <3>1. Same([h EXCEPT !.pc = "prune", !.todo = s])
        BY <2>0 DEF Handler
      <3> QED
        BY <1>k, <2>10, <2>s, <3>1 DEF Decide
    <2>11. CASE PruneMemory(e)
      <3>1. PICK i \in h.todo :
              \/ Goto(e, [h EXCEPT !.todo = @ \ {i}, !.deleted = @ \cup {i}])
              \/ Goto(e, [h EXCEPT !.todo = @ \ {i}, !.failed = TRUE])
        BY <2>11 DEF PruneMemory
      <3>2. /\ Same([h EXCEPT !.todo = @ \ {i}, !.deleted = @ \cup {i}])
            /\ Same([h EXCEPT !.todo = @ \ {i}, !.failed = TRUE])
        BY <2>0 DEF Handler
      <3>3. \A t \in Tasks : Keeps(t)
        BY <1>k, <2>11 DEF PruneMemory
      <3> QED
        BY <2>s, <3>1, <3>2, <3>3
    <2>12. CASE Commit(e)
      <3> DEFINE g == [Idle EXCEPT !.op = "cleanup", !.pc = "closed", !.req = h.req]
      <3>1. h.op = "cleanup"
        BY <2>12 DEF Commit, TaskInv, HandlerInv, CleanupPlaces
      <3>2. Goto(e, g) \/ Goto(e, Idle)
        BY <2>12 DEF Commit
      <3>3. \A t \in Tasks : g.rows[t] = Null /\ Idle.rows[t] = Null
        BY DEF Idle, NoRows
      <3> HIDE DEF g
      <3>4. exec' = [exec EXCEPT ![e] = exec'[e]]
        BY <1>0, <3>2 DEF Goto
      <3>5. \A t \in Tasks : exec'[e].rows[t] = Null
        BY <1>g, <3>2, <3>3
      <3>6. \A f \in Executors : f # e => exec'[f] = exec[f] /\ exec'[f].op # "cleanup"
        BY <1>0, <3>1, <3>4 DEF OrderInv
      <3>7. OrderInv'
        BY <3>5, <3>6 DEF OrderInv
      <3>8. ASSUME NEW t \in Tasks, tasks[t] # Null PROVE Advances(t)
        <4>1. tasks'[t] = Cleaned(h, t) /\ tasks[t] \in Row
          BY <1>0, <2>12, <3>8 DEF Commit
        <4>2. CASE t \in NoiseToPrune(h) \cup BareToPrune(h)
          <5>1. h.rows[t] # Null /\ h.rows[t].status = "archived"
            BY <4>2 DEF NoiseToPrune, BareToPrune, WithStatus
          <5>2. tasks[t].status = "archived"
            BY <3>1, <5>1 DEF OrderInv
          <5>3. tasks'[t] = Null
            BY <4>1, <4>2 DEF Cleaned
          <5> QED
            BY <5>2, <5>3 DEF Advances
        <4>3. CASE t \notin NoiseToPrune(h) \cup BareToPrune(h)
          <5>1. \/ tasks'[t] = tasks[t]
                \/ tasks'[t] = [tasks[t] EXCEPT !.status = "archived"]
            BY <3>8, <4>1, <4>3 DEF Cleaned
          <5>2. Keeps(t)
            <6>1. tasks'[t] # Null /\ tasks'[t].status \in {tasks[t].status, "archived"}
              <7>1. CASE tasks'[t] = tasks[t]
                BY <3>8, <7>1
              <7>2. CASE tasks'[t] = [tasks[t] EXCEPT !.status = "archived"]
                <8>1. [tasks[t] EXCEPT !.status = "archived"] \in Row
                  BY <1>r, <4>1
                <8>2. [tasks[t] EXCEPT !.status = "archived"].status = "archived"
                  BY <1>r, <4>1
                <8> QED
                  BY <1>r, <7>2, <8>1, <8>2
              <7> QED
                BY <5>1, <7>1, <7>2
            <6> QED
              BY <6>1 DEF Keeps
          <5> QED
            BY <1>0, <5>2, KeepsAdvances
        <4> QED
          BY <4>2, <4>3
      <3>9. \A t \in Tasks : Advances(t)
        BY <3>8 DEF Advances
      <3> QED
        BY <3>7, <3>9
    <2>13. CASE RollBack(e)
      BY <1>k, <2>13, <2>i DEF RollBack
    <2>14. CASE ArchiveClosed(e)
      <3>1. \A t \in Tasks : Keeps(t)
        BY <1>0, <1>r, <2>14 DEF ArchiveClosed, Keeps
      <3> QED
        BY <2>14, <2>i, <3>1 DEF ArchiveClosed
    <2> QED
      BY <1>4, <2>1, <2>2, <2>3, <2>4, <2>5, <2>6, <2>7, <2>8, <2>9, <2>10,
         <2>11, <2>12, <2>13, <2>14 DEF Proceed
  <1>5. ASSUME NEW e \in Executors, CallFails(e) PROVE Goal
    <2> DEFINE h == exec[e]
    <2>0. h \in Handler /\ \A t \in Tasks : Keeps(t)
      BY <1>0, <1>5, <1>k DEF CallFails
    <2>1. CASE h.pc = "prune" /\ h.todo # {}
      <3>1. PICK i \in h.todo : Goto(e, [h EXCEPT !.todo = @ \ {i}, !.failed = TRUE])
        BY <1>5, <2>1 DEF CallFails
      <3> DEFINE g == [h EXCEPT !.todo = @ \ {i}, !.failed = TRUE]
      <3>2. g.op = h.op /\ g.rows = h.rows
        BY <2>0 DEF Handler
      <3>3. g \in Handler /\ Goto(e, g)
        BY <1>g, <3>1
      <3> HIDE DEF g
      <3> QED
        BY <1>0, <1>a, <2>0, <3>2, <3>3, OrderStep
    <2>2. CASE ~(h.pc = "prune" /\ h.todo # {})
      <3>1. Goto(e, Idle)
        BY <1>5, <2>2 DEF CallFails
      <3> QED
        BY <1>0, <1>a, <2>0, <3>1, IdleHandler, OrderStep
    <2> QED
      BY <2>1, <2>2
  <1>6. ASSUME NEW s \in Tasks, Close(s) PROVE Goal
    <2>1. \A t \in Tasks : Keeps(t)
      BY <1>0, <1>r, <1>6 DEF Close, MayClose, Keeps
    <2> QED
      BY <1>a, <1>6, <2>1 DEF Close, OrderInv, Keeps
  <1>7. ASSUME NEW s \in Tasks, Archive(s) PROVE Goal
    <2>1. \A t \in Tasks : Keeps(t)
      BY <1>0, <1>r, <1>7 DEF Archive, Keeps
    <2> QED
      BY <1>a, <1>7, <2>1 DEF Archive, OrderInv, Keeps
  <1>8. CASE Crash
    <2>1. \A t \in Tasks : Keeps(t)
      BY <1>8, <1>k DEF Crash
    <2>2. \A e \in Executors : exec'[e].op = "none"
      BY <1>8, IdleHandler DEF Crash
    <2> QED
      BY <1>a, <2>1, <2>2 DEF OrderInv
  <1>9. CASE UNCHANGED vars
    <2>1. \A t \in Tasks : Keeps(t)
      BY <1>9, <1>k DEF vars
    <2> QED
      BY <1>a, <1>9, <2>1 DEF vars, OrderInv
  <1> QED
    BY <1>1, <1>2, <1>3, <1>4, <1>5, <1>6, <1>7, <1>8, <1>9 DEF Next

LEMMA InitOrder == Init => OrderInv
  BY IdleHandler DEF Init, OrderInv

\* While cleanups come one after the other, a closed task is never active
\* again, an archived one only leaves the archive when it is pruned, and no
\* other task is pruned: whatever summaries, closes and failures come between
\* the cleanup's reads and its transaction.
THEOREM TasksAdvance ==
  ASSUME OneCleanup PROVE Spec => StatusAdvances
  <1>1. TaskInv /\ OrderInv /\ [Next]_vars =>
          OrderInv' /\ [\A t \in Tasks : Advances(t)]_vars
    BY StepOrder
  <1> QED
    BY <1>1, InitTaskInv, StepTaskInv, InitOrder, PTL DEF Spec, StatusAdvances, Advances

-----------------------------------------------------------------------------
(* The cleanup that runs alone *)

\* What became of a row since the cleanup read it, when only requests to close and
\* archive tasks ran beside it.
Follows(read, now) ==
  read # Null =>
    /\ now # Null
    /\ now.work = read.work /\ now.project = read.project
    /\ now.status = "active" => read.status = "active"
    /\ read.status = "archived" => now.status = "archived"

\* The cached memories a cleanup deletes.
ToDelete(h, C) == {i \in Stored(C) : C[i] \in NoiseToPrune(h)}

\* What a cleanup of the user knows at each place; M is the backend, C the cache and
\* T the tasks.
Knows(h, M, C, T) ==
  /\ h.pc = "refresh" => h.items = M
  /\ h.pc \in {"rows", "backed", "decide"} => C = M
  /\ h.pc \in {"decide", "prune"} => h.backed = Backed(C, h.req.projects)
  /\ h.pc \in {"backed", "decide", "prune"} => \A t \in Tasks :
       /\ Follows(h.rows[t], T[t])
       /\ h.rows[t] # Null => h.rows[t].project \in h.req.projects
  /\ h.pc \in {"rebuild", "refresh", "rows", "backed", "decide"} =>
       h.deleted = {} /\ ~h.failed
  /\ h.pc = "prune" =>
       /\ ~h.failed => ToDelete(h, C) \subseteq h.todo \cup h.deleted
       /\ \A i \in Ids : M[i] = IF i \in h.deleted THEN Null ELSE C[i]

AloneInv ==
  /\ \A e \in Executors : exec[e].op = "none" => exec[e].pc = "idle"
  /\ \A e \in Executors : exec[e].op = "cleanup" =>
       /\ exec[e].pc \in CleanupPlaces
       /\ ~overlapped =>
            /\ \A f \in Executors : f # e => ~Busy(f)
            /\ exec[e].req.scoped => Knows(exec[e], mem, cache, tasks)

\* A busy executor makes a step, or comes to its end.
LEMMA AloneStep ==
  ASSUME TaskInv, AloneInv, NEW e \in Executors, Busy(e), NEW h, Goto(e, h),
         overlapped' = overlapped,
         h = Idle \/ (h.op = exec[e].op /\ h.req = exec[e].req),
         h.op = "cleanup" => h.pc \in CleanupPlaces,
         h.op = "cleanup" /\ ~overlapped /\ h.req.scoped
           /\ Knows(exec[e], mem, cache, tasks) => Knows(h, mem', cache', tasks')
  PROVE  AloneInv'
  <1>1. exec \in [Executors -> Handler] /\ exec' = [exec EXCEPT ![e] = h]
    BY DEF TaskInv, TypeOK, Goto
  <1>2. exec'[e] = h /\ \A f \in Executors : f # e => exec'[f] = exec[f]
    BY <1>1
  <1>3. Idle.op = "none" /\ Idle.pc = "idle" /\ exec[e].op # "none"
    BY IdleHandler DEF Busy
  <1>4. ASSUME NEW f \in Executors, exec'[f].op = "none" PROVE exec'[f].pc = "idle"
    BY <1>2, <1>3, <1>4 DEF AloneInv
  <1>5. ASSUME NEW f \in Executors, exec'[f].op = "cleanup"
        PROVE  /\ exec'[f].pc \in CleanupPlaces
               /\ ~overlapped' =>
                    /\ \A g \in Executors : g # f => exec'[g].op = "none"
                    /\ exec'[f].req.scoped => Knows(exec'[f], mem', cache', tasks')
    <2>1. CASE f = e
      <3>1. exec[e].op = "cleanup" /\ h.op = "cleanup" /\ h.req = exec[e].req
        BY <1>2, <1>3, <1>5, <2>1
      <3>2. \A g \in Executors : ~overlapped /\ g # e => exec[g].op = "none"
        BY <3>1 DEF AloneInv, Busy
      <3>3. ~overlapped /\ exec[e].req.scoped => Knows(exec[e], mem, cache, tasks)
        BY <3>1 DEF AloneInv
      <3>4. QED
        BY <1>2, <2>1, <3>1, <3>2, <3>3
    <2>2. CASE f # e
      <3>1. exec[f].op = "cleanup" /\ exec'[f] = exec[f]
        BY <1>2, <1>5, <2>2
      <3>2. exec[f].pc \in CleanupPlaces /\ overlapped
        BY <1>3, <2>2, <3>1 DEF AloneInv, Busy
      <3>3. QED
        BY <3>1, <3>2
    <2>3. QED
      BY <2>1, <2>2
  <1>6. QED
    BY <1>4, <1>5 DEF AloneInv, Busy

\* An executor begins a request other than a cleanup.
LEMMA AloneBegin ==
  ASSUME TaskInv, AloneInv, NEW e \in Executors, Begin(e), NEW h, Goto(e, h),
         h.op \notin {"none", "cleanup"}
  PROVE  AloneInv'
  <1>1. exec \in [Executors -> Handler] /\ exec' = [exec EXCEPT ![e] = h]
    BY DEF TaskInv, TypeOK, Goto
  <1>2. exec'[e] = h /\ \A f \in Executors : f # e => exec'[f] = exec[f]
    BY <1>1
  <1>3. ASSUME NEW f \in Executors, exec'[f].op = "cleanup"
        PROVE  exec'[f].pc \in CleanupPlaces /\ overlapped'
    BY <1>2, <1>3 DEF AloneInv, Begin, InCleanup
  <1>4. QED
    BY <1>2, <1>3 DEF AloneInv

\* What a cleanup knows outlives a status that moves on.
LEMMA FollowsOn ==
  ASSUME NEW read, NEW now \in Row, NEW next \in Row, Follows(read, now),
         next.work = now.work, next.project = now.project, next.status # "active",
         now.status = "archived" => next.status = "archived"
  PROVE  Follows(read, next)
  BY TaskConstantsOK DEF Follows

LEMMA AloneStatus ==
  ASSUME TaskInv, AloneInv, NEW t \in Tasks, Close(t) \/ Archive(t)
  PROVE  AloneInv'
  <1>1. /\ tasks \in [Tasks -> Row \cup {Null}] /\ tasks[t] # Null
        /\ UNCHANGED <<mem, cache, exec, overlapped>>
    BY DEF TaskInv, TypeOK, Close, Archive
  <1>2. PICK status \in {"closed", "archived"} :
          /\ tasks' = [tasks EXCEPT ![t].status = status]
          /\ tasks[t].status = "archived" => status = "archived"
    BY DEF Close, Archive, MayClose
  <1> DEFINE next == [tasks[t] EXCEPT !.status = status]
  <1>3. /\ next \in Row /\ next.work = tasks[t].work /\ next.status = status
        /\ next.project = tasks[t].project
        /\ tasks[t] \in Row
    BY <1>1 DEF Row
  <1>4. tasks' = [tasks EXCEPT ![t] = next]
    BY <1>2
  <1> HIDE DEF next
  <1>5. ASSUME NEW read, NEW u \in Tasks, Follows(read, tasks[u])
        PROVE  Follows(read, tasks'[u])
    BY <1>1, <1>2, <1>3, <1>4, <1>5, FollowsOn
  <1>6. \A h : Knows(h, mem, cache, tasks) => Knows(h, mem, cache, tasks')
    BY <1>5 DEF Knows
  <1>7. QED
    BY <1>1, <1>6 DEF AloneInv, Busy

LEMMA AloneBeginCleanup ==
  ASSUME TaskInv, AloneInv, NEW e \in Executors, NEW req \in Requests, BeginCleanup(e, req)
  PROVE  AloneInv'
  <1> DEFINE h == [Idle EXCEPT !.op = "cleanup", !.req = req,
                               !.pc = IF req.scoped THEN "rebuild" ELSE "rows"]
  <1>1. /\ h.op = "cleanup" /\ h.req = req /\ h.deleted = {} /\ h.failed = FALSE
        /\ h.pc = IF req.scoped THEN "rebuild" ELSE "rows"
    BY DEF Idle
  <1>2. exec \in [Executors -> Handler] /\ exec' = [exec EXCEPT ![e] = h]
    BY DEF TaskInv, TypeOK, Goto, BeginCleanup
  <1> HIDE DEF h
  <1>3. exec'[e] = h /\ \A f \in Executors : f # e => exec'[f] = exec[f]
    BY <1>2
  <1>4. ~overlapped' => \A f \in Executors : exec[f].op = "none"
    BY DEF BeginCleanup, Busy
  <1>5. req.scoped => Knows(h, mem', cache', tasks')
    BY <1>1 DEF Knows
  <1>6. ASSUME NEW f \in Executors, exec'[f].op = "cleanup"
        PROVE  /\ exec'[f].pc \in CleanupPlaces
               /\ ~overlapped' =>
                    /\ \A g \in Executors : g # f => exec'[g].op = "none"
                    /\ exec'[f].req.scoped => Knows(exec'[f], mem', cache', tasks')
    <2>1. CASE f = e
      BY <1>1, <1>3, <1>4, <1>5, <2>1 DEF CleanupPlaces
    <2>2. CASE f # e
      BY <1>3, <1>4, <1>6, <2>2 DEF AloneInv
    <2>3. QED
      BY <2>1, <2>2
  <1>7. ASSUME NEW f \in Executors, exec'[f].op = "none" PROVE exec'[f].pc = "idle"
    BY <1>1, <1>3, <1>7 DEF AloneInv
  <1>8. QED
    BY <1>6, <1>7 DEF AloneInv, Busy

\* The steps of summaries and of a request that forgets a memory.
LEMMA AloneOthers ==
  ASSUME TaskInv, AloneInv, NEW e \in Executors,
         UpdateTask(e) \/ InsertTask(e) \/ AddMemory(e) \/ CacheMemory(e) \/ Uncache(e)
  PROVE  AloneInv'
  <1> DEFINE c == exec[e]
  <1>1. /\ c.pc \in {"upsert", "add", "cache", "uncache"} /\ c \in Handler
        /\ overlapped' = overlapped
    BY DEF UpdateTask, InsertTask, AddMemory, CacheMemory, Uncache, TaskInv, TypeOK
  <1>2. c.op \notin {"none", "cleanup"} /\ Busy(e)
    BY <1>1 DEF AloneInv, CleanupPlaces, Busy
  <1>3. ASSUME NEW h, Goto(e, h), h = Idle \/ (h.op = c.op /\ h.req = c.req) PROVE AloneInv'
    <2>1. h.op # "cleanup"
      BY <1>2, <1>3, IdleHandler
    <2>2. QED
      BY <1>1, <1>2, <1>3, <2>1, AloneStep
  <1>0. ASSUME Goto(e, Idle) PROVE AloneInv'
    BY <1>0, <1>1, <1>2, IdleHandler, AloneStep
  <1>4. CASE UpdateTask(e) \/ InsertTask(e)
    <2> DEFINE h == [c EXCEPT !.pc = "add"]
    <2>1. h.op = c.op /\ h.req = c.req
      BY <1>1 DEF Handler
    <2>2. Goto(e, h) \/ Goto(e, Idle)
      BY <1>4 DEF UpdateTask, InsertTask
    <2> HIDE DEF h, c
    <2>3. Goto(e, h) => AloneInv'
      BY <1>3, <2>1
    <2>4. QED
      BY <1>0, <2>2, <2>3
  <1>5. ASSUME AddMemory(e) PROVE AloneInv'
    <2>1. PICK i : Goto(e, [c EXCEPT !.pc = "cache", !.id = i])
      BY <1>5 DEF AddMemory
    <2> DEFINE h == [c EXCEPT !.pc = "cache", !.id = i]
    <2>2. h.op = c.op /\ h.req = c.req /\ Goto(e, h)
      BY <1>1, <2>1 DEF Handler
    <2> HIDE DEF h, c
    <2>3. QED
      BY <1>3, <2>2
  <1>6. CASE CacheMemory(e)
    <2> DEFINE h == [c EXCEPT !.pc = "add", !.fields = @ - 1, !.id = Null]
    <2>1. h.op = c.op /\ h.req = c.req
      BY <1>1 DEF Handler
    <2>2. Goto(e, h) \/ Goto(e, Idle)
      BY <1>6 DEF CacheMemory
    <2> HIDE DEF h, c
    <2>3. Goto(e, h) => AloneInv'
      BY <1>3, <2>1
    <2>4. QED
      BY <1>0, <2>2, <2>3
  <1>7. CASE Uncache(e)
    BY <1>0, <1>7 DEF Uncache
  <1>8. QED
    BY <1>4, <1>5, <1>6, <1>7

\* A cleanup reads, decides and deletes: it knows what it needs for the next step.
LEMMA AloneReads ==
  ASSUME TaskInv, AloneInv, NEW e \in Executors,
         ReadItems(e) \/ Refresh(e) \/ ReadRows(e) \/ ReadBacked(e)
  PROVE  AloneInv'
  <1> DEFINE c == exec[e]
  <1>1. /\ c.pc \in CleanupPlaces /\ c \in Handler /\ overlapped' = overlapped
        /\ tasks \in [Tasks -> Row \cup {Null}]
    BY DEF ReadItems, Refresh, ReadRows, ReadBacked, TaskInv, TypeOK, CleanupPlaces
  <1>2. c.op = "cleanup" /\ Busy(e)
    BY <1>1 DEF TaskInv, HandlerInv, Busy
  <1>3. ASSUME NEW h, Goto(e, h), h.op = c.op, h.req = c.req, h.pc \in CleanupPlaces,
               Knows(c, mem, cache, tasks) => Knows(h, mem', cache', tasks')
        PROVE  AloneInv'
    <2> HIDE DEF c
    <2>1. QED
      BY <1>1, <1>2, <1>3, AloneStep DEF c
  <1>4. CASE ReadItems(e)
    <2> DEFINE h == [c EXCEPT !.pc = "refresh", !.items = mem]
    <2>1. /\ h.op = c.op /\ h.req = c.req /\ h.pc = "refresh" /\ h.items = mem
          /\ h.deleted = c.deleted /\ h.failed = c.failed
      BY <1>1 DEF Handler
    <2>2. Goto(e, h) /\ mem' = mem /\ c.pc = "rebuild"
      BY <1>4 DEF ReadItems
    <2> HIDE DEF h
    <2>3. Knows(c, mem, cache, tasks) => Knows(h, mem', cache', tasks')
      BY <2>1, <2>2 DEF Knows
    <2>4. QED
      BY <1>3, <2>1, <2>2, <2>3 DEF CleanupPlaces
  <1>5. CASE Refresh(e)
    <2> DEFINE h == [c EXCEPT !.pc = "rows", !.items = NoItems]
    <2>1. /\ h.op = c.op /\ h.req = c.req /\ h.pc = "rows"
          /\ h.deleted = c.deleted /\ h.failed = c.failed
      BY <1>1 DEF Handler
    <2>2. Goto(e, h) /\ mem' = mem /\ cache' = c.items /\ c.pc = "refresh"
      BY <1>5 DEF Refresh, Refreshed
    <2> HIDE DEF h
    <2>3. Knows(c, mem, cache, tasks) => Knows(h, mem', cache', tasks')
      BY <2>1, <2>2 DEF Knows
    <2>4. QED
      BY <1>3, <2>1, <2>2, <2>3 DEF CleanupPlaces
  <1>6. CASE ReadRows(e)
    <2> DEFINE h == [c EXCEPT !.pc = "backed", !.rows = RowsIn(c.req.projects)]
    <2>1. /\ h.op = c.op /\ h.req = c.req /\ h.pc = "backed"
          /\ h.rows = RowsIn(c.req.projects)
          /\ h.deleted = c.deleted /\ h.failed = c.failed
      BY <1>1 DEF Handler
    <2>2. Goto(e, h) /\ UNCHANGED <<mem, cache, tasks>> /\ c.pc = "rows"
      BY <1>6 DEF ReadRows
    <2>3. \A t \in Tasks :
            /\ Follows(h.rows[t], tasks[t])
            /\ h.rows[t] # Null => h.rows[t].project \in h.req.projects
      BY <2>1 DEF Follows, RowsIn
    <2> HIDE DEF h
    <2>4. Knows(c, mem, cache, tasks) => Knows(h, mem', cache', tasks')
      BY <2>1, <2>2, <2>3 DEF Knows
    <2>5. QED
      BY <1>3, <2>1, <2>2, <2>4 DEF CleanupPlaces
  <1>7. CASE ReadBacked(e)
    <2> DEFINE h == [c EXCEPT !.pc = "decide", !.backed = Backed(cache, c.req.projects)]
    <2>1. /\ h.op = c.op /\ h.req = c.req /\ h.pc = "decide" /\ h.rows = c.rows
          /\ h.backed = Backed(cache, h.req.projects) /\ h.deleted = c.deleted /\ h.failed = c.failed
      BY <1>1 DEF Handler
    <2>2. Goto(e, h) /\ UNCHANGED <<mem, cache, tasks>> /\ c.pc = "backed"
      BY <1>7 DEF ReadBacked
    <2> HIDE DEF h
    <2>3. Knows(c, mem, cache, tasks) => Knows(h, mem', cache', tasks')
      BY <2>1, <2>2 DEF Knows
    <2>4. QED
      BY <1>3, <2>1, <2>2, <2>3 DEF CleanupPlaces
  <1>8. QED
    BY <1>4, <1>5, <1>6, <1>7

LEMMA AloneDeletes ==
  ASSUME TaskInv, AloneInv, NEW e \in Executors, Decide(e) \/ PruneMemory(e)
  PROVE  AloneInv'
  <1> DEFINE c == exec[e]
  <1>1. /\ c.pc \in {"decide", "prune"} /\ c \in Handler /\ overlapped' = overlapped
        /\ mem \in [Ids -> Tasks \cup {Null}]
        /\ UNCHANGED <<tasks, cache>>
    BY DEF Decide, PruneMemory, TaskInv, TypeOK
  <1>2. c.op = "cleanup" /\ Busy(e)
    BY <1>1 DEF TaskInv, HandlerInv, Busy, CleanupPlaces
  <1>3. ASSUME NEW h, Goto(e, h), h.op = c.op, h.req = c.req, h.pc = "prune",
               Knows(c, mem, cache, tasks) => Knows(h, mem', cache', tasks')
        PROVE  AloneInv'
    <2> HIDE DEF c
    <2>1. h.pc \in CleanupPlaces
      BY <1>3 DEF CleanupPlaces
    <2>2. QED
      BY <1>1, <1>2, <1>3, <2>1, AloneStep DEF c
  <1>4. \A h : h.req = c.req /\ h.rows = c.rows => NoiseToPrune(h) = NoiseToPrune(c)
    BY DEF NoiseToPrune, WithStatus, Work
  <1>5. CASE Decide(e)
    <2> DEFINE todo == {i \in Stored(cache) : cache[i] \in NoiseToPrune(c)}
               h == [c EXCEPT !.pc = "prune", !.todo = todo]
    <2>1. /\ h.op = c.op /\ h.req = c.req /\ h.pc = "prune" /\ h.rows = c.rows
          /\ h.backed = c.backed /\ h.deleted = c.deleted /\ h.failed = c.failed
          /\ h.todo = todo
      BY <1>1 DEF Handler
    <2>2. Goto(e, h) /\ UNCHANGED <<mem, cache, tasks>> /\ c.pc = "decide"
      BY <1>5 DEF Decide
    <2> HIDE DEF h
    <2>3. ToDelete(h, cache) = todo
      BY <1>4, <2>1 DEF ToDelete
    <2>4. Knows(c, mem, cache, tasks) => Knows(h, mem', cache', tasks')
      BY <2>1, <2>2, <2>3 DEF Knows
    <2>5. QED
      BY <1>3, <2>1, <2>2, <2>4
  <1>6. CASE PruneMemory(e)
    <2>1. c.pc = "prune"
      BY <1>6 DEF PruneMemory
    <2>2. PICK i \in c.todo :
            IF mem[i] # Null
              THEN /\ mem' = [mem EXCEPT ![i] = Null]
                   /\ Goto(e, [c EXCEPT !.todo = @ \ {i}, !.deleted = @ \cup {i}])
              ELSE /\ Goto(e, [c EXCEPT !.todo = @ \ {i}, !.failed = TRUE])
                   /\ UNCHANGED mem
      BY <1>6 DEF PruneMemory
    <2>3. CASE mem[i] # Null
      <3> DEFINE h == [c EXCEPT !.todo = @ \ {i}, !.deleted = @ \cup {i}]
      <3>1. /\ h.op = c.op /\ h.req = c.req /\ h.pc = "prune" /\ h.rows = c.rows
            /\ h.backed = c.backed /\ h.failed = c.failed
            /\ h.todo = c.todo \ {i} /\ h.deleted = c.deleted \cup {i}
        BY <1>1, <2>1 DEF Handler
      <3>2. Goto(e, h) /\ mem' = [mem EXCEPT ![i] = Null]
        BY <2>2, <2>3
      <3> HIDE DEF h
      <3>3. ToDelete(h, cache) = ToDelete(c, cache)
        BY <1>4, <3>1 DEF ToDelete
      <3>4. Knows(c, mem, cache, tasks) => Knows(h, mem', cache', tasks')
        BY <1>1, <2>1, <3>1, <3>2, <3>3 DEF Knows
      <3>5. QED
        BY <1>3, <3>1, <3>2, <3>4
    <2>4. CASE mem[i] = Null
      <3> DEFINE h == [c EXCEPT !.todo = @ \ {i}, !.failed = TRUE]
      <3>1. /\ h.op = c.op /\ h.req = c.req /\ h.pc = "prune" /\ h.rows = c.rows
            /\ h.backed = c.backed /\ h.failed = TRUE /\ h.deleted = c.deleted
        BY <1>1, <2>1 DEF Handler
      <3>2. Goto(e, h) /\ mem' = mem
        BY <2>2, <2>4
      <3> HIDE DEF h
      <3>3. Knows(c, mem, cache, tasks) => Knows(h, mem', cache', tasks')
        BY <1>1, <2>1, <3>1, <3>2 DEF Knows
      <3>4. QED
        BY <1>3, <3>1, <3>2, <3>3
    <2>5. QED
      BY <2>3, <2>4
  <1>7. QED
    BY <1>5, <1>6

LEMMA AloneEnds ==
  ASSUME TaskInv, AloneInv, NEW e \in Executors,
         Commit(e) \/ RollBack(e) \/ ArchiveClosed(e)
  PROVE  AloneInv'
  <1> DEFINE c == exec[e]
             h == [Idle EXCEPT !.op = "cleanup", !.pc = "closed", !.req = c.req]
  <1>1. c.pc \in CleanupPlaces /\ overlapped' = overlapped
    BY DEF Commit, RollBack, ArchiveClosed, CleanupPlaces
  <1>2. c.op = "cleanup" /\ Busy(e)
    BY <1>1 DEF TaskInv, HandlerInv, Busy
  <1>3. h.op = "cleanup" /\ h.req = c.req /\ h.pc = "closed"
    BY DEF Idle
  <1>4. Goto(e, h) \/ Goto(e, Idle)
    BY DEF Commit, RollBack, ArchiveClosed
  <1> HIDE DEF h
  <1>5. Knows(h, mem', cache', tasks') /\ h.pc \in CleanupPlaces
    BY <1>3 DEF Knows, CleanupPlaces
  <1>6. CASE Goto(e, Idle)
    BY <1>1, <1>2, <1>6, IdleHandler, AloneStep
  <1>7. CASE Goto(e, h)
    <2> HIDE DEF c
    <2>1. QED
      BY <1>1, <1>2, <1>3, <1>5, <1>7, AloneStep DEF c
  <1>8. QED
    BY <1>4, <1>6, <1>7

LEMMA AloneFails ==
  ASSUME TaskInv, AloneInv, NEW e \in Executors, CallFails(e) PROVE AloneInv'
  <1> DEFINE c == exec[e]
  <1>1. c \in Handler /\ Busy(e) /\ UNCHANGED <<tasks, mem, cache, overlapped>>
    BY DEF CallFails, TaskInv, TypeOK
  <1>2. CASE Goto(e, Idle)
    BY <1>1, <1>2, IdleHandler, AloneStep
  <1>3. CASE ~Goto(e, Idle)
    <2>1. PICK i \in c.todo : Goto(e, [c EXCEPT !.todo = @ \ {i}, !.failed = TRUE])
      BY <1>3 DEF CallFails
    <2> DEFINE h == [c EXCEPT !.todo = @ \ {i}, !.failed = TRUE]
    <2>2. c.pc = "prune"
      BY <1>3 DEF CallFails
    <2>3. /\ h.op = c.op /\ h.req = c.req /\ h.pc = "prune" /\ h.rows = c.rows
          /\ h.backed = c.backed /\ h.failed = TRUE /\ h.deleted = c.deleted
      BY <1>1, <2>2 DEF Handler
    <2>4. Goto(e, h)
      BY <2>1
    <2> HIDE DEF h
    <2>5. Knows(c, mem, cache, tasks) => Knows(h, mem', cache', tasks')
      BY <1>1, <2>2, <2>3 DEF Knows
    <2>6. h.pc \in CleanupPlaces
      BY <2>3 DEF CleanupPlaces
    <2> HIDE DEF c
    <2>7. QED
      BY <1>1, <2>3, <2>4, <2>5, <2>6, AloneStep DEF c
  <1>4. QED
    BY <1>2, <1>3

LEMMA AloneNext == TaskInv /\ AloneInv /\ [Next]_vars => AloneInv'
  <1> SUFFICES ASSUME TaskInv, AloneInv, [Next]_vars PROVE AloneInv'
    OBVIOUS
  <1>1. CASE UNCHANGED vars
    BY <1>1 DEF vars, AloneInv, Busy, Knows
  <1>2. ASSUME NEW e \in Executors, NEW t \in Tasks, NEW p \in Projects,
               BeginSummary(e, t, p) PROVE AloneInv'
    <2>1. PICK n : Goto(e, [Idle EXCEPT !.op = "summary", !.pc = "upsert", !.task = t,
                                        !.found = (tasks[t] # Null), !.project = p,
                                        !.fields = n])
      BY <1>2 DEF BeginSummary
    <2> DEFINE h == [Idle EXCEPT !.op = "summary", !.pc = "upsert", !.task = t,
                                 !.found = (tasks[t] # Null), !.project = p,
                                 !.fields = n]
    <2>2. h.op = "summary" /\ Begin(e) /\ Goto(e, h)
      BY <1>2, <2>1 DEF Idle, BeginSummary
    <2> HIDE DEF h
    <2>3. QED
      BY <2>2, AloneBegin
  <1>3. ASSUME NEW e \in Executors, NEW i \in Ids, Forget(e, i) PROVE AloneInv'
    <2> DEFINE h == [Idle EXCEPT !.op = "forget", !.pc = "uncache", !.id = i]
    <2>1. h.op = "forget" /\ Begin(e) /\ Goto(e, h)
      BY <1>3 DEF Idle, Forget
    <2> HIDE DEF h
    <2>2. QED
      BY <2>1, AloneBegin
  <1>4. CASE Crash
    <2>1. \A e \in Executors : exec'[e] = Idle
      BY <1>4 DEF Crash
    <2>2. QED
      BY <2>1, IdleHandler DEF AloneInv
  <1>5. ASSUME NEW e \in Executors, Proceed(e) PROVE AloneInv'
    BY <1>5, AloneOthers, AloneReads, AloneDeletes, AloneEnds DEF Proceed
  <1>6. QED
    BY <1>1, <1>2, <1>3, <1>4, <1>5, AloneBeginCleanup, AloneFails, AloneStatus DEF Next

LEMMA AloneInit == Init => AloneInv
  BY IdleHandler DEF Init, AloneInv

\* Of a cleanup's steps only the commit and the archiving of closed tasks change tasks.
LEMMA CleanupWrites ==
  ASSUME TaskInv, AloneInv, [Next]_vars, NEW e \in Executors,
         exec[e].op = "cleanup", exec'[e] # exec[e]
  PROVE  Commit(e) \/ ArchiveClosed(e) \/ tasks' = tasks
  <1>1. exec \in [Executors -> Handler] /\ exec[e].pc \in CleanupPlaces
    BY DEF TaskInv, TypeOK, AloneInv
  <1>2. \A f, h : Goto(f, h) => f = e
    BY <1>1 DEF Goto
  <1>3. ASSUME NEW f \in Executors, UpdateTask(f) \/ InsertTask(f) PROVE FALSE
    <2>1. exec[f].pc = "upsert" /\ \E h : Goto(f, h)
      BY <1>3 DEF UpdateTask, InsertTask
    <2>2. QED
      BY <1>1, <1>2, <2>1 DEF CleanupPlaces
  <1>4. ASSUME NEW f \in Executors, Commit(f) \/ ArchiveClosed(f)
        PROVE  Commit(e) \/ ArchiveClosed(e)
    <2>1. \E h : Goto(f, h)
      BY <1>4 DEF Commit, ArchiveClosed
    <2>2. QED
      BY <1>2, <1>4, <2>1
  <1>5. ASSUME NEW t \in Tasks, Close(t) \/ Archive(t) PROVE FALSE
    BY <1>5 DEF Close, Archive
  <1>6. ASSUME NEW f \in Executors,
               \/ \E t \in Tasks, p \in Projects : BeginSummary(f, t, p)
               \/ \E i \in Ids : Forget(f, i)
               \/ \E req \in Requests : BeginCleanup(f, req)
               \/ CallFails(f)
        PROVE  tasks' = tasks
    BY <1>6 DEF BeginSummary, Forget, BeginCleanup, CallFails
  <1>7. ASSUME NEW f \in Executors,
               AddMemory(f) \/ CacheMemory(f) \/ Uncache(f) \/ ReadItems(f) \/ Refresh(f)
                 \/ ReadRows(f) \/ ReadBacked(f) \/ Decide(f) \/ PruneMemory(f) \/ RollBack(f)
        PROVE  tasks' = tasks
    BY <1>7 DEF AddMemory, CacheMemory, Uncache, ReadItems, Refresh, ReadRows, ReadBacked,
       Decide, PruneMemory, RollBack
  <1>8. CASE Crash \/ UNCHANGED vars
    BY <1>8 DEF Crash, vars
  <1>9. QED
    BY <1>3, <1>4, <1>5, <1>6, <1>7, <1>8 DEF Next, Proceed

\* Where a cleanup may leave no memory of a task it deletes: anywhere, if it is noise.
PrunedFrom(e, t) == IF tasks[t].work THEN exec[e].req.projects ELSE Projects

PrunedBare(e, t) ==
  tasks[t] # Null /\ tasks'[t] = Null =>
    t \notin Backed(mem', PrunedFrom(e, t)) \cup Backed(cache', PrunedFrom(e, t))

\* A cleanup that is alone deletes no task that has a memory it asks for in a store, and
\* neither archives nor deletes an active one that is work and has one.
LEMMA AloneCommit ==
  ASSUME TaskInv, AloneInv, NEW e \in Executors, CleansAlone(e), Commit(e)
  PROVE  WorkIsKept /\ \A t \in Tasks : PrunedBare(e, t)
  <1> DEFINE c == exec[e]
             gone == NoiseToPrune(c) \cup BareToPrune(c)
  <1>1. /\ c.pc = "prune" /\ c.todo = {} /\ ~c.failed
        /\ tasks' = [t \in Tasks |-> Cleaned(c, t)] /\ mem' = mem
        /\ cache' = [i \in Ids |-> IF i \in c.deleted THEN Null ELSE cache[i]]
    BY DEF Commit, MayCommit
  <1>2. Knows(c, mem, cache, tasks)
    BY DEF AloneInv, CleansAlone, Cleans
  <1>3. /\ ToDelete(c, cache) \subseteq c.deleted /\ c.backed = Backed(cache, c.req.projects)
        /\ \A t \in Tasks : /\ Follows(c.rows[t], tasks[t])
                            /\ c.rows[t] # Null => c.rows[t].project \in c.req.projects
        /\ \A i \in Ids : mem[i] = IF i \in c.deleted THEN Null ELSE cache[i]
    BY <1>1, <1>2 DEF Knows
  <1>4. \A i \in Ids : mem'[i] = cache'[i] /\ (mem[i] # Null => mem[i] = cache[i])
    BY <1>1, <1>3
  <1>5. ASSUME NEW ps
        PROVE  Backed(mem', ps) = Backed(cache', ps) /\ Backed(mem', ps) \subseteq Backed(cache, ps)
    <2>1. Stored(mem') = Stored(cache') /\ Stored(mem') \subseteq Stored(cache)
      BY <1>1, <1>4 DEF Stored
    <2>2. \A i \in Stored(mem') : mem'[i] = cache'[i] /\ mem'[i] = cache[i]
      BY <1>1, <1>4 DEF Stored
    <2>3. QED
      BY <2>1, <2>2 DEF Backed
  <1>6. \A t \in Tasks : /\ t \in NoiseToPrune(c) => ~tasks[t].work
                         /\ t \in BareToPrune(c) => tasks[t].work
    BY <1>3 DEF NoiseToPrune, BareToPrune, Bare, Work, WithStatus, Follows
  <1>7. \A t \in NoiseToPrune(c) : t \notin Backed(cache', Projects)
    <2>1. ASSUME NEW t \in NoiseToPrune(c), NEW i \in Stored(cache'), cache'[i] = t
          PROVE  FALSE
      <3>1. i \in Ids /\ i \notin c.deleted /\ cache[i] = t /\ cache[i] # Null
        BY <1>1, <2>1 DEF Stored
      <3>2. i \in ToDelete(c, cache)
        BY <2>1, <3>1 DEF ToDelete, Stored
      <3>3. QED
        BY <1>3, <3>1, <3>2
    <2>2. QED
      BY <2>1 DEF Backed
  <1>8. \A t \in BareToPrune(c) : t \notin Backed(cache', c.req.projects)
    BY <1>3, <1>5 DEF BareToPrune, Bare
  <1>9. ASSUME NEW t \in Tasks, tasks[t] # Null, tasks'[t] = Null PROVE t \in gone
    <2>1. Cleaned(c, t) = Null
      BY <1>1, <1>9
    <2>2. [tasks[t] EXCEPT !.status = "archived"] # Null
      <3>1. tasks[t] \in Row
        BY <1>9 DEF TaskInv, TypeOK
      <3>2. [tasks[t] EXCEPT !.status = "archived"] \in Row
        BY <3>1 DEF Row
      <3>3. QED
        BY <3>2, TaskConstantsOK
    <2>3. QED
      BY <1>9, <2>1, <2>2 DEF Cleaned
  <1>10. ASSUME NEW t \in Tasks, tasks[t] # Null, tasks[t].work, tasks[t].status = "active",
                t \in Backed(mem, {tasks[t].project})
         PROVE  tasks'[t] = tasks[t]
    <2>1. t \in NoiseToPrune(c) \cup BareToPrune(c) \cup ToArchive(c) => FALSE
      <3>1. CASE c.rows[t] = Null
        BY <3>1 DEF NoiseToPrune, BareToPrune, ToArchive, WithStatus
      <3>2. CASE c.rows[t] # Null
        <4>1. /\ c.rows[t].work /\ c.rows[t].status = "active"
              /\ tasks[t].project \in c.req.projects
          BY <1>3, <1>10, <3>2 DEF Follows
        <4>2. t \in Backed(cache, c.req.projects)
          <5>1. PICK i \in Ids : mem[i] # Null /\ ProjectOf[i] = tasks[t].project /\ mem[i] = t
            BY <1>10 DEF Backed, Stored
          <5>2. QED
            BY <1>4, <4>1, <5>1 DEF Backed, Stored
        <4>3. t \in Work(c) /\ t \notin Bare(c) /\ t \notin WithStatus(c, "archived")
          BY <1>3, <3>2, <4>1, <4>2 DEF Work, Bare, WithStatus
        <4>4. QED
          BY <4>3 DEF NoiseToPrune, BareToPrune, ToArchive
      <3>3. QED
        BY <3>1, <3>2
    <2>2. QED
      BY <1>1, <1>10, <2>1 DEF Cleaned
  <1>11. ASSUME NEW t \in Tasks, tasks[t] # Null, tasks'[t] = Null
         PROVE  t \notin Backed(mem', PrunedFrom(e, t)) \cup Backed(cache', PrunedFrom(e, t))
    <2>1. t \in NoiseToPrune(c) \/ t \in BareToPrune(c)
      BY <1>9, <1>11
    <2>2. QED
      BY <1>5, <1>6, <1>7, <1>8, <2>1 DEF PrunedFrom
  <1>12. WorkIsKept
    BY <1>10 DEF WorkIsKept, KeptIfBacked
  <1>13. QED
    BY <1>11, <1>12 DEF PrunedBare

LEMMA AloneKeeps ==
  ASSUME TaskInv, AloneInv, [Next]_vars, NEW e \in Executors, CleansAlone(e)
  PROVE  WorkIsKept /\ \A t \in Tasks : PrunedBare(e, t)
  <1>1. CASE Commit(e)
    BY <1>1, AloneCommit
  <1>3. CASE ArchiveClosed(e)
    <2>1. ASSUME NEW t \in Tasks, tasks[t] # Null PROVE tasks'[t] # Null
      <3>1. tasks[t] \in Row
        BY <2>1 DEF TaskInv, TypeOK
      <3>2. [tasks[t] EXCEPT !.status = "archived"] \in Row
        BY <3>1 DEF Row
      <3>3. QED
        BY <1>3, <2>1, <3>2, TaskConstantsOK DEF ArchiveClosed
    <2>2. \A t \in Tasks : tasks[t] # Null /\ tasks[t].status = "active"
                             => tasks'[t] = tasks[t]
      BY <1>3 DEF ArchiveClosed
    <2>3. QED
      BY <2>1, <2>2 DEF WorkIsKept, KeptIfBacked, PrunedBare
  <1>4. CASE tasks' = tasks
    BY <1>4 DEF WorkIsKept, KeptIfBacked, PrunedBare
  <1>5. QED
    BY <1>1, <1>3, <1>4, CleanupWrites DEF CleansAlone, Cleans

\* A cleanup of the user that runs alone takes no active task from the list that is work
\* and has a memory in its project, whatever else is closed or archived beside it and
\* whatever fails.
THEOREM WorkStaysActive == Spec => CleanupKeepsWork
  <1>1. TaskInv /\ AloneInv /\ [Next]_vars
          => [\A e \in Executors : CleansAlone(e) => WorkIsKept]_vars
    BY AloneKeeps
  <1>2. QED
    BY <1>1, InitTaskInv, StepTaskInv, AloneInit, AloneNext, PTL
       DEF Spec, CleanupKeepsWork

\* Noise is pruned by such a cleanup only when neither store has a memory of it left, work
\* only when neither has one left in the projects that are cleaned.
THEOREM PrunedTasksAreBare == Spec => PruneLeavesNoMemory
  <1>1. TaskInv /\ AloneInv /\ [Next]_vars => [PruneIsBare]_vars
    BY AloneKeeps DEF PruneIsBare, PrunedBare, PrunedFrom
  <1>2. QED
    BY <1>1, InitTaskInv, StepTaskInv, AloneInit, AloneNext, PTL
       DEF Spec, PruneLeavesNoMemory
=============================================================================
