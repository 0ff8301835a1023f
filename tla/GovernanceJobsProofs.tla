------------------------ MODULE GovernanceJobsProofs ------------------------
(***************************************************************************)
(* Theorems about the governance job queue, for every set of jobs, keys,   *)
(* executors and requests, every lease length and any number of losses.    *)
(***************************************************************************)
EXTENDS JobsRefinement, TLAPS, FiniteSetTheorems

-----------------------------------------------------------------------------
(* Part 1: types *)

\* A finalization ends its request, or leaves the handler in the try block.
FinalizeRead(e) == Finalize(e) /\ Finish(e)
FinalizeUnread(e) ==
  Finalize(e) /\ ReadsMayFail /\ Goto(e, [exec[e] EXCEPT !.pc = "raised"])

LEMMA FinalizeCases ==
  ASSUME NEW e, Finalize(e) PROVE FinalizeRead(e) \/ FinalizeUnread(e)
  BY DEF Finalize, FinalizeRead, FinalizeUnread

\* The rank a request takes for created_at is a number.
LEMMA NowRankType == NowRank \in Nat
  <1>1. IsFiniteSet(Present)
    BY FS_Subset, ConstantsOK DEF Present
  <1>2. QED
    BY <1>1, FS_CardinalityType DEF NowRank

\* Every statement that writes a row writes one of the table's shape.
LEMMA RowTypes ==
  ASSUME NEW r \in Row
  PROVE  /\ \A ttl \in Leases : Claimed(r, ttl) \in Row
         /\ Finalized(r) \in Row
         /\ \A n \in Nat : Released(r, n) \in Row
  <1>1. ASSUME NEW ttl \in Leases PROVE Claimed(r, ttl) \in Row
    <2>1. ttl \in Nat
      BY ConstantsOK
    <2>2. r.attempts + 1 \in Nat
      BY DEF Row
    <2>3. QED
      BY <2>1, <2>2 DEF Row, Statuses, Claimed
  <1>2. Finalized(r) \in Row
    BY DEF Row, Statuses, Finalized
  <1>3. ASSUME NEW n \in Nat PROVE Released(r, n) \in Row
    <2>1. StatusAfterRelease(n, r.maxAttempts) \in Statuses
      BY DEF StatusAfterRelease, Statuses
    <2>2. QED
      BY <2>1 DEF Row, Released
  <1>4. QED
    BY <1>1, <1>2, <1>3

\* Time changes nothing but the ticks that are left.
LEMMA AgedTypes ==
  /\ \A r \in Row : /\ AgedRow(r) \in Row
                    /\ AgedRow(r).status = r.status
                    /\ AgedRow(r).key = r.key
                    /\ AgedRow(r).attempts = r.attempts
                    /\ AgedRow(r).maxAttempts = r.maxAttempts
                    /\ AgedRow(r).finished = r.finished
                    /\ AgedRow(r).error = r.error
                    /\ AgedRow(r).lease =
                         IF r.lease = Null THEN Null ELSE Elapse(r.lease)
  /\ \A h \in Handler : /\ AgedHandler(h) \in Handler
                        /\ AgedHandler(h).pc = h.pc
                        /\ AgedHandler(h).job = h.job
                        /\ AgedHandler(h).attempts = h.attempts
                        /\ AgedHandler(h).maxAttempts = h.maxAttempts
                        /\ AgedHandler(h).left = Elapse(h.left)
  <1>1. \A t \in Nat : Elapse(t) \in Nat
    BY DEF Elapse
  <1>2. ASSUME NEW r \in Row
        PROVE  (IF r.lease = Null THEN Null ELSE Elapse(r.lease)) \in Nat \cup {Null}
    BY <1>1 DEF Row
  <1>3. QED
    BY <1>1, <1>2 DEF AgedRow, AgedHandler, Row, Handler

LEMMA ClampType == \A n \in Int : ClampAttempts(n) \in Nat /\ ClampAttempts(n) >= 1
  BY DEF ClampAttempts

\* ... and every step of a handler leaves it in one of its shapes.
LEMMA IdleType == IdleHandler \in Handler /\ IdleHandler.pc = "idle"
  BY DEF IdleHandler, Handler, Phases

LEMMA ClaimingType ==
  \A j \in Jobs : /\ Claiming(j) \in Handler
                  /\ Claiming(j).pc = "claim" /\ Claiming(j).job = j
  BY DEF Claiming, IdleHandler, Handler, Phases

LEMMA InsertingType ==
  \A k \in Keys \cup {Null}, n \in Requested, inline \in BOOLEAN :
    /\ Inserting(k, n, inline) \in Handler
    /\ Inserting(k, n, inline).pc = "insert"
    /\ Inserting(k, n, inline).maxAttempts >= 1
  <1> SUFFICES ASSUME NEW k \in Keys \cup {Null}, NEW n \in Requested,
                      NEW inline \in BOOLEAN
               PROVE  /\ Inserting(k, n, inline) \in Handler
                      /\ Inserting(k, n, inline).pc = "insert"
                      /\ Inserting(k, n, inline).maxAttempts >= 1
    OBVIOUS
  <1>1. n \in Int
    BY ConstantsOK
  <1>2. ClampAttempts(n) \in Nat /\ ClampAttempts(n) >= 1
    BY <1>1, ClampType
  <1>3. QED
    BY <1>2, NowRankType DEF Inserting, IdleHandler, Handler, Phases

LEMMA RunningType ==
  \A j \in Jobs, ttl \in Leases :
    /\ Running(j, ttl) \in Handler
    /\ Running(j, ttl).pc = "run" /\ Running(j, ttl).job = j
    /\ Running(j, ttl).left = ttl
  <1>1. \A ttl \in Leases : ttl \in Nat
    BY ConstantsOK
  <1>2. QED
    BY <1>1 DEF Running, IdleHandler, Handler, Phases

LEMMA ReleasingType ==
  \A h \in Handler, n \in Nat :
    /\ Releasing(h, n) \in Handler
    /\ Releasing(h, n).pc = "release" /\ Releasing(h, n).job = h.job
    /\ Releasing(h, n).attempts = n /\ Releasing(h, n).left = h.left
  BY DEF Releasing, Handler, Phases

LEMMA RaisedType ==
  \A h \in Handler :
    LET r == [h EXCEPT !.pc = "raised"] IN
    r \in Handler /\ r.pc = "raised" /\ r.job = h.job
  BY DEF Handler, Phases

LEMMA NewRowType ==
  \A h \in Handler :
    /\ NewRow(h) \in Row
    /\ NewRow(h).status = "pending" /\ NewRow(h).key = h.key
    /\ NewRow(h).attempts = 0 /\ NewRow(h).lease = Null
    /\ NewRow(h).maxAttempts = h.maxAttempts
  BY DEF Handler, NewRow, Row, AbsentRow, Statuses

LEMMA LossCounts == losses \in 0 .. MaxLosses /\ losses < MaxLosses => losses + 1 \in 0 .. MaxLosses
  BY ConstantsOK

\* A step that writes one row and moves one handler on keeps the types.
LEMMA WriteKeepsTypes ==
  ASSUME TypeOK,
         NEW j \in Jobs, NEW r \in Row, r.status # "absent",
         NEW e \in Executors, NEW h \in Handler,
         h.pc \in {"claim", "run", "raised", "release"} => h.job = j,
         jobs' = [jobs EXCEPT ![j] = r], Goto(e, h), losses' = losses
  PROVE  TypeOK'
  <1>1. jobs' \in [Jobs -> Row] /\ exec' \in [Executors -> Handler]
    BY DEF TypeOK, Goto
  <1>2. Present' = Present \cup {j}
    BY DEF TypeOK, Present
  <1>3. ASSUME NEW f \in Executors, exec'[f].pc \in {"claim", "run", "raised", "release"}
        PROVE  exec'[f].job \in Present'
    BY <1>2, <1>3 DEF TypeOK, Goto
  <1>4. QED
    BY <1>1, <1>3 DEF TypeOK

\* ... and so does one that only moves one handler on.
LEMMA MoveKeepsTypes ==
  ASSUME TypeOK,
         NEW e \in Executors, NEW h \in Handler,
         h.pc \in {"claim", "run", "raised", "release"} => h.job \in Present,
         jobs' = jobs, Goto(e, h), losses' \in 0 .. MaxLosses
  PROVE  TypeOK'
  BY DEF TypeOK, Goto, Present

LEMMA TypeInvariance == TypeOK /\ [Next]_vars => TypeOK'
  <1> SUFFICES ASSUME TypeOK, [Next]_vars PROVE TypeOK'
    OBVIOUS
  <1>1. ASSUME NEW e \in Executors, NEW k \in Keys \cup {Null}, FindExisting(e, k)
        PROVE  TypeOK'
    <2>1. PICK j \in Present : Goto(e, Claiming(j))
      BY <1>1 DEF FindExisting, RowsWithKey
    <2>2. j \in Jobs
      BY DEF Present
    <2>3. QED
      BY <1>1, <2>1, <2>2, ClaimingType, MoveKeepsTypes DEF FindExisting, TypeOK
  <1>2. ASSUME NEW e \in Executors, NEW k \in Keys \cup {Null}, NEW n \in Requested,
               NEW inline \in BOOLEAN, FindNothing(e, k, n, inline)
        PROVE  TypeOK'
    BY <1>2, InsertingType, MoveKeepsTypes DEF FindNothing, TypeOK
  <1>3. ASSUME NEW e \in Executors, Insert(e)
        PROVE  TypeOK'
    <2>1. PICK j \in Jobs \ Present :
            /\ jobs' = [jobs EXCEPT ![j] = NewRow(exec[e])]
            /\ Goto(e, Claiming(j)) \/ Goto(e, IdleHandler)
      BY <1>3 DEF Insert, Finish
    <2>2. NewRow(exec[e]) \in Row /\ NewRow(exec[e]).status = "pending"
      BY NewRowType DEF TypeOK
    <2>3. losses' = losses
      BY <1>3 DEF Insert
    <2>4. QED
      BY <2>1, <2>2, <2>3, ClaimingType, IdleType, WriteKeepsTypes
  <1>4. ASSUME NEW e \in Executors,
               InsertConflicts(e) \/ RequestFails(e) \/ ClaimRefused(e) \/ ReleaseFails(e)
        PROVE  TypeOK'
    <2>1. Goto(e, IdleHandler) /\ jobs' = jobs /\ losses' \in 0 .. MaxLosses
      BY <1>4, LossCounts DEF InsertConflicts, RequestFails, ClaimRefused, ReleaseFails, Finish, TypeOK
    <2>2. QED
      BY <2>1, IdleType, MoveKeepsTypes
  <1>5. ASSUME NEW e \in Executors, NEW ttl \in Leases, NEW j \in Jobs,
               jobs[j].status # "absent",
               jobs' = [jobs EXCEPT ![j] = Claimed(jobs[j], ttl)],
               Goto(e, Running(j, ttl)), losses' = losses
        PROVE  TypeOK'
    <2>1. jobs[j] \in Row
      BY DEF TypeOK
    <2>2. Claimed(jobs[j], ttl) \in Row
      BY <2>1, RowTypes
    <2>3. Claimed(jobs[j], ttl).status = "running"
      BY <2>1 DEF Claimed, Row
    <2>4. QED
      BY <1>5, <2>2, <2>3, RunningType, WriteKeepsTypes
  <1>6. ASSUME NEW e \in Executors, NEW ttl \in Leases, ClaimNext(e, ttl)
        PROVE  TypeOK'
    BY <1>5, <1>6 DEF ClaimNext, OldestClaimable, Present
  <1>7. ASSUME NEW e \in Executors, NEW ttl \in Leases, ClaimById(e, ttl)
        PROVE  TypeOK'
    <2>1. exec[e].job \in Present
      BY <1>7 DEF ClaimById, TypeOK
    <2>2. QED
      BY <1>5, <1>7, <2>1 DEF ClaimById, Present
  <1>8. ASSUME NEW e \in Executors, FinalizeRead(e)
        PROVE  TypeOK'
    <2> DEFINE j == exec[e].job
    <2>1. j \in Jobs /\ jobs[j] \in Row
      BY <1>8 DEF FinalizeRead, Finalize, TypeOK, Present
    <2>2. Finalized(jobs[j]) \in Row /\ Finalized(jobs[j]).status = "completed"
      BY <2>1, RowTypes DEF Finalized, Row
    <2>3. QED
      BY <1>8, <2>1, <2>2, IdleType, WriteKeepsTypes DEF FinalizeRead, Finalize, Finish
  <1>u. ASSUME NEW e \in Executors, FinalizeUnread(e)
        PROVE  TypeOK'
    <2> DEFINE j == exec[e].job
    <2>1. j \in Jobs /\ jobs[j] \in Row /\ exec[e] \in Handler
      BY <1>u DEF FinalizeUnread, Finalize, TypeOK, Present
    <2>2. Finalized(jobs[j]) \in Row /\ Finalized(jobs[j]).status = "completed"
      BY <2>1, RowTypes DEF Finalized, Row
    <2>3. jobs' = [jobs EXCEPT ![j] = Finalized(jobs[j])] /\ losses' = losses
      BY <1>u DEF FinalizeUnread, Finalize
    <2> DEFINE r == Finalized(jobs[j])
               h == [exec[e] EXCEPT !.pc = "raised"]
    <2>4. h \in Handler /\ h.job = j /\ Goto(e, h)
      BY <1>u, <2>1, RaisedType DEF FinalizeUnread, Finalize
    <2> HIDE DEF j, r, h
    <2>5. QED
      BY <2>1, <2>2, <2>3, <2>4, WriteKeepsTypes DEF r
  <1>9. ASSUME NEW e \in Executors, BeginRelease(e)
        PROVE  TypeOK'
    <2>1. exec[e].job \in Present /\ exec[e] \in Handler
      BY <1>9 DEF BeginRelease, TypeOK
    <2>2. jobs[exec[e].job].attempts \in Nat
      BY <2>1 DEF TypeOK, Row, Present
    <2>3. QED
      BY <1>9, <2>1, <2>2, ReleasingType, MoveKeepsTypes DEF BeginRelease, TypeOK
  <1>10. ASSUME NEW e \in Executors, Release(e)
         PROVE  TypeOK'
    <2> DEFINE j == exec[e].job
               n == exec[e].attempts
    <2>1. j \in Jobs /\ jobs[j] \in Row /\ n \in Nat
      BY <1>10 DEF Release, TypeOK, Present, Handler
    <2>2. Released(jobs[j], n) \in Row
      BY <2>1, RowTypes
    <2>3. Released(jobs[j], n).status \in {"pending", "failed"}
      BY <2>1 DEF Released, Row, StatusAfterRelease
    <2>4. QED
      BY <1>10, <2>1, <2>2, <2>3, IdleType, WriteKeepsTypes DEF Release, Finish
  <1>11. ASSUME Crash PROVE TypeOK'
    <2>1. /\ jobs' = jobs
          /\ exec' = [e \in Executors |-> IdleHandler]
          /\ losses' \in 0 .. MaxLosses
      BY <1>11, LossCounts DEF Crash, TypeOK
    <2>2. QED
      BY <2>1, IdleType DEF TypeOK
  <1>12. ASSUME Tick PROVE TypeOK'
    <2>1. /\ jobs' = [j \in Jobs |-> AgedRow(jobs[j])]
          /\ exec' = [e \in Executors |-> AgedHandler(exec[e])]
          /\ losses' = losses
      BY <1>12 DEF Tick
    <2>2. jobs' \in [Jobs -> Row] /\ exec' \in [Executors -> Handler]
      BY <2>1, AgedTypes DEF TypeOK
    <2>3. \A e \in Executors : exec'[e].pc = exec[e].pc /\ exec'[e].job = exec[e].job
      BY <2>1, AgedTypes DEF TypeOK
    <2>4. \A j \in Jobs : jobs'[j].status = jobs[j].status
      BY <2>1, AgedTypes DEF TypeOK
    <2>5. QED
      BY <2>1, <2>2, <2>3, <2>4 DEF TypeOK, Present
  <1>13. CASE UNCHANGED vars
    BY <1>13 DEF vars, TypeOK, Present
  <1>14. QED
    BY <1>1, <1>2, <1>3, <1>4, <1>6, <1>7, <1>8, <1>u, <1>9, <1>10, <1>11, <1>12, <1>13, FinalizeCases
       DEF Next, Enqueue, Poll, Proceed

LEMMA InitTypes == Init => TypeOK
  <1>1. AbsentRow \in Row
    BY DEF AbsentRow, Row, Statuses
  <1>2. QED
    BY <1>1, IdleType, ConstantsOK DEF Init, TypeOK

\* The governance_jobs table and the handlers always have the shapes the code
\* gives them.
THEOREM TypeCorrect == Spec => []TypeOK
  BY InitTypes, TypeInvariance, PTL DEF Spec

-----------------------------------------------------------------------------
(* Part 2: the table, however long an execution takes *)

\* What the statements that write a row leave consistent in it.
RowInv(r) ==
  /\ r.lease # Null <=> r.status = "running"
  /\ r.status = "failed" => r.attempts >= r.maxAttempts /\ r.error
  /\ r.status = "completed" => r.finished /\ ~r.error

\* The attempts a release has read are the row's attempts now or at an earlier
\* moment.
ReadIsPast ==
  \A e \in Executors : exec[e].pc = "release" =>
    exec[e].attempts <= jobs[exec[e].job].attempts

TableInv ==
  /\ TypeOK
  /\ \A j \in Jobs : RowInv(jobs[j])
  /\ OneJobPerKey
  /\ ReadIsPast

LEMMA LeaseIsPositive == \A ttl \in Leases : ttl \in Nat /\ ttl > 0 /\ ttl # Null
  BY ConstantsOK

LEMMA ClaimedFields ==
  ASSUME NEW r \in Row, NEW ttl \in Leases
  PROVE  /\ Claimed(r, ttl).status = "running"
         /\ Claimed(r, ttl).lease = ttl
         /\ Claimed(r, ttl).key = r.key
         /\ Claimed(r, ttl).attempts = r.attempts + 1
         /\ Claimed(r, ttl).maxAttempts = r.maxAttempts
         /\ RowInv(Claimed(r, ttl))
  <1>1. /\ Claimed(r, ttl).status = "running"
        /\ Claimed(r, ttl).lease = ttl
        /\ Claimed(r, ttl).key = r.key
        /\ Claimed(r, ttl).attempts = r.attempts + 1
        /\ Claimed(r, ttl).maxAttempts = r.maxAttempts
    BY DEF Claimed, Row
  <1>2. QED
    BY <1>1, LeaseIsPositive DEF RowInv

LEMMA FinalizedFields ==
  ASSUME NEW r \in Row
  PROVE  /\ Finalized(r).status = "completed"
         /\ Finalized(r).lease = Null
         /\ Finalized(r).key = r.key
         /\ Finalized(r).attempts = r.attempts
         /\ Finalized(r).maxAttempts = r.maxAttempts
         /\ RowInv(Finalized(r))
  BY DEF Finalized, Row, RowInv

LEMMA ReleasedFields ==
  ASSUME NEW r \in Row, NEW n \in Nat
  PROVE  /\ Released(r, n).status = StatusAfterRelease(n, r.maxAttempts)
         /\ Released(r, n).lease = Null
         /\ Released(r, n).key = r.key
         /\ Released(r, n).attempts = r.attempts
         /\ Released(r, n).maxAttempts = r.maxAttempts
         /\ n <= r.attempts => RowInv(Released(r, n))
  <1>1. /\ Released(r, n).status = StatusAfterRelease(n, r.maxAttempts)
        /\ Released(r, n).lease = Null
        /\ Released(r, n).key = r.key
        /\ Released(r, n).attempts = r.attempts
        /\ Released(r, n).maxAttempts = r.maxAttempts
        /\ Released(r, n).error = TRUE
    BY DEF Released, Row
  <1>2. r.attempts \in Nat /\ r.maxAttempts \in Nat
    BY DEF Row
  <1>3. n <= r.attempts => RowInv(Released(r, n))
    BY <1>1, <1>2 DEF RowInv, StatusAfterRelease
  <1>4. QED
    BY <1>1, <1>3

\* A statement that writes one consistent row, without lowering its attempts
\* and under its own key or a free one, keeps the table consistent.
LEMMA WriteKeepsTable ==
  ASSUME TableInv, TypeOK',
         NEW j \in Jobs, NEW r \in Row, r.status # "absent", RowInv(r),
         \/ /\ j \in Present
            /\ r.key = jobs[j].key
            /\ r.attempts >= jobs[j].attempts
         \/ j \notin Present /\ RowsWithKey(r.key) = {},
         NEW e \in Executors, NEW h \in Handler, h.pc # "release",
         jobs' = [jobs EXCEPT ![j] = r], Goto(e, h)
  PROVE  TableInv'
  <1>1. jobs \in [Jobs -> Row] /\ exec \in [Executors -> Handler]
    BY DEF TableInv, TypeOK
  <1>2. jobs'[j] = r /\ \A i \in Jobs \ {j} : jobs'[i] = jobs[i]
    BY <1>1
  <1>3. exec'[e] = h /\ \A f \in Executors \ {e} : exec'[f] = exec[f]
    BY <1>1 DEF Goto
  <1>4. \A i \in Jobs : RowInv(jobs'[i])
    BY <1>2 DEF TableInv
  <1>5. OneJobPerKey'
    <2> SUFFICES ASSUME NEW i \in Present', NEW k \in Present',
                        jobs'[i].key = jobs'[k].key, jobs'[i].key # Null
                 PROVE  i = k
      BY DEF OneJobPerKey
    <2>1. i \in Jobs /\ k \in Jobs
      BY DEF Present
    <2>2. (i # j => i \in Present) /\ (k # j => k \in Present)
      BY <1>2, <2>1 DEF Present
    <2>3. CASE j \in Present
      <3>1. \A l \in Jobs : jobs'[l].key = jobs[l].key
        BY <1>2, <2>3 DEF Present
      <3>2. i \in Present /\ k \in Present
        BY <2>2, <2>3
      <3>3. QED
        BY <2>1, <3>1, <3>2 DEF TableInv, OneJobPerKey
    <2>4. CASE j \notin Present /\ RowsWithKey(r.key) = {}
      BY <1>2, <2>1, <2>2, <2>4 DEF TableInv, OneJobPerKey, RowsWithKey
    <2>5. QED
      BY <2>3, <2>4
  <1>6. ReadIsPast'
    <2> SUFFICES ASSUME NEW f \in Executors, exec'[f].pc = "release"
                 PROVE  exec'[f].attempts <= jobs'[exec'[f].job].attempts
      BY DEF ReadIsPast
    <2>1. f # e /\ exec'[f] = exec[f]
      BY <1>3
    <2>2. exec[f].job \in Present /\ exec[f].attempts <= jobs[exec[f].job].attempts
      BY <2>1 DEF TableInv, ReadIsPast, TypeOK
    <2>3. exec[f].attempts \in Nat /\ jobs[exec[f].job].attempts \in Nat /\ r.attempts \in Nat
      BY <1>1, <2>2 DEF Row, Handler, Present
    <2>4. jobs'[exec[f].job].attempts >= jobs[exec[f].job].attempts
      BY <1>2, <2>2, <2>3 DEF Present
    <2>5. jobs'[exec[f].job].attempts \in Nat
      BY <1>2, <2>2, <2>3 DEF Present
    <2>6. QED
      BY <2>1, <2>2, <2>3, <2>4, <2>5
  <1>7. QED
    BY <1>4, <1>5, <1>6 DEF TableInv

\* A step that leaves the table alone and puts no handler into a release.
LEMMA MoveKeepsTable ==
  ASSUME TableInv, TypeOK', jobs' = jobs,
         \A f \in Executors : exec'[f] = exec[f] \/ exec'[f].pc # "release"
  PROVE  TableInv'
  BY DEF TableInv, OneJobPerKey, ReadIsPast, Present

LEMMA TableInvariance == TableInv /\ [Next]_vars => TableInv'
  <1> SUFFICES ASSUME TableInv, [Next]_vars PROVE TableInv'
    OBVIOUS
  <1>1. TypeOK /\ TypeOK'
    BY TypeInvariance DEF TableInv
  <1>2. ASSUME NEW e \in Executors, NEW h \in Handler, h.pc # "release",
               Goto(e, h), jobs' = jobs
        PROVE  TableInv'
    BY <1>1, <1>2, MoveKeepsTable DEF Goto, TypeOK
  <1>3. ASSUME NEW e \in Executors, Enqueue(e)
        PROVE  TableInv'
    <2>1. ASSUME NEW k \in Keys \cup {Null}, FindExisting(e, k)
          PROVE  TableInv'
      BY <1>2, <2>1, ClaimingType DEF FindExisting, RowsWithKey, Present
    <2>2. ASSUME NEW k \in Keys \cup {Null}, NEW n \in Requested,
                 NEW inline \in BOOLEAN, FindNothing(e, k, n, inline)
          PROVE  TableInv'
      BY <1>2, <2>2, InsertingType DEF FindNothing
    <2>3. QED
      BY <1>3, <2>1, <2>2 DEF Enqueue
  <1>4. ASSUME NEW e \in Executors, Insert(e)
        PROVE  TableInv'
    <2>1. PICK j \in Jobs \ Present :
            /\ jobs' = [jobs EXCEPT ![j] = NewRow(exec[e])]
            /\ Goto(e, Claiming(j)) \/ Goto(e, IdleHandler)
      BY <1>4 DEF Insert, Finish
    <2>2. exec[e] \in Handler
      BY <1>1 DEF TypeOK
    <2>3. RowInv(NewRow(exec[e])) /\ RowsWithKey(NewRow(exec[e]).key) = {}
      BY <1>4, <2>2, NewRowType DEF RowInv, Insert, KeyIsFree
    <2>4. QED
      BY <1>1, <2>1, <2>2, <2>3, NewRowType, ClaimingType, IdleType, WriteKeepsTable
  <1>5. ASSUME NEW e \in Executors,
               InsertConflicts(e) \/ RequestFails(e) \/ ClaimRefused(e) \/ ReleaseFails(e)
        PROVE  TableInv'
    BY <1>2, <1>5, IdleType
       DEF InsertConflicts, RequestFails, ClaimRefused, ReleaseFails, Finish
  <1>6. ASSUME NEW e \in Executors, NEW ttl \in Leases, NEW j \in Present,
               jobs' = [jobs EXCEPT ![j] = Claimed(jobs[j], ttl)],
               Goto(e, Running(j, ttl))
        PROVE  TableInv'
    <2>1. j \in Jobs /\ jobs[j] \in Row /\ jobs[j].attempts \in Nat
      BY <1>1 DEF TypeOK, Present, Row
    <2>2. Claimed(jobs[j], ttl) \in Row
      BY <2>1, RowTypes
    <2> DEFINE r == Claimed(jobs[j], ttl)
    <2>3. /\ r.status # "absent" /\ RowInv(r) /\ r.key = jobs[j].key
          /\ r.attempts = jobs[j].attempts + 1
      BY <2>1, ClaimedFields
    <2>4. r.attempts >= jobs[j].attempts
      BY <2>1, <2>3
    <2>5. r \in Row
      BY <2>2
    <2>6. Running(j, ttl) \in Handler /\ Running(j, ttl).pc # "release"
      BY <2>1, RunningType DEF Running, IdleHandler
    <2>7. jobs' = [jobs EXCEPT ![j] = r]
      BY <1>6
    <2> HIDE DEF r
    <2>8. QED
      BY <1>1, <1>6, <2>1, <2>3, <2>4, <2>5, <2>6, <2>7, WriteKeepsTable
  <1>7. ASSUME NEW e \in Executors, NEW ttl \in Leases, ClaimNext(e, ttl)
        PROVE  TableInv'
    BY <1>6, <1>7 DEF ClaimNext, OldestClaimable
  <1>8. ASSUME NEW e \in Executors, NEW ttl \in Leases, ClaimById(e, ttl)
        PROVE  TableInv'
    BY <1>1, <1>6, <1>8 DEF ClaimById, TypeOK
  <1>9. ASSUME NEW e \in Executors, FinalizeRead(e)
        PROVE  TableInv'
    <2> DEFINE j == exec[e].job
    <2>1. j \in Present /\ j \in Jobs /\ jobs[j] \in Row /\ jobs[j].attempts \in Nat
      BY <1>1, <1>9 DEF FinalizeRead, Finalize, TypeOK, Present, Row
    <2>2. Finalized(jobs[j]) \in Row
      BY <2>1, RowTypes
    <2>3. jobs' = [jobs EXCEPT ![j] = Finalized(jobs[j])] /\ Goto(e, IdleHandler)
      BY <1>9 DEF FinalizeRead, Finalize, Finish
    <2> DEFINE r == Finalized(jobs[j])
    <2>4. /\ r.status # "absent" /\ RowInv(r) /\ r.key = jobs[j].key
          /\ r.attempts >= jobs[j].attempts
      BY <2>1, FinalizedFields
    <2> HIDE DEF j, r
    <2>5. QED
      BY <1>1, <2>1, <2>2, <2>3, <2>4, IdleType, WriteKeepsTable DEF r
  <1>u. ASSUME NEW e \in Executors, FinalizeUnread(e)
        PROVE  TableInv'
    <2> DEFINE j == exec[e].job
    <2>1. /\ j \in Present /\ j \in Jobs /\ jobs[j] \in Row
          /\ jobs[j].attempts \in Nat /\ exec[e] \in Handler
      BY <1>1, <1>u DEF FinalizeUnread, Finalize, TypeOK, Present, Row
    <2>2. Finalized(jobs[j]) \in Row
      BY <2>1, RowTypes
    <2> DEFINE r == Finalized(jobs[j])
               h == [exec[e] EXCEPT !.pc = "raised"]
    <2>3. jobs' = [jobs EXCEPT ![j] = r] /\ Goto(e, h)
      BY <1>u DEF FinalizeUnread, Finalize
    <2>4. /\ r.status # "absent" /\ RowInv(r) /\ r.key = jobs[j].key
          /\ r.attempts >= jobs[j].attempts
      BY <2>1, FinalizedFields
    <2>5. h \in Handler /\ h.pc # "release"
      BY <2>1, RaisedType
    <2>6. r \in Row
      BY <2>2
    <2> HIDE DEF j, r, h
    <2>7. QED
      BY <1>1, <2>1, <2>3, <2>4, <2>5, <2>6, WriteKeepsTable
  <1>10. ASSUME NEW e \in Executors, BeginRelease(e)
         PROVE  TableInv'
    <2>1. jobs' = jobs
      BY <1>10 DEF BeginRelease
    <2>2. exec[e].job \in Jobs /\ exec[e] \in Handler
      BY <1>1, <1>10 DEF BeginRelease, TypeOK, Present
    <2>3. jobs[exec[e].job].attempts \in Nat
      BY <1>1, <2>2 DEF TypeOK, Row
    <2>4. /\ exec'[e].job = exec[e].job
          /\ exec'[e].attempts = jobs[exec[e].job].attempts
          /\ \A f \in Executors \ {e} : exec'[f] = exec[f]
      BY <1>1, <1>10, <2>2, <2>3, ReleasingType DEF BeginRelease, Goto, TypeOK
    <2>5. ReadIsPast'
      BY <2>1, <2>3, <2>4 DEF TableInv, ReadIsPast
    <2>6. QED
      BY <1>1, <2>1, <2>5 DEF TableInv, OneJobPerKey, Present
  <1>11. ASSUME NEW e \in Executors, Release(e)
         PROVE  TableInv'
    <2> DEFINE j == exec[e].job
               n == exec[e].attempts
    <2>1. j \in Present /\ j \in Jobs /\ jobs[j] \in Row /\ jobs[j].attempts \in Nat
      BY <1>1, <1>11 DEF Release, TypeOK, Present, Row
    <2>2. n \in Nat /\ n <= jobs[j].attempts
      BY <1>1, <1>11 DEF Release, TypeOK, Handler, TableInv, ReadIsPast
    <2>3. Released(jobs[j], n) \in Row
      BY <2>1, <2>2, RowTypes
    <2>4. jobs' = [jobs EXCEPT ![j] = Released(jobs[j], n)] /\ Goto(e, IdleHandler)
      BY <1>11 DEF Release, Finish
    <2>5. StatusAfterRelease(n, jobs[j].maxAttempts) # "absent"
      BY DEF StatusAfterRelease
    <2> DEFINE r == Released(jobs[j], n)
    <2>6. /\ r.status # "absent" /\ RowInv(r) /\ r.key = jobs[j].key
          /\ r.attempts >= jobs[j].attempts
      BY <2>1, <2>2, <2>5, ReleasedFields
    <2> HIDE DEF j, n, r
    <2>7. QED
      BY <1>1, <2>1, <2>2, <2>3, <2>4, <2>6, IdleType, WriteKeepsTable DEF r
  <1>12. ASSUME Crash PROVE TableInv'
    BY <1>1, <1>12, IdleType, MoveKeepsTable DEF Crash
  <1>13. ASSUME Tick PROVE TableInv'
    <2>1. \A j \in Jobs : /\ jobs'[j].status = jobs[j].status
                          /\ jobs'[j].key = jobs[j].key
                          /\ jobs'[j].attempts = jobs[j].attempts
                          /\ jobs'[j].maxAttempts = jobs[j].maxAttempts
                          /\ jobs'[j].finished = jobs[j].finished
                          /\ jobs'[j].error = jobs[j].error
                          /\ jobs'[j].lease = IF jobs[j].lease = Null
                                                THEN Null ELSE Elapse(jobs[j].lease)
      BY <1>1, <1>13, AgedTypes DEF Tick, TypeOK
    <2>2. \A e \in Executors : /\ exec'[e].pc = exec[e].pc
                               /\ exec'[e].job = exec[e].job
                               /\ exec'[e].attempts = exec[e].attempts
      BY <1>1, <1>13, AgedTypes DEF Tick, TypeOK
    <2>3. \A t \in Nat : Elapse(t) # Null
      BY ConstantsOK DEF Elapse
    <2>4. \A j \in Jobs : jobs[j].lease \in Nat \cup {Null}
      BY <1>1 DEF TypeOK, Row
    <2>5. \A j \in Jobs : jobs'[j].lease = Null <=> jobs[j].lease = Null
      BY <2>1, <2>3, <2>4
    <2>6. \A j \in Jobs : RowInv(jobs'[j])
      BY <2>1, <2>5 DEF TableInv, RowInv
    <2>7. OneJobPerKey'
      BY <2>1 DEF TableInv, OneJobPerKey, Present
    <2>8. ReadIsPast'
      <3>1. \A e \in Executors : exec[e].pc = "release" => exec[e].job \in Jobs
        BY <1>1 DEF TypeOK, Present
      <3>2. QED
        BY <2>1, <2>2, <3>1 DEF TableInv, ReadIsPast
    <2>9. QED
      BY <1>1, <2>6, <2>7, <2>8 DEF TableInv
  <1>14. CASE UNCHANGED vars
    BY <1>1, <1>14, MoveKeepsTable DEF vars
  <1>15. QED
    BY <1>3, <1>4, <1>5, <1>7, <1>8, <1>9, <1>u, <1>10, <1>11, <1>12, <1>13, <1>14, FinalizeCases
       DEF Next, Poll, Proceed

LEMMA InitTable == Init => TableInv
  <1> SUFFICES ASSUME Init PROVE TableInv
    OBVIOUS
  <1>1. TypeOK
    BY InitTypes
  <1>2. \A j \in Jobs : jobs[j] = AbsentRow
    BY DEF Init
  <1>3. \A e \in Executors : exec[e].pc = "idle"
    BY IdleType DEF Init
  <1>4. RowInv(AbsentRow) /\ AbsentRow.status = "absent"
    BY DEF RowInv, AbsentRow
  <1>5. QED
    BY <1>1, <1>2, <1>3, <1>4 DEF TableInv, OneJobPerKey, ReadIsPast, Present

LEMMA TableInvHolds == Spec => []TableInv
  BY InitTable, TableInvariance, PTL DEF Spec

\* At most one row per idempotency key, although enqueue_governance_job looks
\* for the key and inserts the row in two statements.
THEOREM KeysAreUnique == Spec => []OneJobPerKey
  <1>1. TableInv => OneJobPerKey
    BY DEF TableInv
  <1>2. QED
    BY <1>1, TableInvHolds, PTL

\* A row is leased exactly while it runs, so no running job is lost to the
\* worker.
THEOREM LeaseMatchesStatus == Spec => []LeasedIffRunning
  <1>1. TableInv => LeasedIffRunning
    BY DEF TableInv, RowInv, LeasedIffRunning
  <1>2. QED
    BY <1>1, TableInvHolds, PTL

\* A job is given up only after max_attempts claims, however stale the attempts
\* value the release decided on.
THEOREM FailedMeansExhausted == Spec => []FailedOnlyExhausted
  <1>1. TableInv => FailedOnlyExhausted
    BY DEF TableInv, RowInv, FailedOnlyExhausted
  <1>2. QED
    BY <1>1, TableInvHolds, PTL

\* A completed job carries its completion time and no error.
THEOREM CompletedRowIsClean == Spec => []CompletedIsClean
  <1>1. TableInv => CompletedIsClean
    BY DEF TableInv, RowInv, CompletedIsClean
  <1>2. QED
    BY <1>1, TableInvHolds, PTL

-----------------------------------------------------------------------------
(* Part 3: executions that end within their lease (~MayOverrun), and rows *)
(* that can be read back once they are written (~ReadsMayFail) *)

\* The lease of a row that is worked on is its executor's own: a claim needs a
\* pending row or an expired lease, so it never meets a worker.

Works(e, j) == Executing(e) /\ exec[e].job = j

\* What an executor may rely on while it works on its job.
HoldsLease(e) ==
  Executing(e) =>
    /\ jobs[exec[e].job].status = "running"
    /\ jobs[exec[e].job].lease = exec[e].left
    /\ exec[e].left > 0
    /\ exec[e].pc = "release" => exec[e].attempts = jobs[exec[e].job].attempts

HoldInv ==
  /\ TableInv
  /\ \A e \in Executors : HoldsLease(e)
  /\ ExclusiveExecution

LEMMA HoldTypes ==
  ASSUME TypeOK
  PROVE  /\ \A j \in Jobs : jobs[j] \in Row
         /\ \A e \in Executors : exec[e] \in Handler
         /\ \A e \in Executors : Executing(e) =>
              exec[e].job \in Present /\ exec[e].job \in Jobs
  BY DEF TypeOK, Executing, Present

\* A row that is pending or whose lease is over has no worker.
LEMMA ClaimableIsFree ==
  ASSUME HoldInv, NEW j \in Jobs,
         jobs[j].status = "pending" \/ jobs[j].lease \in {0, Null},
         NEW f \in Executors
  PROVE  ~Works(f, j)
  <1> SUFFICES ASSUME Works(f, j) PROVE FALSE
    OBVIOUS
  <1>1. /\ jobs[j].status = "running"
        /\ jobs[j].lease = exec[f].left
        /\ exec[f].left > 0
    BY DEF HoldInv, HoldsLease, Works
  <1>2. exec[f].left \in Nat /\ Null \notin Nat
    BY ConstantsOK DEF HoldInv, TableInv, TypeOK, Handler
  <1>3. QED
    BY <1>1, <1>2

\* The row a worker writes has no other worker.
LEMMA WorkerIsAlone ==
  ASSUME HoldInv, NEW e \in Executors, Executing(e), NEW f \in Executors \ {e}
  PROVE  ~Works(f, exec[e].job)
  BY DEF HoldInv, ExclusiveExecution, Works

\* A statement that writes a row nobody else works on, and leaves its own
\* handler either done with it or with the row's new lease.
LEMMA WriteKeepsHold ==
  ASSUME HoldInv, TableInv',
         NEW j \in Jobs, NEW r \in Row, NEW e \in Executors, NEW h \in Handler,
         jobs' = [jobs EXCEPT ![j] = r], Goto(e, h),
         \A f \in Executors \ {e} : ~Works(f, j),
         h.pc \notin {"raised", "release"},
         h.pc = "run" => /\ h.job = j
                         /\ r.status = "running"
                         /\ r.lease = h.left
                         /\ h.left > 0
  PROVE  HoldInv'
  <1>1. jobs'[j] = r /\ \A i \in Jobs \ {j} : jobs'[i] = jobs[i]
    BY DEF HoldInv, TableInv, TypeOK
  <1>2. exec'[e] = h /\ \A f \in Executors \ {e} : exec'[f] = exec[f]
    BY DEF HoldInv, TableInv, TypeOK, Goto
  <1>3. \A f \in Executors \ {e} : Executing(f) => exec[f].job \in Jobs \ {j}
    BY HoldTypes DEF HoldInv, TableInv, Works
  <1>4. ASSUME NEW f \in Executors PROVE HoldsLease(f)'
    <2>1. CASE f = e
      BY <1>1, <1>2, <2>1 DEF HoldsLease, Executing
    <2>2. CASE f # e
      BY <1>1, <1>2, <1>3, <2>2 DEF HoldInv, HoldsLease, Executing
    <2>3. QED
      BY <2>1, <2>2
  <1>5. ExclusiveExecution'
    BY <1>2, <1>3 DEF HoldInv, ExclusiveExecution, Executing
  <1>6. QED
    BY <1>4, <1>5 DEF HoldInv

\* A step that leaves the table alone and starts no work.
LEMMA MoveKeepsHold ==
  ASSUME HoldInv, TableInv', jobs' = jobs,
         \A f \in Executors : exec'[f] = exec[f] \/ exec'[f].pc \notin {"run", "raised", "release"}
  PROVE  HoldInv'
  <1>1. ASSUME NEW f \in Executors PROVE HoldsLease(f)'
    BY DEF HoldInv, HoldsLease, Executing
  <1>2. ExclusiveExecution'
    BY DEF HoldInv, ExclusiveExecution, Executing
  <1>3. QED
    BY <1>1, <1>2 DEF HoldInv

LEMMA HoldInvariance ==
  ~MayOverrun /\ ~ReadsMayFail /\ HoldInv /\ [Next]_vars => HoldInv'
  <1> SUFFICES ASSUME ~MayOverrun, ~ReadsMayFail, HoldInv, [Next]_vars PROVE HoldInv'
    OBVIOUS
  <1>1. TableInv /\ TableInv' /\ TypeOK /\ TypeOK'
    BY TableInvariance DEF HoldInv, TableInv
  <1>2. /\ \A j \in Jobs : jobs[j] \in Row
        /\ \A e \in Executors : exec[e] \in Handler
        /\ \A e \in Executors : Executing(e) =>
             exec[e].job \in Present /\ exec[e].job \in Jobs
    BY <1>1, HoldTypes
  <1>3. ASSUME NEW e \in Executors, NEW h \in Handler, h.pc \notin {"run", "raised", "release"},
               Goto(e, h), jobs' = jobs
        PROVE  HoldInv'
    BY <1>1, <1>3, MoveKeepsHold DEF Goto, TypeOK
  <1>4. ASSUME NEW e \in Executors, Enqueue(e)
        PROVE  HoldInv'
    <2>1. ASSUME NEW k \in Keys \cup {Null}, FindExisting(e, k)
          PROVE  HoldInv'
      BY <1>3, <2>1, ClaimingType DEF FindExisting, RowsWithKey, Present
    <2>2. ASSUME NEW k \in Keys \cup {Null}, NEW n \in Requested,
                 NEW inline \in BOOLEAN, FindNothing(e, k, n, inline)
          PROVE  HoldInv'
      BY <1>3, <2>2, InsertingType DEF FindNothing
    <2>3. QED
      BY <1>4, <2>1, <2>2 DEF Enqueue
  <1>5. ASSUME NEW e \in Executors, Insert(e)
        PROVE  HoldInv'
    <2>1. PICK j \in Jobs \ Present :
            /\ jobs' = [jobs EXCEPT ![j] = NewRow(exec[e])]
            /\ Goto(e, Claiming(j)) \/ Goto(e, IdleHandler)
      BY <1>5 DEF Insert, Finish
    <2>2. NewRow(exec[e]) \in Row
      BY <1>2, NewRowType
    <2>3. \A f \in Executors : ~Works(f, j)
      BY <1>2, <2>1 DEF Works
    <2> DEFINE r == NewRow(exec[e])
    <2> HIDE DEF r
    <2>4. QED
      BY <1>1, <2>1, <2>2, <2>3, ClaimingType, IdleType, WriteKeepsHold DEF r
  <1>6. ASSUME NEW e \in Executors,
               InsertConflicts(e) \/ RequestFails(e) \/ ClaimRefused(e) \/ ReleaseFails(e)
        PROVE  HoldInv'
    BY <1>3, <1>6, IdleType
       DEF InsertConflicts, RequestFails, ClaimRefused, ReleaseFails, Finish
  <1>7. ASSUME NEW e \in Executors, NEW ttl \in Leases, NEW j \in Jobs,
               jobs[j].status = "pending" \/ jobs[j].lease \in {0, Null},
               jobs' = [jobs EXCEPT ![j] = Claimed(jobs[j], ttl)],
               Goto(e, Running(j, ttl))
        PROVE  HoldInv'
    <2> DEFINE r == Claimed(jobs[j], ttl)
               h == Running(j, ttl)
    <2>1. r \in Row /\ r.status = "running" /\ r.lease = ttl
      BY <1>2, RowTypes, ClaimedFields
    <2>2. h \in Handler /\ h.pc = "run" /\ h.job = j /\ h.left = ttl
      BY RunningType
    <2>3. ttl > 0
      BY LeaseIsPositive
    <2>4. \A f \in Executors \ {e} : ~Works(f, j)
      BY <1>7, ClaimableIsFree
    <2>5. jobs' = [jobs EXCEPT ![j] = r] /\ Goto(e, h)
      BY <1>7
    <2> HIDE DEF r, h
    <2>6. QED
      BY <1>1, <2>1, <2>2, <2>3, <2>4, <2>5, WriteKeepsHold
  <1>8. ASSUME NEW e \in Executors, NEW ttl \in Leases, ClaimNext(e, ttl)
        PROVE  HoldInv'
    BY <1>7, <1>8 DEF ClaimNext, OldestClaimable, Present, Claimable, Expired
  <1>9. ASSUME NEW e \in Executors, NEW ttl \in Leases, ClaimById(e, ttl)
        PROVE  HoldInv'
    BY <1>1, <1>7, <1>9 DEF ClaimById, ClaimableById, TypeOK, Present
  <1>10. ASSUME NEW e \in Executors, NEW j \in Jobs, NEW r \in Row,
                Executing(e), j = exec[e].job,
                jobs' = [jobs EXCEPT ![j] = r], Finish(e)
         PROVE  HoldInv'
    <2>1. \A f \in Executors \ {e} : ~Works(f, j)
      BY <1>10, WorkerIsAlone
    <2>2. QED
      BY <1>1, <1>10, <2>1, IdleType, WriteKeepsHold DEF Finish
  <1>11. ASSUME NEW e \in Executors, FinalizeRead(e)
         PROVE  HoldInv'
    <2>1. Executing(e) /\ exec[e].job \in Jobs
      BY <1>2, <1>11 DEF FinalizeRead, Finalize, Executing
    <2>2. Finalized(jobs[exec[e].job]) \in Row
      BY <1>2, <2>1, RowTypes
    <2>3. QED
      BY <1>10, <1>11, <2>1, <2>2 DEF FinalizeRead, Finalize
  <1>12. ASSUME NEW e \in Executors, BeginRelease(e)
         PROVE  HoldInv'
    <2>1. Executing(e) /\ exec[e].job \in Jobs
      BY <1>2, <1>12 DEF BeginRelease, Executing
    <2> DEFINE n == jobs[exec[e].job].attempts
    <2>2. n \in Nat
      BY <1>2, <2>1 DEF Row
    <2>3. jobs' = jobs /\ Goto(e, Releasing(exec[e], n))
      BY <1>12 DEF BeginRelease
    <2>4. /\ exec'[e].job = exec[e].job /\ exec'[e].left = exec[e].left
          /\ exec'[e].attempts = n /\ exec'[e].pc = "release"
          /\ \A f \in Executors \ {e} : exec'[f] = exec[f]
      BY <1>1, <1>2, <2>2, <2>3, ReleasingType DEF Goto, TypeOK
    <2>5. ASSUME NEW f \in Executors PROVE HoldsLease(f)'
      BY <2>1, <2>3, <2>4 DEF HoldInv, HoldsLease, Executing
    <2>6. ExclusiveExecution'
      BY <2>1, <2>4 DEF HoldInv, ExclusiveExecution, Executing
    <2>7. QED
      BY <1>1, <2>5, <2>6 DEF HoldInv
  <1>13. ASSUME NEW e \in Executors, Release(e)
         PROVE  HoldInv'
    <2>1. Executing(e) /\ exec[e].job \in Jobs /\ exec[e].attempts \in Nat
      BY <1>2, <1>13 DEF Release, Executing, Handler
    <2>2. Released(jobs[exec[e].job], exec[e].attempts) \in Row
      BY <1>2, <2>1, RowTypes
    <2>3. QED
      BY <1>10, <1>13, <2>1, <2>2 DEF Release
  <1>14. ASSUME Crash PROVE HoldInv'
    BY <1>1, <1>14, IdleType, MoveKeepsHold DEF Crash
  <1>15. ASSUME Tick PROVE HoldInv'
    <2>1. \A j \in Jobs : /\ jobs'[j].status = jobs[j].status
                          /\ jobs'[j].attempts = jobs[j].attempts
                          /\ jobs'[j].lease = IF jobs[j].lease = Null
                                                THEN Null ELSE Elapse(jobs[j].lease)
      BY <1>2, <1>15, AgedTypes DEF Tick
    <2>2. \A e \in Executors : /\ exec'[e].pc = exec[e].pc
                               /\ exec'[e].job = exec[e].job
                               /\ exec'[e].attempts = exec[e].attempts
                               /\ exec'[e].left = Elapse(exec[e].left)
      BY <1>2, <1>15, AgedTypes DEF Tick
    <2>3. ASSUME NEW e \in Executors PROVE HoldsLease(e)'
      <3> SUFFICES ASSUME Executing(e)' PROVE HoldsLease(e)'
        BY DEF HoldsLease
      <3>1. Executing(e)
        BY <2>2 DEF Executing
      <3>2. exec[e].left > 1 /\ exec[e].left \in Nat
        BY <1>2, <1>15, <3>1 DEF Tick, Handler
      <3>3. exec'[e].left = exec[e].left - 1 /\ exec[e].left - 1 > 0
        BY <2>2, <3>2 DEF Elapse
      <3>4. /\ exec[e].job \in Jobs
            /\ jobs[exec[e].job].status = "running"
            /\ jobs[exec[e].job].lease = exec[e].left
            /\ exec[e].pc = "release" => exec[e].attempts = jobs[exec[e].job].attempts
        BY <1>2, <3>1 DEF HoldInv, HoldsLease
      <3>5. exec[e].left # Null
        BY <3>2, ConstantsOK
      <3>6. jobs'[exec[e].job].lease = exec[e].left - 1
        BY <2>1, <3>2, <3>4, <3>5 DEF Elapse
      <3>7. QED
        BY <2>1, <2>2, <3>3, <3>4, <3>6 DEF HoldsLease
    <2>4. ExclusiveExecution'
      BY <2>2 DEF HoldInv, ExclusiveExecution, Executing
    <2>5. QED
      BY <1>1, <2>3, <2>4 DEF HoldInv
  <1>16. CASE UNCHANGED vars
    BY <1>1, <1>16, MoveKeepsHold DEF vars
  <1>17. QED
    BY <1>4, <1>5, <1>6, <1>8, <1>9, <1>11, <1>12, <1>13, <1>14, <1>15, <1>16, FinalizeCases
       DEF Next, Poll, Proceed, FinalizeUnread

LEMMA InitHold == Init => HoldInv
  <1> SUFFICES ASSUME Init PROVE HoldInv
    OBVIOUS
  <1>1. TableInv
    BY InitTable
  <1>2. \A e \in Executors : exec[e].pc = "idle"
    BY IdleType DEF Init
  <1>3. QED
    BY <1>1, <1>2 DEF HoldInv, HoldsLease, ExclusiveExecution, Executing

LEMMA HoldInvHolds == ASSUME ~MayOverrun, ~ReadsMayFail PROVE Spec => []HoldInv
  <1>1. HoldInv /\ [Next]_vars => HoldInv'
    BY HoldInvariance
  <1>2. QED
    BY <1>1, InitHold, PTL DEF Spec

\* When executions end within their lease and written rows can be read back, no
\* two executors ever work on one job: neither run-next nor the inline claim
\* takes a job that is worked on.
THEOREM ExecutionIsExclusive ==
  ASSUME ~MayOverrun, ~ReadsMayFail PROVE Spec => []ExclusiveExecution
  <1>1. HoldInv => ExclusiveExecution
    BY DEF HoldInv
  <1>2. QED
    BY <1>1, HoldInvHolds, PTL

-----------------------------------------------------------------------------
(* Outcomes *)

Over(j) == jobs[j].status \in {"completed", "failed"}

LEMMA OverIsKept == ~MayOverrun /\ ~ReadsMayFail /\ HoldInv /\ [Next]_vars =>
                      \A j \in Jobs : Over(j) => jobs'[j] = jobs[j]
  <1> SUFFICES ASSUME ~MayOverrun, ~ReadsMayFail, HoldInv, [Next]_vars,
                      NEW j \in Jobs, Over(j)
               PROVE  jobs'[j] = jobs[j]
    OBVIOUS
  <1>1. TypeOK /\ jobs[j] \in Row /\ jobs[j].lease = Null
    BY HoldTypes DEF HoldInv, TableInv, RowInv, Over
  <1>2. ASSUME NEW e \in Executors, Executing(e) PROVE exec[e].job # j
    BY <1>2, ClaimableIsFree DEF HoldInv, HoldsLease, Over
  <1>3. ASSUME NEW i \in Jobs \ {j}, NEW r, jobs' = [jobs EXCEPT ![i] = r]
        PROVE  jobs'[j] = jobs[j]
    BY <1>1, <1>3 DEF TypeOK
  <1>4. ASSUME NEW e \in Executors, Insert(e) PROVE jobs'[j] = jobs[j]
    <2>1. j \in Present
      BY DEF Over, Present
    <2>2. PICK i \in Jobs \ Present : jobs' = [jobs EXCEPT ![i] = NewRow(exec[e])]
      BY <1>4 DEF Insert
    <2>3. QED
      BY <1>3, <2>1, <2>2
  <1>5. ASSUME NEW e \in Executors, NEW ttl \in Leases, ClaimNext(e, ttl)
        PROVE  jobs'[j] = jobs[j]
    BY <1>3, <1>5 DEF ClaimNext, OldestClaimable, Claimable, Expired, Present, Over
  <1>6. ASSUME NEW e \in Executors, NEW ttl \in Leases, ClaimById(e, ttl)
        PROVE  jobs'[j] = jobs[j]
    <2>1. exec[e].job \in Jobs \ {j}
      BY <1>1, <1>6 DEF ClaimById, ClaimableById, TypeOK, Present, Over
    <2>2. QED
      BY <1>3, <1>6, <2>1 DEF ClaimById
  <1>7. ASSUME NEW e \in Executors, FinalizeRead(e) \/ Release(e)
        PROVE  jobs'[j] = jobs[j]
    <2>1. exec[e].job \in Jobs \ {j}
      BY <1>1, <1>2, <1>7, HoldTypes DEF FinalizeRead, Finalize, Release, Executing
    <2>2. QED
      BY <1>3, <1>7, <2>1 DEF FinalizeRead, Finalize, Release
  <1>8. ASSUME Tick PROVE jobs'[j] = jobs[j]
    BY <1>1, <1>8 DEF Tick, AgedRow, Row
  <1>9. ASSUME NEW e \in Executors,
               \/ Enqueue(e) \/ InsertConflicts(e) \/ RequestFails(e)
               \/ ClaimRefused(e) \/ BeginRelease(e) \/ ReleaseFails(e)
        PROVE  jobs' = jobs
    BY <1>9 DEF Enqueue, FindExisting, FindNothing, InsertConflicts, RequestFails,
                ClaimRefused, BeginRelease, ReleaseFails
  <1>10. QED
    BY <1>4, <1>5, <1>6, <1>7, <1>8, <1>9, FinalizeCases
       DEF Next, Poll, Proceed, FinalizeUnread, Crash, vars

\* When executions end within their lease and written rows can be read back, a
\* job that completed or was given up is never touched again.
THEOREM OutcomesAreFinal ==
  ASSUME ~MayOverrun, ~ReadsMayFail PROVE Spec => OutcomeIsFinal
  <1>1. HoldInv /\ [Next]_vars =>
          [\A j \in Jobs : jobs[j].status \in {"completed", "failed"} =>
                             jobs'[j] = jobs[j]]_vars
    BY OverIsKept DEF Over
  <1>2. QED
    BY <1>1, HoldInvHolds, PTL DEF Spec, OutcomeIsFinal

-----------------------------------------------------------------------------
(* Attempts *)

\* A running row without a worker lost one: its execution is among losses.
RowBudget(j) ==
  /\ jobs[j].maxAttempts >= 1
  /\ jobs[j].status = "pending" => jobs[j].attempts < jobs[j].maxAttempts
  /\ jobs[j].attempts <= jobs[j].maxAttempts + losses
  /\ jobs[j].status = "running" /\ (\A f \in Executors : ~Works(f, j)) =>
       jobs[j].attempts < jobs[j].maxAttempts + losses

InsertBudget(e) == exec[e].pc = "insert" => exec[e].maxAttempts >= 1

BudgetInv ==
  /\ HoldInv
  /\ \A e \in Executors : InsertBudget(e)
  /\ \A j \in Present : RowBudget(j)

LEMMA BudgetTypes ==
  ASSUME BudgetInv
  PROVE  /\ \A j \in Jobs : /\ jobs[j] \in Row
                           /\ jobs[j].attempts \in Nat
                           /\ jobs[j].maxAttempts \in Nat
         /\ losses \in Nat
  BY ConstantsOK DEF BudgetInv, HoldInv, TableInv, TypeOK, Row

\* A statement that writes one row within its budget; what the handler worked
\* on before can only be that row.
LEMMA WriteKeepsBudget ==
  ASSUME BudgetInv, HoldInv',
         NEW j \in Jobs, NEW r \in Row, NEW e \in Executors, NEW h \in Handler,
         jobs' = [jobs EXCEPT ![j] = r], Goto(e, h), losses' = losses,
         r.status # "absent", h.pc # "insert",
         \A i \in Jobs \ {j} : ~Works(e, i),
         r.maxAttempts >= 1,
         r.status = "pending" => r.attempts < r.maxAttempts,
         r.attempts <= r.maxAttempts + losses,
         r.status = "running" => h.pc = "run" /\ h.job = j
  PROVE  BudgetInv'
  <1>1. jobs'[j] = r /\ \A i \in Jobs \ {j} : jobs'[i] = jobs[i]
    BY DEF BudgetInv, HoldInv, TableInv, TypeOK
  <1>2. exec'[e] = h /\ \A f \in Executors \ {e} : exec'[f] = exec[f]
    BY DEF BudgetInv, HoldInv, TableInv, TypeOK, Goto
  <1>3. ASSUME NEW i \in Jobs, jobs'[i].status # "absent" PROVE RowBudget(i)'
    <2>1. CASE i = j
      <3>1. r.status = "running" => Works(e, j)'
        BY <1>2 DEF Works, Executing
      <3>2. QED
        BY <1>1, <2>1, <3>1 DEF RowBudget
    <2>2. CASE i # j
      <3>1. \A f \in Executors : Works(f, i) => Works(f, i)'
        BY <1>2, <2>2 DEF Works, Executing
      <3>2. jobs'[i] = jobs[i] /\ RowBudget(i)
        BY <1>1, <1>3, <2>2 DEF BudgetInv, Present
      <3>3. QED
        BY <3>1, <3>2 DEF RowBudget
    <2>3. QED
      BY <2>1, <2>2
  <1>4. \A f \in Executors : InsertBudget(f)'
    BY <1>2 DEF BudgetInv, InsertBudget
  <1>5. QED
    BY <1>3, <1>4 DEF BudgetInv, Present

\* A step that leaves the table alone and ends no work without counting it.
LEMMA MoveKeepsBudget ==
  ASSUME BudgetInv, HoldInv', jobs' = jobs,
         \A f \in Executors : InsertBudget(f)',
         \/ /\ losses' = losses
            /\ \A f \in Executors : Executing(f) =>
                 Executing(f)' /\ exec'[f].job = exec[f].job
         \/ losses' = losses + 1
  PROVE  BudgetInv'
  <1>1. ASSUME NEW j \in Present PROVE RowBudget(j)'
    <2>1. RowBudget(j) /\ j \in Jobs
      BY DEF BudgetInv, Present
    <2>2. jobs[j].attempts \in Nat /\ jobs[j].maxAttempts \in Nat /\ losses \in Nat
      BY <2>1, BudgetTypes
    <2>3. CASE losses' = losses + 1
      <3>1. jobs[j].attempts < jobs[j].maxAttempts + losses'
        BY <2>1, <2>2, <2>3 DEF RowBudget
      <3>2. QED
        BY <2>1, <2>2, <3>1, <2>3 DEF RowBudget
    <2>4. CASE losses' = losses /\ \A f \in Executors : Executing(f) =>
                 Executing(f)' /\ exec'[f].job = exec[f].job
      <3>1. \A f \in Executors : Works(f, j) => Works(f, j)'
        BY <2>4 DEF Works
      <3>2. QED
        BY <2>1, <2>4, <3>1 DEF RowBudget
    <2>5. QED
      BY <2>3, <2>4
  <1>2. Present' = Present
    BY DEF Present
  <1>3. QED
    BY <1>1, <1>2 DEF BudgetInv

LEMMA BudgetInvariance ==
  ~MayOverrun /\ ~ReadsMayFail /\ BudgetInv /\ [Next]_vars => BudgetInv'
  <1> SUFFICES ASSUME ~MayOverrun, ~ReadsMayFail, BudgetInv, [Next]_vars PROVE BudgetInv'
    OBVIOUS
  <1>1. HoldInv /\ HoldInv' /\ TypeOK
    BY HoldInvariance DEF BudgetInv, HoldInv, TableInv
  <1>2. /\ \A j \in Jobs : /\ jobs[j] \in Row
                          /\ jobs[j].attempts \in Nat
                          /\ jobs[j].maxAttempts \in Nat
        /\ losses \in Nat
        /\ \A e \in Executors : exec[e] \in Handler
        /\ \A e \in Executors : Executing(e) =>
             exec[e].job \in Present /\ exec[e].job \in Jobs
    BY <1>1, BudgetTypes, HoldTypes
  <1>3. ASSUME NEW e \in Executors, NEW h \in Handler, ~Executing(e),
               h.pc = "insert" => h.maxAttempts >= 1,
               Goto(e, h), jobs' = jobs, losses' = losses
        PROVE  BudgetInv'
    <2>1. exec'[e] = h /\ \A f \in Executors \ {e} : exec'[f] = exec[f]
      BY <1>1, <1>3 DEF Goto, TypeOK
    <2>2. \A f \in Executors : InsertBudget(f)'
      BY <1>3, <2>1 DEF BudgetInv, InsertBudget
    <2>3. \A f \in Executors : Executing(f) =>
            Executing(f)' /\ exec'[f].job = exec[f].job
      BY <1>3, <2>1 DEF Executing
    <2>4. QED
      BY <1>1, <1>3, <2>2, <2>3, MoveKeepsBudget
  <1>4. ASSUME NEW e \in Executors, Enqueue(e)
        PROVE  BudgetInv'
    <2>1. ASSUME NEW k \in Keys \cup {Null}, FindExisting(e, k)
          PROVE  BudgetInv'
      BY <1>3, <2>1, ClaimingType DEF FindExisting, RowsWithKey, Present, Executing
    <2>2. ASSUME NEW k \in Keys \cup {Null}, NEW n \in Requested,
                 NEW inline \in BOOLEAN, FindNothing(e, k, n, inline)
          PROVE  BudgetInv'
      BY <1>3, <2>2, InsertingType DEF FindNothing, Executing
    <2>3. QED
      BY <1>4, <2>1, <2>2 DEF Enqueue
  <1>5. ASSUME NEW e \in Executors, Insert(e)
        PROVE  BudgetInv'
    <2>1. PICK j \in Jobs \ Present :
            /\ jobs' = [jobs EXCEPT ![j] = NewRow(exec[e])]
            /\ Goto(e, Claiming(j)) \/ Goto(e, IdleHandler)
      BY <1>5 DEF Insert, Finish
    <2> DEFINE r == NewRow(exec[e])
    <2>2. /\ r \in Row /\ r.status = "pending" /\ r.attempts = 0
          /\ r.maxAttempts = exec[e].maxAttempts
      BY <1>2, NewRowType
    <2>3. exec[e].maxAttempts >= 1 /\ exec[e].maxAttempts \in Nat
      BY <1>2, <1>5 DEF BudgetInv, InsertBudget, Insert, Handler
    <2>4. \A i \in Jobs : ~Works(e, i)
      BY <1>5 DEF Insert, Works, Executing
    <2>5. losses' = losses
      BY <1>5 DEF Insert
    <2>6. r.attempts < r.maxAttempts /\ r.attempts <= r.maxAttempts + losses
      BY <1>2, <2>2, <2>3
    <2>7. jobs' = [jobs EXCEPT ![j] = r]
      BY <2>1
    <2> HIDE DEF r
    <2>8. PICK h \in Handler : Goto(e, h) /\ h.pc # "insert"
      BY <2>1, ClaimingType, IdleType
    <2>9. QED
      BY <1>1, <2>2, <2>3, <2>4, <2>5, <2>6, <2>7, <2>8, WriteKeepsBudget
  <1>6. ASSUME NEW e \in Executors,
               InsertConflicts(e) \/ RequestFails(e) \/ ClaimRefused(e)
        PROVE  BudgetInv'
    BY <1>3, <1>6, IdleType
       DEF InsertConflicts, RequestFails, ClaimRefused, Finish, Executing
  <1>7. ASSUME NEW e \in Executors, ReleaseFails(e)
        PROVE  BudgetInv'
    <2>1. \A f \in Executors : InsertBudget(f)'
      BY <1>1, <1>7, IdleType
         DEF ReleaseFails, Finish, Goto, TypeOK, BudgetInv, InsertBudget
    <2>2. QED
      BY <1>1, <1>7, <2>1, MoveKeepsBudget DEF ReleaseFails
  <1>8. ASSUME NEW e \in Executors, NEW ttl \in Leases, NEW j \in Present,
               ~Executing(e), losses' = losses,
               \/ jobs[j].status = "pending"
               \/ jobs[j].status = "running" /\ jobs[j].lease \in {0, Null},
               jobs' = [jobs EXCEPT ![j] = Claimed(jobs[j], ttl)],
               Goto(e, Running(j, ttl))
        PROVE  BudgetInv'
    <2> DEFINE r == Claimed(jobs[j], ttl)
               h == Running(j, ttl)
    <2>1. j \in Jobs
      BY DEF Present
    <2>2. /\ r \in Row /\ r.status = "running"
          /\ r.attempts = jobs[j].attempts + 1
          /\ r.maxAttempts = jobs[j].maxAttempts
      BY <1>2, <2>1, RowTypes, ClaimedFields
    <2>3. h \in Handler /\ h.pc = "run" /\ h.job = j
      BY <2>1, RunningType
    <2>4. RowBudget(j)
      BY DEF BudgetInv
    <2>5. \A f \in Executors : ~Works(f, j)
      BY <1>1, <1>8, <2>1, ClaimableIsFree
    <2>6. jobs[j].attempts < jobs[j].maxAttempts + losses
      BY <1>2, <1>8, <2>1, <2>4, <2>5 DEF RowBudget
    <2>7. r.attempts <= r.maxAttempts + losses /\ r.maxAttempts >= 1
      BY <1>2, <2>1, <2>2, <2>4, <2>6 DEF RowBudget
    <2>8. \A i \in Jobs : ~Works(e, i)
      BY <1>8 DEF Works
    <2>9. jobs' = [jobs EXCEPT ![j] = r] /\ Goto(e, h)
      BY <1>8
    <2> HIDE DEF r, h
    <2>10. QED
      BY <1>1, <1>8, <2>1, <2>2, <2>3, <2>7, <2>8, <2>9, WriteKeepsBudget
  <1>9. ASSUME NEW e \in Executors, NEW ttl \in Leases, ClaimNext(e, ttl)
        PROVE  BudgetInv'
    BY <1>8, <1>9 DEF ClaimNext, OldestClaimable, Claimable, Expired, Executing
  <1>10. ASSUME NEW e \in Executors, NEW ttl \in Leases, ClaimById(e, ttl)
         PROVE  BudgetInv'
    BY <1>1, <1>8, <1>10 DEF ClaimById, ClaimableById, TypeOK, Executing
  <1>11. ASSUME NEW e \in Executors, NEW j \in Jobs, NEW r \in Row,
                Executing(e), j = exec[e].job,
                jobs' = [jobs EXCEPT ![j] = r], Finish(e), losses' = losses,
                r.status \notin {"absent", "running"},
                r.attempts = jobs[j].attempts, r.maxAttempts = jobs[j].maxAttempts,
                r.status = "pending" => r.attempts < r.maxAttempts
         PROVE  BudgetInv'
    <2>1. \A i \in Jobs \ {j} : ~Works(e, i)
      BY <1>11 DEF Works
    <2>2. RowBudget(j)
      BY <1>2, <1>11 DEF BudgetInv
    <2>3. QED
      BY <1>1, <1>11, <2>1, <2>2, IdleType, WriteKeepsBudget DEF Finish, RowBudget
  <1>12. ASSUME NEW e \in Executors, FinalizeRead(e)
         PROVE  BudgetInv'
    <2> DEFINE j == exec[e].job
               r == Finalized(jobs[j])
    <2>1. Executing(e) /\ j \in Jobs
      BY <1>2, <1>12 DEF FinalizeRead, Finalize, Executing
    <2>2. /\ r \in Row /\ r.status = "completed"
          /\ r.attempts = jobs[j].attempts /\ r.maxAttempts = jobs[j].maxAttempts
      BY <1>2, <2>1, RowTypes, FinalizedFields
    <2>3. jobs' = [jobs EXCEPT ![j] = r] /\ Finish(e) /\ losses' = losses
      BY <1>12 DEF FinalizeRead, Finalize
    <2> HIDE DEF r
    <2>4. QED
      BY <1>11, <2>1, <2>2, <2>3
  <1>13. ASSUME NEW e \in Executors, BeginRelease(e)
         PROVE  BudgetInv'
    <2>1. Executing(e) /\ exec[e].job \in Jobs
      BY <1>2, <1>13 DEF BeginRelease, Executing
    <2>2. exec'[e].pc = "release" /\ exec'[e].job = exec[e].job
      BY <1>1, <1>2, <1>13, <2>1, ReleasingType DEF BeginRelease, Goto, TypeOK
    <2>3. \A f \in Executors \ {e} : exec'[f] = exec[f]
      BY <1>1, <1>13 DEF BeginRelease, Goto, TypeOK
    <2>4. \A f \in Executors : InsertBudget(f)'
      BY <2>2, <2>3 DEF BudgetInv, InsertBudget
    <2>5. \A f \in Executors : Executing(f) =>
            Executing(f)' /\ exec'[f].job = exec[f].job
      BY <2>2, <2>3 DEF Executing
    <2>6. QED
      BY <1>1, <1>13, <2>4, <2>5, MoveKeepsBudget DEF BeginRelease
  <1>14. ASSUME NEW e \in Executors, Release(e)
         PROVE  BudgetInv'
    <2> DEFINE j == exec[e].job
               r == Released(jobs[j], exec[e].attempts)
    <2>1. Executing(e) /\ j \in Jobs /\ exec[e].attempts \in Nat
      BY <1>2, <1>14 DEF Release, Executing, Handler
    <2>2. exec[e].attempts = jobs[j].attempts
      BY <1>1, <1>14, <2>1 DEF HoldInv, HoldsLease, Release
    <2>3. /\ r \in Row
          /\ r.status = StatusAfterRelease(exec[e].attempts, jobs[j].maxAttempts)
          /\ r.attempts = jobs[j].attempts /\ r.maxAttempts = jobs[j].maxAttempts
      BY <1>2, <2>1, RowTypes, ReleasedFields
    <2>4. /\ r.status \in {"pending", "failed"}
          /\ r.status = "pending" => r.attempts < r.maxAttempts
      BY <2>2, <2>3 DEF StatusAfterRelease
    <2>5. jobs' = [jobs EXCEPT ![j] = r] /\ Finish(e) /\ losses' = losses
      BY <1>14 DEF Release
    <2> HIDE DEF r
    <2>6. QED
      BY <1>11, <2>1, <2>3, <2>4, <2>5
  <1>15. ASSUME Crash PROVE BudgetInv'
    <2>1. \A f \in Executors : InsertBudget(f)'
      BY <1>15, IdleType DEF Crash, InsertBudget
    <2>2. QED
      BY <1>1, <1>15, <2>1, MoveKeepsBudget DEF Crash
  <1>16. ASSUME Tick PROVE BudgetInv'
    <2>1. \A j \in Jobs : /\ jobs'[j].status = jobs[j].status
                          /\ jobs'[j].attempts = jobs[j].attempts
                          /\ jobs'[j].maxAttempts = jobs[j].maxAttempts
      BY <1>2, <1>16, AgedTypes DEF Tick
    <2>2. \A e \in Executors : /\ exec'[e].pc = exec[e].pc
                               /\ exec'[e].job = exec[e].job
                               /\ exec'[e].maxAttempts = exec[e].maxAttempts
      BY <1>2, <1>16, AgedTypes DEF Tick
    <2>3. losses' = losses
      BY <1>16 DEF Tick
    <2>4. ASSUME NEW j \in Jobs, RowBudget(j) PROVE RowBudget(j)'
      BY <2>1, <2>2, <2>3, <2>4 DEF RowBudget, Works, Executing
    <2>5. \A e \in Executors : InsertBudget(e)'
      BY <2>2 DEF BudgetInv, InsertBudget
    <2>6. QED
      BY <1>1, <2>1, <2>4, <2>5 DEF BudgetInv, Present
  <1>17. CASE UNCHANGED vars
    BY <1>1, <1>17 DEF vars, BudgetInv, Present, RowBudget, InsertBudget, Works, Executing
  <1>18. QED
    BY <1>4, <1>5, <1>6, <1>7, <1>9, <1>10, <1>12, <1>13, <1>14, <1>15, <1>16, <1>17, FinalizeCases
       DEF Next, Poll, Proceed, FinalizeUnread

LEMMA BudgetInvHolds == ASSUME ~MayOverrun, ~ReadsMayFail PROVE Spec => []BudgetInv
  <1>1. Init => BudgetInv
    <2> SUFFICES ASSUME Init PROVE BudgetInv
      OBVIOUS
    <2>1. HoldInv
      BY InitHold
    <2>2. \A e \in Executors : exec[e].pc = "idle"
      BY IdleType DEF Init
    <2>3. Present = {}
      BY DEF Init, Present, AbsentRow
    <2>4. QED
      BY <2>1, <2>2, <2>3 DEF BudgetInv, InsertBudget
  <1>2. BudgetInv /\ [Next]_vars => BudgetInv'
    BY BudgetInvariance
  <1>3. QED
    BY <1>1, <1>2, PTL DEF Spec

\* When executions end within their lease and written rows can be read back,
\* attempts exceed max_attempts only by the executions lost to a crash or a
\* failed write.
THEOREM AttemptsAreBudgeted ==
  ASSUME ~MayOverrun, ~ReadsMayFail PROVE Spec => []AttemptsWithinBudget
  <1>1. BudgetInv => AttemptsWithinBudget
    BY DEF BudgetInv, RowBudget, AttemptsWithinBudget
  <1>2. QED
    BY <1>1, BudgetInvHolds, PTL

\* When executions end within their lease and written rows can be read back, a
\* job goes back to pending only with an attempt left.
THEOREM PendingJobsHaveBudget ==
  ASSUME ~MayOverrun, ~ReadsMayFail PROVE Spec => []PendingHasBudget
  <1>1. BudgetInv => PendingHasBudget
    BY DEF BudgetInv, RowBudget, PendingHasBudget, Present
  <1>2. QED
    BY <1>1, BudgetInvHolds, PTL

-----------------------------------------------------------------------------
(* The refinement: the handlers implement JobQueue *)

\* The holder of a job is the one executor that works on it.
LEMMA HolderIsWorker ==
  ASSUME HoldInv, NEW j \in Jobs
  PROVE  /\ \A e \in Executors : Works(e, j) => Holder[j] = e
         /\ (\A e \in Executors : ~Works(e, j)) => Holder[j] = Null
         /\ Holder[j] \in Executors \cup {Null}
  <1>1. \A e \in Executors : Works(e, j) <=> e \in Workers(j)
    BY DEF Works, Workers
  <1>2. \A e, f \in Workers(j) : e = f
    BY DEF HoldInv, ExclusiveExecution, Workers
  <1>3. Workers(j) \subseteq Executors
    BY DEF Workers
  <1>4. Holder[j] = IF Workers(j) = {} THEN Null ELSE CHOOSE e \in Workers(j) : TRUE
    BY DEF Holder
  <1>5. CASE Workers(j) = {}
    BY <1>1, <1>4, <1>5
  <1>6. CASE Workers(j) # {}
    <2>1. Holder[j] \in Workers(j)
      BY <1>4, <1>6
    <2>2. QED
      BY <1>1, <1>2, <1>3, <1>6, <2>1
  <1>7. QED
    BY <1>5, <1>6

HoldersFit ==
  \A j \in Jobs : /\ \A e \in Executors : Works(e, j) => Holder[j] = e
                  /\ (\A e \in Executors : ~Works(e, j)) => Holder[j] = Null

LEMMA HolderIsWorkerNext == HoldInv' => HoldersFit'
  <1>1. HoldInv => HoldersFit
    BY HolderIsWorker DEF HoldersFit
  <1>2. QED
    BY <1>1, PTL

\* A statement that writes row j is the step that gives j its status and the
\* executor, if that works on j from now on, or nobody as its holder.
LEMMA WriteMaps ==
  ASSUME HoldInv, HoldInv', NEW j \in Jobs, NEW r, NEW e \in Executors, NEW h,
         jobs' = [jobs EXCEPT ![j] = r], Goto(e, h),
         \A f \in Executors \ {e} : ~Works(f, j),
         \A i \in Jobs \ {j} : ~Works(e, i),
         h.pc \notin {"raised", "release"}, h.pc = "run" => h.job = j
  PROVE  Queue!Become(j, r.status, IF h.pc = "run" THEN e ELSE Null)
  <1> DEFINE new == IF h.pc = "run" THEN e ELSE Null
  <1>1. jobs'[j] = r /\ \A i \in Jobs \ {j} : jobs'[i] = jobs[i]
    BY DEF HoldInv, TableInv, TypeOK
  <1>2. exec'[e] = h /\ \A f \in Executors \ {e} : exec'[f] = exec[f]
    BY DEF HoldInv, TableInv, TypeOK, Goto
  <1>3. Status' = [Status EXCEPT ![j] = r.status]
    <2>1. ASSUME NEW i \in Jobs
          PROVE  jobs'[i].status = IF i = j THEN r.status ELSE jobs[i].status
      BY <1>1
    <2>2. QED
      BY <2>1 DEF Status
  <1>4. Holder'[j] = new
    <2>1. \A f \in Executors \ {e} : ~Works(f, j)'
      BY <1>2 DEF Works, Executing
    <2>2. Works(e, j)' <=> h.pc = "run"
      BY <1>2 DEF Works, Executing
    <2>3. QED
      BY <2>1, <2>2, HolderIsWorkerNext DEF HoldersFit
  <1>5. ASSUME NEW i \in Jobs \ {j} PROVE Holder'[i] = Holder[i]
    <2>1. ~Works(e, i)'
      BY <1>2 DEF Works, Executing
    <2>2. \A f \in Executors : Works(f, i)' <=> Works(f, i)
      BY <1>2, <2>1 DEF Works, Executing
    <2>3. QED
      BY <2>2, HolderIsWorker, HolderIsWorkerNext DEF HoldersFit
  <1>6. Holder = [i \in Jobs |-> Holder[i]] /\ Holder' = [i \in Jobs |-> Holder'[i]]
    BY DEF Holder
  <1>7. Holder' = [Holder EXCEPT ![j] = new]
    BY <1>4, <1>5, <1>6
  <1>8. QED
    BY <1>3, <1>7 DEF Queue!Become

\* A step that writes no status: executors that work keep working on their job,
\* or are dead.
LEMMA MoveMaps ==
  ASSUME HoldInv, HoldInv', NEW dead \in SUBSET Executors,
         \A j \in Jobs : jobs'[j].status = jobs[j].status,
         \A f \in Executors \ dead, j \in Jobs : Works(f, j)' <=> Works(f, j),
         \A f \in dead, j \in Jobs : ~Works(f, j)'
  PROVE  Queue!Vanish
  <1>1. Status' = Status
    BY DEF Status
  <1>2. ASSUME NEW j \in Jobs
        PROVE  Holder'[j] = IF Holder[j] \in dead THEN Null ELSE Holder[j]
    <2>1. CASE \E f \in Executors : Works(f, j)
      <3>1. PICK f \in Executors : Works(f, j)
        BY <2>1
      <3>2. Holder[j] = f
        BY <3>1, HolderIsWorker
      <3>3. CASE f \in dead
        <4>1. \A g \in Executors : ~Works(g, j)'
          BY <3>1, <3>3 DEF Works, HoldInv, ExclusiveExecution
        <4>2. QED
          BY <3>2, <3>3, <4>1, HolderIsWorkerNext DEF HoldersFit
      <3>4. CASE f \notin dead
        BY <3>1, <3>2, <3>4, HolderIsWorkerNext DEF HoldersFit
      <3>5. QED
        BY <3>3, <3>4
    <2>2. CASE \A f \in Executors : ~Works(f, j)
      <3>1. \A f \in Executors : ~Works(f, j)'
        BY <2>2
      <3>2. Holder[j] = Null /\ Holder'[j] = Null
        BY <2>2, <3>1, HolderIsWorker, HolderIsWorkerNext DEF HoldersFit
      <3>3. QED
        BY <3>2
    <2>3. QED
      BY <2>1, <2>2
  <1>3. Holder' = [j \in Jobs |-> IF Holder[j] \in dead THEN Null ELSE Holder[j]]
    <2>1. Holder' = [j \in Jobs |-> Holder'[j]]
      BY DEF Holder
    <2>2. QED
      BY <1>2, <2>1
  <1>4. QED
    BY <1>1, <1>3 DEF Queue!Vanish

LEMMA NobodyDies ==
  ASSUME HoldInv, HoldInv', \A j \in Jobs : jobs'[j].status = jobs[j].status,
         \A f \in Executors, j \in Jobs : Works(f, j)' <=> Works(f, j)
  PROVE  Queue!Vanish
  <1> DEFINE dead == {}
  <1>1. dead \in SUBSET Executors /\ \A f : f \notin dead
    OBVIOUS
  <1>2. /\ \A f \in Executors \ dead, j \in Jobs : Works(f, j)' <=> Works(f, j)
        /\ \A f \in dead, j \in Jobs : ~Works(f, j)'
    BY <1>1
  <1> HIDE DEF dead
  <1>3. QED
    BY <1>1, <1>2, MoveMaps

\* Each statement of a handler is a step of the abstract queue: an INSERT
\* submits, a claim starts, the finalizing and the releasing UPDATE end; the
\* loss of an execution is that of its executor, and nothing else shows.
LEMMA StepMaps ==
  ~MayOverrun /\ ~ReadsMayFail /\ HoldInv /\ [Next]_vars => [Queue!Next]_Queue!vars
  <1> SUFFICES ASSUME ~MayOverrun, ~ReadsMayFail, HoldInv, [Next]_vars
               PROVE  Queue!Next \/ UNCHANGED Queue!vars
    OBVIOUS
  <1> DEFINE Goal == Queue!Next \/ UNCHANGED Queue!vars
  <1>1. HoldInv' /\ TypeOK
    BY HoldInvariance DEF HoldInv, TableInv
  <1>2. /\ \A j \in Jobs : jobs[j] \in Row
        /\ \A e \in Executors : exec[e] \in Handler
        /\ \A e \in Executors : Executing(e) =>
             exec[e].job \in Present /\ exec[e].job \in Jobs
        /\ Null \notin Executors
    BY <1>1, HoldTypes, ConstantsOK
  <1>v. Queue!Vanish => Goal
    BY DEF Queue!Next
  <1>3. ASSUME NEW e \in Executors, NEW h, Goto(e, h), jobs' = jobs,
               ~Executing(e), h.pc \notin {"run", "raised", "release"}
        PROVE  Goal
    <2>1. exec'[e] = h /\ \A f \in Executors \ {e} : exec'[f] = exec[f]
      BY <1>1, <1>3 DEF Goto, TypeOK
    <2>2. \A f \in Executors, j \in Jobs : Works(f, j)' <=> Works(f, j)
      BY <1>3, <2>1 DEF Works, Executing
    <2>3. QED
      BY <1>1, <1>3, <1>v, <2>2, NobodyDies
  <1>4. ASSUME NEW e \in Executors, Enqueue(e) PROVE Goal
    <2>1. ASSUME NEW k \in Keys \cup {Null}, FindExisting(e, k) PROVE Goal
      BY <1>3, <2>1, ClaimingType DEF FindExisting, RowsWithKey, Present, Executing
    <2>2. ASSUME NEW k \in Keys \cup {Null}, NEW n \in Requested,
                 NEW inline \in BOOLEAN, FindNothing(e, k, n, inline)
          PROVE  Goal
      BY <1>3, <2>2, InsertingType DEF FindNothing, Executing
    <2>3. QED
      BY <1>4, <2>1, <2>2 DEF Enqueue
  <1>5. ASSUME NEW e \in Executors, Insert(e) PROVE Goal
    <2>1. PICK j \in Jobs \ Present :
            /\ jobs' = [jobs EXCEPT ![j] = NewRow(exec[e])]
            /\ Goto(e, Claiming(j)) \/ Goto(e, IdleHandler)
      BY <1>5 DEF Insert, Finish
    <2>2. NewRow(exec[e]).status = "pending"
      BY <1>2, NewRowType
    <2>3. PICK h \in Handler : Goto(e, h) /\ h.pc \notin {"run", "raised", "release"}
      BY <2>1, ClaimingType, IdleType
    <2>4. \A f \in Executors : ~Works(f, j)
      BY <1>2, <2>1 DEF Works
    <2>5. \A i \in Jobs : ~Works(e, i)
      BY <1>5 DEF Insert, Works, Executing
    <2> DEFINE r == NewRow(exec[e])
    <2>6. r.status = "pending" /\ jobs' = [jobs EXCEPT ![j] = r]
      BY <2>1, <2>2
    <2> HIDE DEF r
    <2>7. Queue!Become(j, "pending", Null)
      BY <1>1, <2>3, <2>4, <2>5, <2>6, WriteMaps
    <2>8. Status[j] = "absent"
      BY <2>1 DEF Status, Present
    <2>9. Queue!Submit(j)
      BY <2>7, <2>8 DEF Queue!Submit
    <2>10. QED
      BY <2>9 DEF Queue!Next
  <1>6. ASSUME NEW e \in Executors,
               InsertConflicts(e) \/ RequestFails(e) \/ ClaimRefused(e)
        PROVE  Goal
    BY <1>3, <1>6, IdleType
       DEF InsertConflicts, RequestFails, ClaimRefused, Finish, Executing
  <1>7. ASSUME NEW e \in Executors, NEW ttl \in Leases, NEW j \in Jobs,
               \/ jobs[j].status = "pending"
               \/ jobs[j].status = "running" /\ jobs[j].lease \in {0, Null},
               ~Executing(e),
               jobs' = [jobs EXCEPT ![j] = Claimed(jobs[j], ttl)],
               Goto(e, Running(j, ttl))
        PROVE  Goal
    <2> DEFINE r == Claimed(jobs[j], ttl)
               h == Running(j, ttl)
    <2>1. r.status = "running"
      BY <1>2, ClaimedFields
    <2>2. h.pc = "run" /\ h.job = j
      BY RunningType
    <2>3. \A f \in Executors : ~Works(f, j)
      BY <1>1, <1>7, ClaimableIsFree
    <2>4. \A i \in Jobs : ~Works(e, i)
      BY <1>7 DEF Works
    <2>5. jobs' = [jobs EXCEPT ![j] = r] /\ Goto(e, h)
      BY <1>7
    <2> HIDE DEF r, h
    <2>6. Queue!Become(j, "running", e)
      BY <1>1, <2>1, <2>2, <2>3, <2>4, <2>5, WriteMaps
    <2>7. Status[j] \in {"pending", "running"} /\ Holder[j] = Null
      BY <1>7, <2>3, HolderIsWorker DEF Status
    <2>8. ASSUME NEW k \in Jobs PROVE Holder[k] # e
      <3>1. CASE \E f \in Executors : Works(f, k)
        BY <2>4, <3>1, HolderIsWorker
      <3>2. CASE \A f \in Executors : ~Works(f, k)
        BY <1>2, <3>2, HolderIsWorker
      <3>3. QED
        BY <3>1, <3>2
    <2>9. Queue!Start(j, e)
      BY <2>6, <2>7, <2>8 DEF Queue!Start
    <2>10. QED
      BY <2>9 DEF Queue!Next
  <1>8. ASSUME NEW e \in Executors, NEW ttl \in Leases, ClaimNext(e, ttl)
        PROVE  Goal
    BY <1>7, <1>8 DEF ClaimNext, OldestClaimable, Claimable, Expired, Executing, Present
  <1>9. ASSUME NEW e \in Executors, NEW ttl \in Leases, ClaimById(e, ttl)
        PROVE  Goal
    BY <1>1, <1>7, <1>9 DEF ClaimById, ClaimableById, TypeOK, Executing, Present
  <1>10. ASSUME NEW e \in Executors, NEW j \in Jobs, NEW r,
                Executing(e), j = exec[e].job,
                jobs' = [jobs EXCEPT ![j] = r], Finish(e),
                r.status \in {"completed", "pending", "failed"}
         PROVE  Goal
    <2>1. \A f \in Executors \ {e} : ~Works(f, j)
      BY <1>10, WorkerIsAlone
    <2>2. \A i \in Jobs \ {j} : ~Works(e, i)
      BY <1>10 DEF Works
    <2>3. Queue!Become(j, r.status, Null)
      BY <1>1, <1>10, <2>1, <2>2, IdleType, WriteMaps DEF Finish
    <2>4. Status[j] = "running" /\ Holder[j] = e
      BY <1>10, HolderIsWorker DEF HoldInv, HoldsLease, Status, Works
    <2>5. Queue!End(j, r.status)
      BY <1>2, <2>3, <2>4 DEF Queue!End
    <2>6. QED
      BY <1>10, <2>5 DEF Queue!Next, Queue!Complete, Queue!GiveBack, Queue!GiveUp
  <1>11. ASSUME NEW e \in Executors, FinalizeRead(e) PROVE Goal
    <2> DEFINE j == exec[e].job
               r == Finalized(jobs[j])
    <2>1. Executing(e) /\ j \in Jobs
      BY <1>2, <1>11 DEF FinalizeRead, Finalize, Executing
    <2>2. r.status = "completed"
      BY <1>2, <2>1, FinalizedFields
    <2>3. jobs' = [jobs EXCEPT ![j] = r] /\ Finish(e)
      BY <1>11 DEF FinalizeRead, Finalize
    <2> HIDE DEF r
    <2>4. QED
      BY <1>10, <2>1, <2>2, <2>3
  <1>12. ASSUME NEW e \in Executors, Release(e) PROVE Goal
    <2> DEFINE j == exec[e].job
               r == Released(jobs[j], exec[e].attempts)
    <2>1. Executing(e) /\ j \in Jobs /\ exec[e].attempts \in Nat
      BY <1>2, <1>12 DEF Release, Executing, Handler
    <2>2. r.status \in {"pending", "failed"}
      BY <1>2, <2>1, ReleasedFields DEF StatusAfterRelease
    <2>3. jobs' = [jobs EXCEPT ![j] = r] /\ Finish(e)
      BY <1>12 DEF Release
    <2> HIDE DEF r
    <2>4. QED
      BY <1>10, <2>1, <2>2, <2>3
  <1>13. ASSUME NEW e \in Executors, BeginRelease(e) PROVE Goal
    <2>1. /\ Executing(e) /\ exec[e].job \in Jobs
          /\ jobs[exec[e].job].attempts \in Nat
      BY <1>2, <1>13 DEF BeginRelease, Executing, Row
    <2>2. exec'[e].pc = "release" /\ exec'[e].job = exec[e].job
      BY <1>1, <1>2, <1>13, <2>1, ReleasingType DEF BeginRelease, Goto, TypeOK
    <2>3. \A f \in Executors \ {e} : exec'[f] = exec[f]
      BY <1>1, <1>13 DEF BeginRelease, Goto, TypeOK
    <2>4. \A f \in Executors, j \in Jobs : Works(f, j)' <=> Works(f, j)
      BY <2>1, <2>2, <2>3 DEF Works, Executing
    <2>5. jobs' = jobs
      BY <1>13 DEF BeginRelease
    <2>6. QED
      BY <1>1, <1>v, <2>4, <2>5, NobodyDies
  <1>14. ASSUME NEW e \in Executors, ReleaseFails(e) PROVE Goal
    <2>1. jobs' = jobs
      BY <1>14 DEF ReleaseFails
    <2>2. exec'[e].pc = "idle" /\ \A f \in Executors \ {e} : exec'[f] = exec[f]
      BY <1>1, <1>14, IdleType DEF ReleaseFails, Finish, Goto, TypeOK
    <2>3. /\ \A f \in Executors \ {e}, j \in Jobs : Works(f, j)' <=> Works(f, j)
          /\ \A f \in {e}, j \in Jobs : ~Works(f, j)'
      BY <2>2 DEF Works, Executing
    <2>4. {e} \in SUBSET Executors
      OBVIOUS
    <2>5. QED
      BY <1>1, <1>v, <2>1, <2>3, <2>4, MoveMaps
  <1>15. ASSUME Crash PROVE Goal
    <2>1. jobs' = jobs /\ \A f \in Executors, j \in Jobs : ~Works(f, j)'
      BY <1>15, IdleType DEF Crash, Works, Executing
    <2>2. QED
      BY <1>1, <1>v, <2>1, MoveMaps
  <1>16. ASSUME Tick PROVE Goal
    <2>1. \A j \in Jobs : jobs'[j].status = jobs[j].status
      BY <1>2, <1>16, AgedTypes DEF Tick
    <2>2. \A e \in Executors : exec'[e].pc = exec[e].pc /\ exec'[e].job = exec[e].job
      BY <1>2, <1>16, AgedTypes DEF Tick
    <2>3. \A f \in Executors, j \in Jobs : Works(f, j)' <=> Works(f, j)
      BY <2>2 DEF Works, Executing
    <2>4. QED
      BY <1>1, <1>v, <2>1, <2>3, NobodyDies
  <1>17. CASE UNCHANGED vars
    BY <1>17 DEF vars, Queue!vars, Status, Holder, Workers, Executing
  <1>18. QED
    BY <1>4, <1>5, <1>6, <1>8, <1>9, <1>11, <1>12, <1>13, <1>14, <1>15, <1>16, <1>17, FinalizeCases
       DEF Next, Poll, Proceed, FinalizeUnread

\* When executions end within their lease and written rows can be read back,
\* the table and its handlers implement JobQueue: jobs are submitted, started,
\* ended and lost as it allows.
THEOREM HandlersImplementQueue ==
  ASSUME ~MayOverrun, ~ReadsMayFail PROVE Spec => ImplementsJobQueue
  <1>1. Init => Queue!Init
    <2> SUFFICES ASSUME Init PROVE Queue!Init
      OBVIOUS
    <2>1. Status = [j \in Jobs |-> "absent"]
      BY DEF Init, Status, AbsentRow
    <2>2. \A j \in Jobs : Workers(j) = {}
      BY IdleType DEF Init, Workers, Executing
    <2>3. Holder = [j \in Jobs |-> Null]
      BY <2>2 DEF Holder
    <2>4. QED
      BY <2>1, <2>3 DEF Queue!Init
  <1>2. HoldInv /\ [Next]_vars => [Queue!Next]_Queue!vars
    BY StepMaps
  <1>3. QED
    BY <1>1, <1>2, HoldInvHolds, PTL DEF Spec, ImplementsJobQueue, Queue!Spec
=============================================================================
