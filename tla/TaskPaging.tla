----------------------------- MODULE TaskPaging -----------------------------
(***************************************************************************)
(* How the tasks of a user are listed page by page while others write      *)
(* them.  A page holds the rows that come after the cursor, ordered by the *)
(* time of their last update and by their id, latest first; the cursor of  *)
(* the next page is the last row of this one, as it was when it was read.  *)
(*                                                                         *)
(* A writer takes the time first and writes later, up to the busy timeout  *)
(* later, so that rows may be written with times of the past.              *)
(***************************************************************************)
EXTENDS Integers, FiniteSets

CONSTANTS
  Tasks,     \* task ids, numbered in the order of the strings
  Writers,   \* handlers and cleanups that write tasks
  Limits,    \* page sizes a client may ask for
  MaxPage,   \* the largest page served: 200
  MaxTime    \* bound: the clock

ASSUME PagingConstantsOK ==
  /\ Tasks \subseteq Nat
  /\ IsFiniteSet(Tasks)
  /\ Limits \subseteq Int
  /\ MaxPage \in Nat \ {0}
  /\ MaxTime \in Nat \ {0}

VARIABLES
  rows,     \* task id -> row of the table
  clock,    \* utcnow_iso
  taken,    \* writer -> the time it has taken, or Idle
  listing,  \* is a client listing the tasks, and is it through?
  limit,    \* the page size it asked for
  cursor,   \* the cursor of the next page, or Start
  got,      \* task id -> how often it has been returned
  moved     \* history: tasks written since the listing began

vars == <<rows, clock, taken, listing, limit, cursor, got, moved>>
client == <<listing, limit, cursor, got>>

-----------------------------------------------------------------------------
Time == 0 .. MaxTime
Idle == -1

\* status stands for the whole filter: user, project and status.
Row == [status : {"none", "listed", "other"}, at : Time]
NoRow == [status |-> "none", at |-> 0]
Start == [at |-> MaxTime + 1, id |-> 0]
Cursor == [at : 0 .. MaxTime + 1, id : Tasks \cup {0}]

Init ==
  /\ clock = 1
  /\ rows \in [Tasks -> {NoRow} \cup [status : {"listed", "other"}, at : {0, 1}]]
  /\ taken = [w \in Writers |-> Idle]
  /\ listing = "no"
  /\ limit = 0
  /\ cursor = Start
  /\ got = [t \in Tasks |-> 0]
  /\ moved = {}

-----------------------------------------------------------------------------
(* The writers *)

Tick ==
  /\ clock < MaxTime
  /\ clock' = clock + 1
  /\ UNCHANGED <<rows, taken, client, moved>>

\* now = utcnow_iso(), before the connection is made.
TakeTime(w) ==
  /\ taken[w] = Idle
  /\ taken' = [taken EXCEPT ![w] = clock]
  /\ UNCHANGED <<rows, clock, client, moved>>

\* upsert_task, a close, an archive or the cleanup writes a row with the time it
\* took: the row appears, is updated, enters or leaves the filter.  The cleanup
\* goes on to further rows, here one by one; it also deletes rows.
WriteRow(w) ==
  /\ taken[w] # Idle
  /\ \E t \in Tasks :
       /\ \/ \E s \in {"listed", "other"} :
               rows' = [rows EXCEPT ![t] = [status |-> s, at |-> taken[w]]]
          \/ rows' = [rows EXCEPT ![t] = NoRow]
       /\ moved' = moved \cup {t}
  /\ taken' \in {taken, [taken EXCEPT ![w] = Idle]}
  /\ UNCHANGED <<clock, client>>

-----------------------------------------------------------------------------
(* fetch_tasks_page *)

\* ORDER BY updated_at DESC, task_id DESC
Before(at1, id1, at2, id2) == at1 > at2 \/ (at1 = at2 /\ id1 > id2)

\* The WHERE clause of the next page
PastCursorTieMutant(t) == rows[t].at < cursor.at
PastCursorInclusiveMutant(t) == rows[t].at <= cursor.at
PastCursor(t) == Before(cursor.at, cursor.id, rows[t].at, t)

Matching == {t \in Tasks : rows[t].status = "listed" /\ PastCursor(t)}
Ahead(t) == {u \in Matching : Before(rows[u].at, u, rows[t].at, t)}

PageSizeUnclampedMutant(n) == n
PageSize(n) ==
  IF n < 1 THEN 1 ELSE IF n > MaxPage THEN MaxPage ELSE n

Page == {t \in Matching : Cardinality(Ahead(t)) < PageSize(limit)}
HasMore == Cardinality(Matching) > PageSize(limit)
IsLast(t) == t \in Page /\ Cardinality(Ahead(t)) = PageSize(limit) - 1

\* A client begins to list the tasks.
Begin ==
  /\ listing = "no"
  /\ listing' = "yes"
  /\ limit' \in Limits
  /\ moved' = {}
  /\ UNCHANGED <<rows, clock, taken, cursor, got>>

\* GET /v1/tasks with the cursor of the page before
FetchPage ==
  /\ listing = "yes"
  /\ got' = [t \in Tasks |-> got[t] + IF t \in Page THEN 1 ELSE 0]
  /\ IF HasMore
       THEN /\ \E t \in Tasks : IsLast(t) /\ cursor' = [at |-> rows[t].at, id |-> t]
            /\ UNCHANGED listing
       ELSE /\ listing' = "done"
            /\ UNCHANGED cursor
  /\ UNCHANGED <<rows, clock, taken, limit, moved>>

Next ==
  \/ Tick
  \/ \E w \in Writers : TakeTime(w) \/ WriteRow(w)
  \/ Begin
  \/ FetchPage

Spec == Init /\ [][Next]_vars

\* A client that lists asks for the next page.
FairSpec == Spec /\ WF_vars(FetchPage)

-----------------------------------------------------------------------------
(* Properties *)

\* Rows, cursor and counts have the shape the table and the answers give them.
TypeOK ==
  /\ rows \in [Tasks -> Row]
  /\ clock \in Time
  /\ taken \in [Writers -> Time \cup {Idle}]
  /\ listing \in {"no", "yes", "done"}
  /\ limit \in Limits \cup {0}
  /\ cursor \in Cursor
  /\ got \in [Tasks -> Nat]
  /\ moved \subseteq Tasks

Steady(t) == rows[t].status = "listed" /\ t \notin moved

\* A task nobody writes while the list is read is in it once, whatever happens to
\* the other tasks, the ones at the cursor included.
SteadyListedOnce ==
  listing = "done" => \A t \in Tasks : Steady(t) => got[t] = 1

\* No task is returned twice unless it was written in between, and a task that is
\* not of the filter and is not written is never returned.
TwiceOnlyIfMoved ==
  \A t \in Tasks :
    /\ got[t] > 1 => t \in moved
    /\ got[t] > 0 /\ rows[t].status # "listed" => t \in moved

\* The cursor only goes down.
CursorDescends ==
  [][cursor' # cursor => Before(cursor.at, cursor.id, cursor'.at, cursor'.id)]_vars

\* The listing comes to its end however many tasks are written meanwhile.
ListingEnds == listing = "yes" ~> listing = "done"
=============================================================================
