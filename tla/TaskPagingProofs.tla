-------------------------- MODULE TaskPagingProofs --------------------------
(***************************************************************************)
(* Listing tasks page by page, for every number of tasks and writers, every *)
(* page size and every clock: what nobody writes is listed exactly once.   *)
(***************************************************************************)
EXTENDS TaskPaging, FiniteSetTheorems, TLAPS

\* The order of the listing is total and transitive.
LEMMA BeforeIsTotal ==
  ASSUME NEW a \in Int, NEW b \in Int, NEW i \in Int, NEW j \in Int
  PROVE Before(a, i, b, j) \/ Before(b, j, a, i) \/ (a = b /\ i = j)
  BY DEF Before

LEMMA BeforeIsTransitive ==
  ASSUME NEW a \in Int, NEW b \in Int, NEW d \in Int,
         NEW i \in Int, NEW j \in Int, NEW k \in Int,
         Before(a, i, b, j), Before(b, j, d, k)
  PROVE Before(a, i, d, k)
  BY DEF Before

LEMMA BeforeIsStrict ==
  ASSUME NEW a \in Int, NEW i \in Int PROVE ~Before(a, i, a, i)
  BY DEF Before

LEMMA TasksAreNumbers ==
  ASSUME TypeOK, NEW t \in Tasks
  PROVE /\ t \in Int /\ rows[t].at \in Int /\ rows[t].at \in 0 .. MaxTime
        /\ cursor.at \in Int /\ cursor.id \in Int
  <1>1. rows[t] \in Row /\ cursor \in Cursor
    BY DEF TypeOK
  <1>2. rows[t].at \in 0 .. MaxTime
    BY <1>1 DEF Row, Time
  <1>3. cursor.at \in 0 .. MaxTime + 1 /\ cursor.id \in Tasks \cup {0}
    BY <1>1 DEF Cursor
  <1>4. Tasks \subseteq Int /\ MaxTime \in Int
    BY PagingConstantsOK
  <1>5. t \in Int /\ cursor.id \in Int
    <2>1. \A i \in Tasks : i \in Int
      BY <1>4
    <2>2. QED
      BY <1>3, <2>1
  <1>6. rows[t].at \in Int
    BY <1>2, <1>4
  <1>7. cursor.at \in Int
    BY <1>3, <1>4
  <1>8. QED
    BY <1>2, <1>5, <1>6, <1>7

LEMMA PageSizeIsPositive ==
  ASSUME TypeOK PROVE PageSize(limit) \in Nat \ {0}
  BY PagingConstantsOK DEF TypeOK, PageSize

LEMMA PagesAreFinite ==
  ASSUME NEW t \in Tasks
  PROVE /\ IsFiniteSet(Matching) /\ IsFiniteSet(Ahead(t))
        /\ Cardinality(Matching) \in Nat /\ Cardinality(Ahead(t)) \in Nat
  BY PagingConstantsOK, FS_Subset, FS_CardinalityType DEF Matching, Ahead

-----------------------------------------------------------------------------
(* Types *)

LEMMA TypeStep == TypeOK /\ [Next]_vars => TypeOK'
  <1> SUFFICES ASSUME TypeOK, [Next]_vars PROVE TypeOK'
    OBVIOUS
  <1>1. CASE Tick
    BY <1>1, PagingConstantsOK DEF Tick, TypeOK, Time, client
  <1>2. ASSUME NEW w \in Writers, TakeTime(w) PROVE TypeOK'
    BY <1>2 DEF TakeTime, TypeOK, client
  <1>3. ASSUME NEW w \in Writers, WriteRow(w) PROVE TypeOK'
    <2>1. taken[w] \in Time
      BY <1>3 DEF WriteRow, TypeOK
    <2>2. NoRow \in Row
      BY PagingConstantsOK DEF NoRow, Row, Time
    <2>3. rows' \in [Tasks -> Row] /\ moved' \subseteq Tasks
      BY <1>3, <2>1, <2>2 DEF WriteRow, TypeOK, Row
    <2>4. taken' \in [Writers -> Time \cup {Idle}]
      BY <1>3 DEF WriteRow, TypeOK
    <2>5. QED
      BY <1>3, <2>3, <2>4 DEF WriteRow, TypeOK, client
  <1>4. CASE Begin
    BY <1>4 DEF Begin, TypeOK
  <1>5. CASE FetchPage
    <2>1. got' \in [Tasks -> Nat]
      BY <1>5 DEF FetchPage, TypeOK
    <2>2. cursor' \in Cursor /\ listing' \in {"no", "yes", "done"}
      BY <1>5, PagingConstantsOK DEF FetchPage, TypeOK, Cursor, Row, Time
    <2>3. QED
      BY <1>5, <2>1, <2>2 DEF FetchPage, TypeOK
  <1>6. CASE UNCHANGED vars
    BY <1>6 DEF vars, client, TypeOK
  <1>7. QED
    BY <1>1, <1>2, <1>3, <1>4, <1>5, <1>6 DEF Next

LEMMA TypeInit == Init => TypeOK
  <1> SUFFICES ASSUME Init PROVE TypeOK
    OBVIOUS
  <1>1. rows \in [Tasks -> Row]
    BY PagingConstantsOK DEF Init, NoRow, Row, Time
  <1>2. clock \in Time /\ cursor \in Cursor
    BY PagingConstantsOK DEF Init, Time, Start, Cursor
  <1>3. QED
    BY <1>1, <1>2 DEF Init, TypeOK

\* Rows, cursor and counts keep their shape.
THEOREM ListingTypes == Spec => []TypeOK
  BY TypeInit, TypeStep, PTL DEF Spec

-----------------------------------------------------------------------------
(* The cursor *)

\* A page that is not the last ends with a row past the cursor.
LEMMA FetchDescends ==
  ASSUME FetchPage, cursor' # cursor
  PROVE Before(cursor.at, cursor.id, cursor'.at, cursor'.id)
  BY DEF FetchPage, IsLast, Page, Matching, PastCursor

\* The cursor only goes down, so that the pages of a listing cannot run in circles.
THEOREM CursorGoesDown == Spec => CursorDescends
  <1>1. [Next]_vars =>
          [cursor' # cursor => Before(cursor.at, cursor.id, cursor'.at, cursor'.id)]_vars
    BY FetchDescends DEF Next, Tick, TakeTime, WriteRow, Begin, vars, client
  <1>2. QED
    BY <1>1, PTL DEF Spec, CursorDescends

-----------------------------------------------------------------------------
(* What is listed *)

LEMMA AheadIsOrdered ==
  ASSUME TypeOK, NEW t \in Matching, NEW u \in Matching
  PROVE /\ t \in Ahead(u) => Ahead(t) \cup {t} \subseteq Ahead(u)
        /\ t \notin Ahead(t)
        /\ t = u \/ t \in Ahead(u) \/ u \in Ahead(t)
  <1>1. t \in Tasks /\ u \in Tasks
    BY DEF Matching
  <1>2. t \notin Ahead(t)
    BY <1>1, TasksAreNumbers, BeforeIsStrict DEF Ahead
  <1>3. t = u \/ t \in Ahead(u) \/ u \in Ahead(t)
    BY <1>1, TasksAreNumbers, BeforeIsTotal DEF Ahead
  <1>4. ASSUME t \in Ahead(u), NEW v \in Ahead(t) PROVE v \in Ahead(u)
    <2>1. v \in Tasks /\ v \in Matching
      BY DEF Ahead, Matching
    <2>2. Before(rows[v].at, v, rows[t].at, t) /\ Before(rows[t].at, t, rows[u].at, u)
      BY <1>4 DEF Ahead
    <2>3. Before(rows[v].at, v, rows[u].at, u)
      BY <1>1, <2>1, <2>2, TasksAreNumbers, BeforeIsTransitive
    <2>4. QED
      BY <2>1, <2>3 DEF Ahead
  <1>5. QED
    BY <1>2, <1>3, <1>4

\* The page ends where the cursor of the next one begins: of the rows that match,
\* those of the page are no longer past it, and the others are.
LEMMA PageEndsAtCursor ==
  ASSUME TypeOK, FetchPage, HasMore, NEW t \in Matching
  PROVE t \in Page <=> ~Before(cursor'.at, cursor'.id, rows[t].at, t)
  <1>1. PICK l \in Tasks : IsLast(l) /\ cursor' = [at |-> rows[l].at, id |-> l]
    BY DEF FetchPage
  <1>2. l \in Matching /\ l \in Page /\ Cardinality(Ahead(l)) = PageSize(limit) - 1
    BY <1>1 DEF IsLast, Page
  <1>3. t \in Tasks
    BY DEF Matching
  <1>4. Before(cursor'.at, cursor'.id, rows[t].at, t) <=> l \in Ahead(t)
    BY <1>1, <1>2 DEF Ahead
  <1>5. ASSUME l \in Ahead(t) PROVE t \notin Page
    <2>1. Ahead(l) \cup {l} \subseteq Ahead(t) /\ l \notin Ahead(l)
      BY <1>2, <1>5, AheadIsOrdered
    <2>2. Cardinality(Ahead(l) \cup {l}) = PageSize(limit)
      <3>1. IsFiniteSet(Ahead(l))
        BY <1>1, PagesAreFinite
      <3>2. Cardinality(Ahead(l) \cup {l}) = Cardinality(Ahead(l)) + 1
        BY <2>1, <3>1, FS_AddElement
      <3>3. QED
        BY <1>2, <3>2, PageSizeIsPositive
    <2>3. PageSize(limit) <= Cardinality(Ahead(t))
      BY <1>3, <2>1, <2>2, PagesAreFinite, FS_Subset
    <2>4. QED
      BY <1>3, <2>3, PagesAreFinite, PageSizeIsPositive DEF Page
  <1>6. ASSUME t \in Ahead(l) PROVE t \in Page
    <2>1. Ahead(t) \subseteq Ahead(l)
      BY <1>2, <1>6, AheadIsOrdered
    <2>2. Cardinality(Ahead(t)) <= PageSize(limit) - 1
      BY <1>2, <2>1, PagesAreFinite, FS_Subset
    <2>3. QED
      BY <1>3, <2>2, PagesAreFinite, PageSizeIsPositive DEF Page
  <1>7. t = l => t \in Page /\ l \notin Ahead(t)
    BY <1>2, AheadIsOrdered
  <1>8. t \in Ahead(l) => l \notin Ahead(t)
    BY <1>2, AheadIsOrdered
  <1>9. QED
    BY <1>2, <1>4, <1>5, <1>6, <1>7, <1>8, AheadIsOrdered

\* The last page holds all that is left.
LEMMA LastPageIsAll ==
  ASSUME TypeOK, ~HasMore PROVE Page = Matching
  <1>1. SUFFICES ASSUME NEW t \in Matching
                 PROVE Cardinality(Ahead(t)) < PageSize(limit)
    BY DEF Page
  <1>2. t \in Tasks
    BY DEF Matching
  <1>3. Ahead(t) \cup {t} \subseteq Matching /\ t \notin Ahead(t)
    BY AheadIsOrdered DEF Ahead
  <1>4. Cardinality(Ahead(t)) + 1 <= Cardinality(Matching)
    BY <1>2, <1>3, PagesAreFinite, FS_AddElement, FS_Subset
  <1>5. QED
    BY <1>2, <1>4, PagesAreFinite, PageSizeIsPositive DEF HasMore

\* A task nobody has written was returned once if it is of the filter and not past
\* the cursor, and not at all otherwise.
Told(t) ==
  got[t] = IF rows[t].status = "listed" /\ (listing = "done" \/ ~PastCursor(t))
             THEN 1 ELSE 0

ToldInv ==
  /\ TypeOK
  /\ listing = "no" => cursor = Start /\ \A t \in Tasks : got[t] = 0
  /\ listing # "no" => \A t \in Tasks \ moved : Told(t)

LEMMA FetchTells ==
  ASSUME ToldInv, FetchPage, NEW t \in Tasks \ moved PROVE Told(t)'
  <1>1. /\ TypeOK /\ listing = "yes" /\ rows' = rows
        /\ got'[t] = got[t] + IF t \in Page THEN 1 ELSE 0
        /\ HasMore => listing' = "yes"
        /\ ~HasMore => listing' = "done"
    BY DEF ToldInv, FetchPage
  <1>2. got[t] = IF rows[t].status = "listed" /\ ~PastCursor(t) THEN 1 ELSE 0
    BY <1>1 DEF ToldInv, Told
  <1>3. PastCursor(t)' <=> Before(cursor'.at, cursor'.id, rows[t].at, t)
    BY <1>1 DEF PastCursor
  <1>4. CASE rows[t].status # "listed"
    BY <1>1, <1>2, <1>4 DEF Told, Page, Matching
  <1>5. CASE rows[t].status = "listed" /\ PastCursor(t)
    <2>1. t \in Matching /\ got[t] = 0
      BY <1>2, <1>5 DEF Matching
    <2>2. CASE HasMore
      BY <1>1, <1>3, <1>5, <2>1, <2>2, PageEndsAtCursor DEF Told
    <2>3. CASE ~HasMore
      BY <1>1, <1>5, <2>1, <2>3, LastPageIsAll DEF Told
    <2>4. QED
      BY <2>2, <2>3
  <1>6. CASE rows[t].status = "listed" /\ ~PastCursor(t)
    <2>1. t \notin Page /\ got[t] = 1
      BY <1>2, <1>6 DEF Page, Matching
    <2>2. CASE cursor' = cursor
      BY <1>1, <1>6, <2>1, <2>2 DEF Told, PastCursor
    <2>3. CASE cursor' # cursor
      <3>1. Before(cursor.at, cursor.id, cursor'.at, cursor'.id)
        BY <2>3, FetchDescends
      <3>2. cursor'.at \in Int /\ cursor'.id \in Int
        BY <1>1, <2>3, TasksAreNumbers DEF FetchPage
      <3>3. ~Before(cursor'.at, cursor'.id, rows[t].at, t)
        BY <1>1, <1>6, <3>1, <3>2, TasksAreNumbers, BeforeIsTransitive DEF PastCursor
      <3>4. QED
        BY <1>1, <1>3, <1>6, <2>1, <3>3 DEF Told
    <2>4. QED
      BY <2>2, <2>3
  <1>7. QED
    BY <1>4, <1>5, <1>6

LEMMA ToldStep == ToldInv /\ [Next]_vars => ToldInv'
  <1> SUFFICES ASSUME ToldInv, [Next]_vars PROVE ToldInv'
    OBVIOUS
  <1>1. TypeOK /\ TypeOK'
    BY TypeStep DEF ToldInv
  <1>2. CASE Begin
    <2>1. \A t \in Tasks : PastCursor(t)
      <3>1. SUFFICES ASSUME NEW t \in Tasks PROVE PastCursor(t)
        OBVIOUS
      <3>2. cursor = [at |-> MaxTime + 1, id |-> 0]
        BY <1>2 DEF Begin, ToldInv, Start
      <3>3. MaxTime + 1 > rows[t].at
        BY <1>1, TasksAreNumbers, PagingConstantsOK
      <3>4. QED
        BY <3>2, <3>3 DEF PastCursor, Before
    <2>2. QED
      BY <1>1, <1>2, <2>1 DEF Begin, ToldInv, Told, PastCursor
  <1>3. CASE FetchPage
    <2>1. listing' # "no" /\ moved' = moved
      BY <1>3 DEF FetchPage
    <2>2. QED
      BY <1>1, <1>3, <2>1, FetchTells DEF ToldInv
  <1>4. ASSUME NEW w \in Writers, WriteRow(w) PROVE ToldInv'
    <2>1. \A t \in Tasks \ moved' : rows'[t] = rows[t] /\ t \notin moved
      BY <1>1, <1>4 DEF WriteRow, TypeOK
    <2>2. UNCHANGED client
      BY <1>4 DEF WriteRow
    <2>3. QED
      BY <1>1, <2>1, <2>2 DEF ToldInv, Told, PastCursor, client
  <1>5. CASE Tick \/ (\E w \in Writers : TakeTime(w)) \/ UNCHANGED vars
    BY <1>1, <1>5 DEF Tick, TakeTime, vars, client, ToldInv, Told, PastCursor
  <1>6. QED
    BY <1>2, <1>3, <1>4, <1>5 DEF Next

LEMMA ToldInit == Init => ToldInv
  BY TypeInit DEF Init, ToldInv

\* A task nobody writes while the list is read is returned exactly once, however
\* many others are written, before and behind the cursor.
THEOREM ListedOnce == Spec => []SteadyListedOnce
  <1>1. ToldInv => SteadyListedOnce
    BY DEF ToldInv, Told, SteadyListedOnce, Steady
  <1>2. QED
    BY <1>1, ToldInit, ToldStep, PTL DEF Spec

\* Only a task that is written meanwhile can be returned twice, or leave the filter
\* after it was returned.
THEOREM TwiceIsMoved == Spec => []TwiceOnlyIfMoved
  <1>1. ToldInv => TwiceOnlyIfMoved
    BY DEF ToldInv, Told, TwiceOnlyIfMoved
  <1>2. QED
    BY <1>1, ToldInit, ToldStep, PTL DEF Spec
=============================================================================
