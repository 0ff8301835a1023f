--------------------------- MODULE FactStoreProofs ---------------------------
(***************************************************************************)
(* Proofs about FactStore, for any ids, texts, judge, executors and        *)
(* bounds.                                                                 *)
(***************************************************************************)
EXTENDS FactStore, FiniteSetTheorems, WellFoundedInduction, TLAPS

-----------------------------------------------------------------------------
(* Part 1: records, rows and handlers *)

\* Where a handler is, and what it has at hand there.
Shape(h) ==
  /\ h.op = "none" => h.pc = "idle"
  /\ h.pc \in {"add", "cacheNew"} =>
       h.op = "store" /\ h.stage = "none" /\ h.text # Null /\ h.status # "superseded"
  /\ h.pc = "cacheNew" \/ (h.op = "store" /\ h.stage = "archive") => h.new # Null
  /\ h.pc \in {"read", "select"} => h.op = "consolidate" /\ h.stage = "none"
  /\ h.stage \in {"noise", "rewrite", "dups"} => h.op = "consolidate"
  /\ h.stage = "upsert" => h.op \in {"rebuild", "consolidate"} /\ h.pc = "loop"
  /\ h.stage = "forget" => h.op = "forget"
  /\ h.pc = "copy" => h.stage = "archive" /\ h.cur \in h.todo /\ h.item # Null
  /\ h.pc \in {"cacheCopy", "delete"} =>
       h.stage \in {"archive", "rewrite"} /\ h.cur \in h.todo
  /\ h.pc = "cacheCopy" => h.copy # Null /\ h.item # Null
  /\ h.pc = "uncache" => h.cur # Null

\* What is left to do in a loop was chosen from what the handler has seen.
Chosen(h) ==
  /\ h.stage = "upsert" => h.todo \subseteq Stored(h.seen)
  /\ h.stage = "noise" => h.todo \subseteq NoiseRows(h.seen)
  /\ h.stage = "rewrite" => h.todo \subseteq Rewrites(h.seen)
  /\ h.stage = "dups" => h.todo \subseteq Duplicates(h.seen)
  /\ h.stage = "archive" \/ h.pc \in {"add", "cacheNew"} =>
       h.todo \subseteq Active(h.seen)

Fits(h) == h \in Handler /\ Shape(h) /\ Chosen(h)

FactInv == TypeOK /\ \A e \in Executors : Fits(exec[e])

Rows == [Ids -> Record \cup {Null}]

LEMMA NullIsNothing == Null \notin Ids /\ Null \notin Texts /\ Null \notin Record
  BY FactConstantsOK

LEMMA IdleFits == Fits(Idle) /\ NoRecords \in Rows
  <1>1. NoRecords \in Rows
    BY DEF NoRecords, Rows
  <1>2. Idle \in Handler
    BY <1>1 DEF Idle, Handler, Ops, Stages, Places, FactStatuses, Rows
  <1>3. QED
    BY <1>1, <1>2 DEF Idle, Fits, Shape, Chosen

LEMMA InitFact == Init => FactInv
  <1> SUFFICES ASSUME Init PROVE FactInv
    OBVIOUS
  <1>1. MaxStores \in Nat /\ MaxFaults \in Nat
    BY FactConstantsOK
  <1>2. auto \in BOOLEAN
    BY FactConstantsOK DEF Init
  <1>3. exec \in [Executors -> Handler] /\ \A e \in Executors : exec[e] = Idle
    BY IdleFits DEF Init, Fits
  <1>4. clock \in 0 .. MaxStores /\ faults \in 0 .. MaxFaults
    BY <1>1 DEF Init
  <1>5. mem \in Rows /\ cache \in Rows /\ disturbed = FALSE /\ forgotten = {}
    BY IdleFits DEF Init
  <1>6. TypeOK
    BY <1>2, <1>3, <1>4, <1>5 DEF TypeOK, Rows
  <1>7. QED
    BY <1>3, <1>6, IdleFits DEF FactInv

\* An upserted row has the content it was given.
LEMMA UpsertedRow ==
  ASSUME NEW old \in Record \cup {Null}, NEW row \in Record
  PROVE  Upserted(old, row) \in Record /\ SameContent(Upserted(old, row), row)
  <1>1. row # Null
    BY NullIsNothing
  <1>2. CASE old = Null
    BY <1>1, <1>2 DEF Upserted, SameContent
  <1>3. CASE old # Null
    <2> DEFINE r == [row EXCEPT !.created = old.created]
    <2>1. r \in Record /\ r.text = row.text /\ r.status = row.status /\ r.from = row.from
      BY <1>3 DEF Record
    <2>2. r # Null
      BY <2>1, NullIsNothing
    <2> HIDE DEF r
    <2>3. QED
      BY <1>1, <1>3, <2>1, <2>2 DEF Upserted, SameContent, r
  <1>4. QED
    BY <1>2, <1>3

\* A store that takes its new memory back.
LEMMA RollbackFits ==
  ASSUME NEW T \in SUBSET Ids
  PROVE  Fits([Idle EXCEPT !.op = "store", !.stage = "rollback", !.pc = "loop",
                           !.todo = T])
  <1> DEFINE g == [Idle EXCEPT !.op = "store", !.stage = "rollback", !.pc = "loop",
                               !.todo = T]
  <1>1. Idle \in Handler
    BY IdleFits DEF Fits
  <1>2. g \in Handler
    BY <1>1 DEF Handler, Ops, Stages, Places
  <1>3. g.op = "store" /\ g.stage = "rollback" /\ g.pc = "loop"
    BY DEF Idle
  <1>4. Shape(g) /\ Chosen(g)
    BY <1>3 DEF Shape, Chosen
  <1>5. QED
    BY <1>2, <1>4 DEF Fits

\* What becomes of a handler when a call raises.
LEMMA RaisedFits ==
  ASSUME NEW h \in Handler, Fits(h), NEW i
  PROVE  Fits(Raised(h, i))
  <1>1. CASE h.op = "store" /\ h.stage = "archive"
    <2>1. h.new \in Ids
      BY <1>1 DEF Fits, Shape, Handler
    <2>2. QED
      BY <1>1, <2>1, RollbackFits DEF Raised
  <1>2. CASE h.stage = "rewrite"
    <2> DEFINE g == [h EXCEPT !.pc = "loop", !.failed = TRUE, !.todo = @ \ {i},
                              !.cur = Null, !.copy = Null, !.item = Null]
    <2>1. g \in Handler
      BY DEF Handler, Places
    <2>2. Shape(g) /\ Chosen(g)
      BY <1>2 DEF Fits, Handler, Shape, Chosen
    <2>3. QED
      BY <1>2, <2>1, <2>2 DEF Raised, Fits
  <1>3. QED
    BY <1>1, <1>2, IdleFits DEF Raised

\* What comes after a loop.
LEMMA AfterLoopFits ==
  ASSUME NEW h \in Handler, Fits(h), h.pc = "loop", h.todo = {}
  PROVE  Fits(AfterLoop(h))
  <1>1. CASE h.stage = "noise"
    <2> DEFINE g == [h EXCEPT !.stage = "rewrite", !.todo = Rewrites(h.seen)]
    <2>1. Rewrites(h.seen) \in SUBSET Ids
      BY DEF Rewrites, Stored
    <2>2. g \in Handler
      BY <2>1 DEF Handler, Stages
    <2>3. Shape(g) /\ Chosen(g)
      BY <1>1 DEF Fits, Handler, Shape, Chosen
    <2>4. QED
      BY <1>1, <2>2, <2>3 DEF AfterLoop, Fits
  <1>2. CASE h.stage = "rewrite" /\ ~h.failed
    <2> DEFINE g == [h EXCEPT !.stage = "dups", !.todo = Duplicates(h.seen)]
    <2>1. Duplicates(h.seen) \in SUBSET Ids
      BY DEF Duplicates, Stored
    <2>2. g \in Handler
      BY <2>1 DEF Handler, Stages
    <2>3. Shape(g) /\ Chosen(g)
      BY <1>2 DEF Fits, Handler, Shape, Chosen
    <2>4. QED
      BY <1>2, <2>2, <2>3 DEF AfterLoop, Fits
  <1>3. CASE h.stage = "dups"
    <2> DEFINE g == [h EXCEPT !.stage = "none", !.pc = "select", !.seen = NoRecords]
    <2>2. g \in Handler
      BY IdleFits DEF Handler, Stages, Places, Rows
    <2>3. Shape(g) /\ Chosen(g)
      BY <1>3 DEF Fits, Handler, Shape, Chosen
    <2>4. QED
      BY <1>3, <2>2, <2>3 DEF AfterLoop, Fits
  <1>4. QED
    BY <1>1, <1>2, <1>3, IdleFits DEF AfterLoop

LEMMA GotoFits ==
  ASSUME FactInv, NEW e \in Executors, NEW h, Fits(h), Goto(e, h)
  PROVE  /\ exec' \in [Executors -> Handler]
         /\ exec'[e] = h
         /\ \A f \in Executors \ {e} : exec'[f] = exec[f]
         /\ \A f \in Executors : Fits(exec'[f])
  BY DEF FactInv, TypeOK, Goto, Fits

\* What every step that only moves a handler, or writes a row, leaves in shape.
LEMMA KeepsFact ==
  ASSUME FactInv, NEW e \in Executors, NEW h, Fits(h), Goto(e, h),
         mem' \in Rows, cache' \in Rows, auto' = auto,
         clock' \in 0 .. MaxStores, faults' \in 0 .. MaxFaults,
         disturbed' \in BOOLEAN, forgotten' \subseteq Texts \cup {Null}
  PROVE  FactInv'
  BY GotoFits DEF FactInv, TypeOK, Rows

LEMMA RebuildingFits ==
  ASSUME mem \in Rows, NEW h \in Handler, h.op \in {"rebuild", "consolidate"}
  PROVE  Fits(Rebuilding(h))
  <1> DEFINE g == Rebuilding(h)
  <1>1. Stored(mem) \in SUBSET Ids
    BY DEF Stored
  <1>2. g \in Handler
    BY <1>1 DEF Rebuilding, Handler, Stages, Places, Rows
  <1>3. /\ g.op = h.op /\ g.stage = "upsert" /\ g.pc = "loop"
        /\ g.seen = mem /\ g.todo = Stored(mem)
    BY DEF Rebuilding, Handler
  <1> HIDE DEF g
  <1>4. QED
    BY <1>2, <1>3 DEF Fits, Shape, Chosen, g

LEMMA ConsolidatingFits ==
  ASSUME mem \in Rows, NEW scoped \in BOOLEAN, NEW dedupe \in BOOLEAN
  PROVE  LET h == [Idle EXCEPT !.op = "consolidate", !.scoped = scoped,
                               !.dedupe = dedupe]
         IN  Fits(Rebuilding(h)) /\ Fits([h EXCEPT !.pc = "read"])
  <1> DEFINE h == [Idle EXCEPT !.op = "consolidate", !.scoped = scoped,
                               !.dedupe = dedupe]
             g == [h EXCEPT !.pc = "read"]
  <1>1. h \in Handler /\ h.op = "consolidate" /\ h.stage = "none"
    <2>1. Idle \in Handler /\ Idle.stage = "none"
      BY IdleFits DEF Fits, Idle
    <2>2. QED
      BY <2>1 DEF Handler, Ops
  <1> HIDE DEF h
  <1>2. g \in Handler /\ g.op = "consolidate" /\ g.stage = "none" /\ g.pc = "read"
    BY <1>1 DEF Handler, Places
  <1>3. Fits(g)
    <2> HIDE DEF g
    <2>1. QED
      BY <1>2 DEF Fits, Shape, Chosen
  <1>4. QED
    BY <1>1, <1>3, RebuildingFits DEF h

\* What the next delete of a handler is about.
LEMMA TargetsFit ==
  ASSUME NEW h \in Handler, Fits(h), NEW i \in Targets(h)
  PROVE  /\ i \in Ids /\ i \in h.todo
         /\ h.op # "none"
         /\ \/ h.pc = "loop" /\ h.stage \in {"noise", "dups", "forget", "rollback"}
            \/ h.pc = "delete" /\ h.stage \in {"archive", "rewrite"} /\ i = h.cur
  BY DEF Targets, Fits, Shape, Handler

LEMMA NewRecordType ==
  ASSUME NEW h \in Handler, h.text # Null, NEW n \in Nat
  PROVE  NewRecord(h, n) \in Record
  BY DEF NewRecord, Record, Handler

\* What a rewrite adds is a record.
LEMMA RewrittenType ==
  ASSUME NEW h \in Handler, Fits(h), h.stage = "rewrite", NEW i \in h.todo, clock \in Nat
  PROVE  /\ i \in Ids /\ h.seen[i] \in Record /\ Canonical[h.seen[i].text] \in Texts
         /\ [h.seen[i] EXCEPT !.text = Canonical[h.seen[i].text], !.created = clock]
               \in Record
  <1> USE NullIsNothing
  <1>1. i \in Stored(h.seen) \ NoiseRows(h.seen)
    BY DEF Fits, Chosen, Rewrites
  <1>2. i \in Ids /\ h.seen[i] \in Record /\ Canonical[h.seen[i].text] # Null
    BY <1>1 DEF Handler, Stored, NoiseRows
  <1>3. h.seen[i].text \in Texts
    BY <1>2 DEF Record
  <1>4. Canonical[h.seen[i].text] \in Texts
    BY <1>2, <1>3, FactConstantsOK
  <1>5. QED
    BY <1>2, <1>4 DEF Record

\* What a copy is cached as is a record.
LEMMA CopiedType ==
  ASSUME NEW h \in Handler, Fits(h), h.pc = "cacheCopy", clock \in Nat
  PROVE  [h.item EXCEPT !.created = IF h.stage = "archive" THEN h.seen[h.cur].created
                                                           ELSE clock] \in Record
  <1> DEFINE created == IF h.stage = "archive" THEN h.seen[h.cur].created ELSE clock
  <1>1. h.item \in Record
    BY DEF Fits, Shape, Handler
  <1>2. h.stage = "archive" => h.seen[h.cur] \in Record
    BY DEF Fits, Shape, Chosen, Active, Stored, Handler
  <1>3. created \in Nat
    BY <1>2 DEF Record
  <1> HIDE DEF created
  <1>4. [h.item EXCEPT !.created = created] \in Record
    BY <1>1, <1>3 DEF Record
  <1>5. QED
    BY <1>4 DEF created

LEMMA StepFact == FactInv /\ [Next]_vars => FactInv'
  <1> SUFFICES ASSUME FactInv, [Next]_vars PROVE FactInv'
    OBVIOUS
  <1> USE NullIsNothing
  <1>0. /\ mem \in Rows /\ cache \in Rows /\ auto \in BOOLEAN
        /\ exec \in [Executors -> Handler]
        /\ clock \in 0 .. MaxStores /\ faults \in 0 .. MaxFaults
        /\ disturbed \in BOOLEAN /\ forgotten \subseteq Texts \cup {Null}
        /\ clock \in Nat /\ MaxStores \in Nat /\ MaxFaults \in Nat
        /\ \A e \in Executors : Fits(exec[e])
    BY FactConstantsOK DEF FactInv, TypeOK, Rows
  <1>1. ASSUME NEW e \in Executors, NEW t \in Texts, BeginStore(e, t) PROVE FactInv'
    <2> DEFINE seen == [i \in Ids |-> IF i \in ToSupersede(t) THEN cache[i] ELSE Null]
               h == [Idle EXCEPT !.op = "store", !.pc = "add", !.text = t,
                                 !.status = StatusOfNew(t), !.now = clock + 1,
                                 !.todo = ToSupersede(t), !.seen = seen]
    <2>1. /\ ToSupersede(t) \in SUBSET Ids
          /\ StatusOfNew(t) \in FactStatuses \ {"superseded"}
          /\ seen \in Rows /\ clock + 1 \in Nat
      BY <1>0 DEF ToSupersede, Active, Stored, StatusOfNew, FactStatuses, Rows
    <2>2. h \in Handler
      <3>1. Idle \in Handler
        BY IdleFits DEF Fits
      <3> HIDE DEF seen
      <3>2. QED
        BY <2>1, <3>1 DEF Handler, Ops, Places, Rows
    <2>3. Fits(h)
      <3>1. h.op = "store" /\ h.stage = "none" /\ h.pc = "add" /\ h.text = t
            /\ h.status = StatusOfNew(t) /\ h.todo = ToSupersede(t) /\ h.seen = seen
        BY DEF Idle
      <3>2. ToSupersede(t) \subseteq Active(seen)
        BY DEF ToSupersede, Active, Stored
      <3> HIDE DEF h, seen
      <3>3. QED
        BY <2>1, <2>2, <3>1, <3>2 DEF Fits, Shape, Chosen
    <2>4. Goto(e, h) /\ clock' = clock + 1 /\ clock < MaxStores
      BY <1>1 DEF BeginStore
    <2>5. clock' \in 0 .. MaxStores
      BY <1>0, <2>4
    <2>6. disturbed' \in BOOLEAN /\ forgotten' \subseteq Texts \cup {Null}
      BY <1>0, <1>1 DEF BeginStore, Begin, Busy
    <2> HIDE DEF h
    <2>7. QED
      BY <1>0, <1>1, <2>3, <2>4, <2>5, <2>6, KeepsFact DEF BeginStore
  <1>2. ASSUME NEW e \in Executors, NEW i \in Ids, BeginForget(e, i) PROVE FactInv'
    <2> DEFINE h == [Idle EXCEPT !.op = "forget", !.stage = "forget", !.pc = "loop",
                                 !.todo = {i}]
    <2>1. h \in Handler
      BY IdleFits DEF Fits, Handler, Ops, Stages, Places
    <2>2. Fits(h)
      <3>1. h.op = "forget" /\ h.stage = "forget" /\ h.pc = "loop"
        BY DEF Idle
      <3> HIDE DEF h
      <3>2. QED
        BY <2>1, <3>1 DEF Fits, Shape, Chosen
    <2>3. disturbed' \in BOOLEAN /\ forgotten' \subseteq Texts \cup {Null}
      BY <1>0, <1>2 DEF BeginForget, Begin, Busy
    <2>4. Goto(e, h)
      BY <1>2 DEF BeginForget
    <2> HIDE DEF h
    <2>5. QED
      BY <1>0, <1>2, <2>2, <2>3, <2>4, KeepsFact DEF BeginForget
  <1>3. ASSUME NEW e \in Executors, BeginRebuild(e) PROVE FactInv'
    <2> DEFINE g == [Idle EXCEPT !.op = "rebuild"]
    <2>1. g \in Handler /\ g.op = "rebuild"
      BY IdleFits DEF Fits, Handler, Ops
    <2>2. Fits(Rebuilding(g))
      BY <1>0, <2>1, RebuildingFits
    <2>3. disturbed' \in BOOLEAN /\ forgotten' \subseteq Texts \cup {Null}
      BY <1>0, <1>3 DEF BeginRebuild, Begin, Busy
    <2>4. Goto(e, Rebuilding(g))
      BY <1>3 DEF BeginRebuild
    <2> HIDE DEF g
    <2>5. QED
      BY <1>0, <1>3, <2>2, <2>3, <2>4, KeepsFact DEF BeginRebuild
  <1>4. ASSUME NEW e \in Executors, NEW r \in Requests, BeginConsolidation(e, r[1], r[2])
        PROVE  FactInv'
    <2>1. r[1] \in BOOLEAN /\ r[2] \in BOOLEAN
      BY FactConstantsOK
    <2>2. PICK h : Fits(h) /\ Goto(e, h)
      BY <1>0, <1>4, <2>1, ConsolidatingFits DEF BeginConsolidation
    <2>3. disturbed' \in BOOLEAN /\ forgotten' \subseteq Texts \cup {Null}
      BY <1>0, <1>4 DEF BeginConsolidation, Begin, Busy
    <2>4. QED
      BY <1>0, <1>4, <2>2, <2>3, KeepsFact DEF BeginConsolidation
  <1>5. ASSUME NEW e \in Executors, AddNew(e) PROVE FactInv'
    <2> DEFINE g == exec[e]
    <2>1. PICK i \in FreeIds : /\ mem' = [mem EXCEPT ![i] = NewRecord(g, clock)]
                               /\ Goto(e, [g EXCEPT !.pc = "cacheNew", !.new = i])
      BY <1>5 DEF AddNew
    <2>2. g \in Handler /\ Fits(g) /\ g.pc = "add" /\ i \in Ids
      BY <1>0, <1>5, <2>1 DEF AddNew, FreeIds
    <2>3. NewRecord(g, clock) \in Record
      BY <1>0, <2>2, NewRecordType DEF Fits, Shape
    <2>4. mem' \in Rows
      BY <1>0, <2>1, <2>2, <2>3 DEF Rows
    <2> DEFINE h == [g EXCEPT !.pc = "cacheNew", !.new = i]
    <2> HIDE DEF g
    <2>5. h \in Handler
      BY <2>2 DEF Handler, Places
    <2>6. Fits(h)
      BY <2>2, <2>5 DEF Fits, Handler, Shape, Chosen
    <2> HIDE DEF h
    <2>7. QED
      BY <1>0, <1>5, <2>1, <2>4, <2>6, KeepsFact DEF AddNew, h, g
  <1>6. ASSUME NEW e \in Executors, CacheNew(e) PROVE FactInv'
    <2> DEFINE g == exec[e]
               h == [g EXCEPT !.pc = "loop", !.stage = "archive"]
    <2>1. g \in Handler /\ Fits(g) /\ g.pc = "cacheNew"
      BY <1>0, <1>6 DEF CacheNew
    <2>2. /\ cache' = [cache EXCEPT ![g.new] = Upserted(@, NewRecord(g, g.now))]
          /\ Goto(e, h)
      BY <1>6 DEF CacheNew
    <2>3. g.new \in Ids /\ NewRecord(g, g.now) \in Record
      BY <2>1, NewRecordType DEF Fits, Shape, Handler
    <2>4. cache' \in Rows
      BY <1>0, <2>2, <2>3, UpsertedRow DEF Rows
    <2> HIDE DEF g
    <2>5. h \in Handler
      BY <2>1 DEF Handler, Places, Stages
    <2>6. Fits(h)
      BY <2>1, <2>5 DEF Fits, Handler, Shape, Chosen
    <2> HIDE DEF h
    <2>7. QED
      BY <1>0, <1>6, <2>2, <2>4, <2>6, KeepsFact DEF CacheNew
  <1>7. ASSUME NEW e \in Executors, UpsertItem(e) PROVE FactInv'
    <2> DEFINE g == exec[e]
    <2>1. g \in Handler /\ Fits(g) /\ g.stage = "upsert"
      BY <1>0, <1>7 DEF UpsertItem
    <2>2. PICK i \in g.todo : /\ cache' = [cache EXCEPT ![i] = Upserted(@, g.seen[i])]
                              /\ Goto(e, [g EXCEPT !.todo = @ \ {i}])
      BY <1>7 DEF UpsertItem
    <2>3. i \in Ids /\ g.seen[i] \in Record
      BY <2>1 DEF Fits, Chosen, Handler, Stored
    <2>4. cache' \in Rows
      BY <1>0, <2>2, <2>3, UpsertedRow DEF Rows
    <2> DEFINE h == [g EXCEPT !.todo = @ \ {i}]
    <2> HIDE DEF g
    <2>5. h \in Handler
      BY <2>1 DEF Handler
    <2>6. Fits(h)
      BY <2>1, <2>5 DEF Fits, Handler, Shape, Chosen
    <2> HIDE DEF h
    <2>7. QED
      BY <1>0, <1>7, <2>2, <2>4, <2>6, KeepsFact DEF UpsertItem, h, g
  <1>8. ASSUME NEW e \in Executors, Prune(e) PROVE FactInv'
    <2> DEFINE g == exec[e]
               h == [g EXCEPT !.stage = "none", !.pc = "read", !.seen = NoRecords]
    <2>1. /\ g \in Handler /\ Fits(g) /\ g.stage = "upsert" /\ g.todo = {}
          /\ Goto(e, IF g.op = "rebuild" THEN Idle ELSE h)
          /\ cache' = [i \in Ids |-> IF i \in KeptByPrune(g) THEN cache[i] ELSE Null]
      BY <1>0, <1>8 DEF Prune
    <2>2. cache' \in Rows
      BY <1>0, <2>1 DEF Rows
    <2>3. g.op = "consolidate" => Fits(h)
      <3> HIDE DEF g
      <3>1. h \in Handler
        BY <2>1, IdleFits DEF Handler, Stages, Places, Rows
      <3>2. QED
        BY <2>1, <3>1 DEF Fits, Handler, Shape, Chosen
    <2>4. g.op \in {"rebuild", "consolidate"}
      BY <2>1 DEF Fits, Shape
    <2>5. PICK k : Fits(k) /\ Goto(e, k)
      <3> HIDE DEF g, h
      <3>1. QED
        BY <2>1, <2>3, <2>4, IdleFits
    <2> HIDE DEF h, g
    <2>6. QED
      BY <1>0, <1>8, <2>2, <2>5, KeepsFact DEF Prune
  <1>9. ASSUME NEW e \in Executors, ReadRows(e) PROVE FactInv'
    <2> DEFINE g == exec[e]
               h == [g EXCEPT !.stage = "noise", !.pc = "loop", !.seen = cache,
                              !.todo = NoiseRows(cache)]
               k == [g EXCEPT !.pc = "select"]
    <2>1. /\ g \in Handler /\ Fits(g) /\ g.pc = "read"
          /\ Goto(e, IF g.dedupe THEN h ELSE k)
      BY <1>0, <1>9 DEF ReadRows
    <2>2. NoiseRows(cache) \in SUBSET Ids
      BY DEF NoiseRows, Stored
    <2> HIDE DEF g
    <2>3. h \in Handler /\ k \in Handler
      BY <1>0, <2>1, <2>2 DEF Handler, Stages, Places, Rows
    <2>4. Fits(h) /\ Fits(k)
      BY <2>1, <2>3 DEF Fits, Handler, Shape, Chosen
    <2> HIDE DEF h, k
    <2>5. QED
      BY <1>0, <1>9, <2>1, <2>4, KeepsFact DEF ReadRows
  <1>10. ASSUME NEW e \in Executors, AddRewritten(e) PROVE FactInv'
    <2> DEFINE g == exec[e]
               r(i) == [g.seen[i] EXCEPT !.text = Canonical[g.seen[i].text],
                                         !.created = clock]
               h(i, j) == [g EXCEPT !.pc = "cacheCopy", !.cur = i, !.copy = j,
                                    !.item = r(i)]
    <2>1. g \in Handler /\ Fits(g) /\ g.pc = "loop" /\ g.stage = "rewrite"
      BY <1>0, <1>10 DEF AddRewritten
    <2>2. PICK i \in g.todo, j \in FreeIds :
            mem' = [mem EXCEPT ![j] = r(i)] /\ Goto(e, h(i, j))
      BY <1>10 DEF AddRewritten
    <2>3. i \in Ids /\ r(i) \in Record
      BY <1>0, <2>1, RewrittenType
    <2>5. mem' \in Rows
      BY <1>0, <2>2, <2>3 DEF Rows
    <2>6. j \in Ids
      BY DEF FreeIds
    <2>7. Fits(h(i, j))
      <3> HIDE DEF g, r
      <3>1. h(i, j) \in Handler
        BY <2>1, <2>3, <2>6 DEF Handler, Places
      <3>2. QED
        BY <2>1, <2>3, <2>6, <3>1 DEF Fits, Handler, Shape, Chosen
    <2> HIDE DEF h, g
    <2>8. QED
      BY <1>0, <1>10, <2>2, <2>5, <2>7, KeepsFact DEF AddRewritten
  <1>11. ASSUME NEW e \in Executors, SelectActive(e) PROVE FactInv'
    <2> DEFINE g == exec[e]
               older == IF auto THEN OlderActive(cache) ELSE {}
               h == [g EXCEPT !.stage = "archive", !.pc = "loop", !.seen = cache,
                              !.todo = older]
    <2>1. /\ g \in Handler /\ Fits(g) /\ g.pc = "select" /\ Goto(e, h)
      BY <1>0, <1>11 DEF SelectActive
    <2>2. older \in SUBSET Ids /\ older \subseteq Active(cache)
      BY DEF OlderActive, Active, Stored
    <2> HIDE DEF g, older
    <2>3. h \in Handler
      BY <1>0, <2>1, <2>2 DEF Handler, Stages, Places, Rows
    <2>4. Fits(h)
      BY <2>1, <2>2, <2>3 DEF Fits, Handler, Shape, Chosen
    <2> HIDE DEF h
    <2>5. QED
      BY <1>0, <1>11, <2>1, <2>4, KeepsFact DEF SelectActive
  <1>12. ASSUME NEW e \in Executors, GetItem(e) PROVE FactInv'
    <2> DEFINE g == exec[e]
               h(i) == [g EXCEPT !.pc = IF mem[i] = Null THEN "uncache" ELSE "copy",
                                 !.cur = i, !.item = mem[i]]
    <2>1. /\ g \in Handler /\ Fits(g) /\ g.pc = "loop" /\ g.stage = "archive"
      BY <1>0, <1>12 DEF GetItem
    <2>2. PICK i \in g.todo : Goto(e, h(i))
      BY <1>12 DEF GetItem
    <2>3. i \in Ids /\ mem[i] \in Record \cup {Null}
      BY <1>0, <2>1 DEF Handler, Rows
    <2> HIDE DEF g
    <2>4. h(i) \in Handler
      BY <2>1, <2>3 DEF Handler, Places
    <2>5. Fits(h(i))
      BY <2>1, <2>3, <2>4 DEF Fits, Handler, Shape, Chosen
    <2> HIDE DEF h
    <2>6. QED
      BY <1>0, <1>12, <2>2, <2>5, KeepsFact DEF GetItem
  <1>13. ASSUME NEW e \in Executors, AddArchived(e) PROVE FactInv'
    <2> DEFINE g == exec[e]
               r == [g.item EXCEPT !.status = "superseded", !.created = clock]
               h(j) == [g EXCEPT !.pc = "cacheCopy", !.copy = j, !.item = r]
    <2>1. /\ g \in Handler /\ Fits(g) /\ g.pc = "copy" /\ g.item \in Record
      BY <1>0, <1>13 DEF AddArchived, Fits, Shape, Handler
    <2>2. PICK j \in FreeIds : mem' = [mem EXCEPT ![j] = r] /\ Goto(e, h(j))
      BY <1>13 DEF AddArchived
    <2>3. r \in Record /\ j \in Ids
      BY <1>0, <2>1 DEF Record, FactStatuses, FreeIds
    <2>4. mem' \in Rows
      BY <1>0, <2>2, <2>3 DEF Rows
    <2>5. Fits(h(j))
      <3> HIDE DEF g, r
      <3>1. h(j) \in Handler
        BY <2>1, <2>3 DEF Handler, Places
      <3>2. QED
        BY <2>1, <2>3, <3>1 DEF Fits, Handler, Shape, Chosen
    <2> HIDE DEF h, g
    <2>6. QED
      BY <1>0, <1>13, <2>2, <2>4, <2>5, KeepsFact DEF AddArchived
  <1>14. ASSUME NEW e \in Executors, CacheCopy(e) PROVE FactInv'
    <2> DEFINE g == exec[e]
               created == IF g.stage = "archive" THEN g.seen[g.cur].created ELSE clock
               r == [g.item EXCEPT !.created = created]
               h == [g EXCEPT !.pc = "delete", !.copy = Null, !.item = Null]
    <2>1. /\ g \in Handler /\ Fits(g) /\ g.pc = "cacheCopy"
          /\ g.item \in Record /\ g.copy \in Ids
      BY <1>0, <1>14 DEF CacheCopy, Fits, Shape, Handler
    <2>2. cache' = [cache EXCEPT ![g.copy] = Upserted(@, r)] /\ Goto(e, h)
      BY <1>14 DEF CacheCopy
    <2>4. r \in Record
      BY <1>0, <2>1, CopiedType
    <2>5. cache' \in Rows
      <3> HIDE DEF r
      <3>1. QED
        BY <1>0, <2>1, <2>2, <2>4, UpsertedRow DEF Rows
    <2>6. Fits(h)
      <3> HIDE DEF g
      <3>1. h \in Handler
        BY <2>1 DEF Handler, Places
      <3>2. QED
        BY <2>1, <3>1 DEF Fits, Handler, Shape, Chosen
    <2> HIDE DEF h, g
    <2>7. QED
      BY <1>0, <1>14, <2>2, <2>5, <2>6, KeepsFact DEF CacheCopy
  <1>15. ASSUME NEW e \in Executors, Delete(e) PROVE FactInv'
    <2> DEFINE g == exec[e]
               h(i) == [g EXCEPT !.pc = "uncache", !.cur = i]
    <2>1. PICK i \in Targets(g) :
            /\ mem[i] # Null /\ mem' = [mem EXCEPT ![i] = Null] /\ Goto(e, h(i))
            /\ forgotten' = IF g.op = "forget" THEN forgotten \cup {Canonical[mem[i].text]}
                                               ELSE forgotten
      BY <1>15 DEF Delete
    <2>2. g \in Handler /\ Fits(g) /\ i \in Ids
      BY <1>0, <2>1, TargetsFit
    <2>3. mem' \in Rows /\ forgotten' \subseteq Texts \cup {Null}
      <3>1. mem[i] \in Record
        BY <1>0, <2>1, <2>2 DEF Rows
      <3>2. Canonical[mem[i].text] \in Texts \cup {Null}
        BY <3>1, FactConstantsOK DEF Record
      <3>3. QED
        BY <1>0, <2>1, <2>2, <3>2 DEF Rows
    <2>4. Fits(h(i))
      <3>1. g.pc \in {"loop", "delete"} /\ g.stage # "upsert" /\ g.op # "none"
        BY <1>0, <2>1, TargetsFit
      <3> HIDE DEF g
      <3>2. h(i) \in Handler
        BY <2>2 DEF Handler, Places
      <3>3. QED
        BY <2>2, <3>1, <3>2 DEF Fits, Handler, Shape, Chosen
    <2> HIDE DEF h, g
    <2>5. QED
      BY <1>0, <1>15, <2>1, <2>3, <2>4, KeepsFact DEF Delete
  <1>16. ASSUME NEW e \in Executors, Uncache(e) PROVE FactInv'
    <2> DEFINE g == exec[e]
               h == [g EXCEPT !.pc = "loop", !.todo = @ \ {g.cur}, !.cur = Null,
                              !.item = Null]
    <2>1. /\ g \in Handler /\ Fits(g) /\ g.pc = "uncache" /\ Goto(e, h)
          /\ cache' = [cache EXCEPT ![g.cur] = Null]
      BY <1>0, <1>16 DEF Uncache
    <2>2. cache' \in Rows
      BY <1>0, <2>1 DEF Rows
    <2>3. Fits(h)
      <3> HIDE DEF g
      <3>1. h \in Handler
        BY <2>1 DEF Handler, Places
      <3>2. QED
        BY <2>1, <3>1 DEF Fits, Handler, Shape, Chosen
    <2> HIDE DEF h, g
    <2>4. QED
      BY <1>0, <1>16, <2>1, <2>2, <2>3, KeepsFact DEF Uncache
  <1>17. ASSUME NEW e \in Executors, NEW i, Goto(e, Raised(exec[e], i)),
                UNCHANGED <<mem, cache, auto, clock, forgotten>>,
                faults' \in 0 .. MaxFaults, disturbed' \in BOOLEAN
         PROVE  FactInv'
    <2>1. Fits(Raised(exec[e], i))
      BY <1>0, RaisedFits
    <2>2. QED
      BY <1>0, <1>17, <2>1, KeepsFact
  <1>18. ASSUME NEW e \in Executors, DeleteRaises(e) PROVE FactInv'
    BY <1>0, <1>17, <1>18 DEF DeleteRaises
  <1>19. ASSUME NEW e \in Executors, CallFails(e) PROVE FactInv'
    <2>1. faults' \in 0 .. MaxFaults
      BY <1>0, <1>19 DEF CallFails
    <2>2. QED
      BY <1>0, <1>17, <1>19, <2>1 DEF CallFails
  <1>20. ASSUME NEW e \in Executors, EndLoop(e) PROVE FactInv'
    <2>1. Fits(AfterLoop(exec[e])) /\ Goto(e, AfterLoop(exec[e]))
      BY <1>0, <1>20, AfterLoopFits DEF EndLoop
    <2>2. disturbed' \in BOOLEAN
      BY <1>0, <1>20 DEF EndLoop
    <2>3. QED
      BY <1>0, <1>20, <2>1, <2>2, KeepsFact DEF EndLoop
  <1>21. CASE Crash
    <2>1. exec' = [e \in Executors |-> Idle] /\ faults' \in 0 .. MaxFaults
      BY <1>0, <1>21 DEF Crash
    <2>2. exec' \in [Executors -> Handler] /\ \A e \in Executors : Fits(exec'[e])
      BY <2>1, IdleFits DEF Fits
    <2>3. TypeOK'
      BY <1>0, <1>21, <2>1, <2>2 DEF Crash, TypeOK, Rows
    <2>4. QED
      BY <2>2, <2>3 DEF FactInv
  <1>22. CASE UNCHANGED vars
    BY <1>22 DEF vars, FactInv, TypeOK
  <1>23. QED
    BY <1>1, <1>2, <1>3, <1>4, <1>5, <1>6, <1>7, <1>8, <1>9, <1>10, <1>11, <1>12,
       <1>13, <1>14, <1>15, <1>16, <1>18, <1>19, <1>20, <1>21, <1>22
       DEF Next, Proceed

\* Records, rows and handlers keep their shape, whatever overlaps or fails.
THEOREM FactTypes == Spec => []TypeOK
  <1>1. FactInv => TypeOK
    BY DEF FactInv
  <1>2. QED
    BY <1>1, InitFact, StepFact, PTL DEF Spec

-----------------------------------------------------------------------------
(* Part 2: what an id stands for *)

\* The rows of a store, or the records a handler has seen, have the content C.
View(s, C) == \A i \in Stored(s) : SameContent(s[i], C[i])

HandlerView(h, C) ==
  /\ View(h.seen, C)
  /\ h.pc = "cacheNew" => SameContent(NewRecord(h, 0), C[h.new])
  /\ h.op = "store" /\ h.stage = "archive" => C[h.new].status # "superseded"
  /\ h.stage = "rollback" => \A i \in h.todo : C[i].status # "superseded"
  /\ h.pc = "copy" => SameContent(h.item, C[h.cur])
  /\ h.pc = "cacheCopy" => SameContent(h.item, C[h.copy])

Views(C) ==
  /\ View(mem, C)
  /\ View(cache, C)
  /\ \A e \in Executors : HandlerView(exec[e], C)

\* A memory is written once: whatever still knows an id, a store or a handler
\* that read it long ago, knows the same text, status and time.
SameEverywhere == \E C \in Rows : Views(C)

LEMMA SameTrans ==
  ASSUME NEW r, NEW q, NEW s, SameContent(r, q), SameContent(q, s)
  PROVE  SameContent(r, s)
  BY DEF SameContent

LEMMA InitSame == Init => SameEverywhere
  <1> SUFFICES ASSUME Init PROVE SameEverywhere
    OBVIOUS
  <1>1. View(NoRecords, NoRecords)
    BY DEF Stored, NoRecords, View
  <1>2. HandlerView(Idle, NoRecords)
    BY <1>1 DEF HandlerView, Idle
  <1>3. QED
    BY <1>1, <1>2, IdleFits DEF Init, Views, SameEverywhere

\* An id that is given out is not known to anybody, so it can stand for anything.
LEMMA FreshView ==
  ASSUME FactInv, NEW C \in Rows, Views(C), NEW j \in FreeIds, NEW r \in Record
  PROVE  LET D == [C EXCEPT ![j] = r] IN D \in Rows /\ Views(D) /\ D[j] = r
  <1> DEFINE D == [C EXCEPT ![j] = r]
  <1>1. j \in Ids /\ D \in Rows /\ D[j] = r /\ \A i \in Ids \ {j} : D[i] = C[i]
    BY DEF Rows, FreeIds
  <1> HIDE DEF D
  <1>2. ASSUME NEW s, j \notin Stored(s), View(s, C) PROVE View(s, D)
    BY <1>1, <1>2 DEF View, Stored
  <1>3. j \notin Stored(mem) /\ j \notin Stored(cache)
    BY DEF FreeIds
  <1>4. ASSUME NEW e \in Executors PROVE HandlerView(exec[e], D)
    <2> DEFINE h == exec[e]
    <2>1. h \in Handler /\ Fits(h) /\ HandlerView(h, C)
      BY DEF FactInv, TypeOK, Views
    <2>2. j \notin Mentions(h)
      BY DEF FreeIds
    <2> HIDE DEF h
    <2>3. j # h.new /\ j # h.copy /\ j # h.cur /\ j \notin h.todo /\ j \notin Stored(h.seen)
      BY <2>2 DEF Mentions
    <2>4. View(h.seen, D)
      BY <1>2, <2>1, <2>3 DEF HandlerView
    <2>5. /\ h.pc = "cacheNew" \/ (h.op = "store" /\ h.stage = "archive") => h.new \in Ids
          /\ h.pc \in {"copy", "cacheCopy"} => h.cur \in Ids
          /\ h.pc = "cacheCopy" => h.copy \in Ids
          /\ h.todo \subseteq Ids
      BY <2>1 DEF Fits, Shape, Handler
    <2>6. HandlerView(h, D)
      BY <1>1, <2>1, <2>3, <2>4, <2>5 DEF HandlerView
    <2>7. QED
      BY <2>6 DEF h
  <1>5. View(mem, D) /\ View(cache, D)
    BY <1>2, <1>3 DEF Views
  <1>6. QED
    BY <1>1, <1>4, <1>5 DEF Views, D

LEMMA CalmView ==
  ASSUME NEW h, NEW C, View(h.seen, C), h.pc \notin {"cacheNew", "copy", "cacheCopy"},
         ~(h.op = "store" /\ h.stage = "archive"), h.stage # "rollback"
  PROVE  HandlerView(h, C)
  BY DEF HandlerView

\* A row with the content of its id may be written.
LEMMA WriteView ==
  ASSUME NEW s \in Rows, NEW C \in Rows, View(s, C), NEW i \in Ids, NEW r \in Record,
         SameContent(r, C[i])
  PROVE  /\ View([s EXCEPT ![i] = r], C)
         /\ View([s EXCEPT ![i] = Upserted(@, r)], C)
         /\ View([s EXCEPT ![i] = Null], C)
  <1>1. SameContent(Upserted(s[i], r), C[i])
    BY UpsertedRow, SameTrans DEF Rows
  <1>2. QED
    BY <1>1 DEF View, Stored, Rows

LEMMA DropView ==
  ASSUME NEW s, NEW t, NEW C, View(s, C), \A i \in Ids : t[i] \in {s[i], Null}
  PROVE  View(t, C)
  BY DEF View, Stored

LEMMA StepSame == FactInv /\ SameEverywhere /\ [Next]_vars => SameEverywhere'
  <1> SUFFICES ASSUME FactInv, SameEverywhere, [Next]_vars PROVE SameEverywhere'
    OBVIOUS
  <1> USE NullIsNothing
  <1>0. PICK C \in Rows : Views(C)
    BY DEF SameEverywhere
  <1>1. /\ mem \in Rows /\ cache \in Rows /\ exec \in [Executors -> Handler]
        /\ clock \in Nat /\ View(mem, C) /\ View(cache, C) /\ View(NoRecords, C)
        /\ \A e \in Executors : Fits(exec[e]) /\ HandlerView(exec[e], C)
    BY <1>0 DEF FactInv, TypeOK, Rows, Views, View, NoRecords, Stored
  <1>2. FactInv'
    BY StepFact
  <1>3. ASSUME NEW D \in Rows, Views(D), NEW e \in Executors, NEW h, Goto(e, h),
               HandlerView(h, D), View(mem', D), View(cache', D)
        PROVE  SameEverywhere'
    <2>1. exec'[e] = h /\ \A f \in Executors \ {e} : exec'[f] = exec[f]
      BY <1>1, <1>3 DEF Goto
    <2>2. QED
      BY <1>3, <2>1 DEF SameEverywhere, Views, Rows
  <1>4. ASSUME NEW e \in Executors, NEW t \in Texts, BeginStore(e, t) PROVE SameEverywhere'
    <2> DEFINE seen == [i \in Ids |-> IF i \in ToSupersede(t) THEN cache[i] ELSE Null]
               h == [Idle EXCEPT !.op = "store", !.pc = "add", !.text = t,
                                 !.status = StatusOfNew(t), !.now = clock + 1,
                                 !.todo = ToSupersede(t), !.seen = seen]
    <2>1. View(seen, C)
      BY <1>1, DropView
    <2>2. h.seen = seen /\ h.pc = "add" /\ h.stage = "none"
      BY DEF Idle
    <2>3. Goto(e, h) /\ mem' = mem /\ cache' = cache
      BY <1>4 DEF BeginStore
    <2> HIDE DEF h, seen
    <2>4. QED
      BY <1>0, <1>1, <1>3, <2>1, <2>2, <2>3, CalmView
  <1>5. ASSUME NEW e \in Executors, NEW i \in Ids, BeginForget(e, i) PROVE SameEverywhere'
    <2> DEFINE h == [Idle EXCEPT !.op = "forget", !.stage = "forget", !.pc = "loop",
                                 !.todo = {i}]
    <2>1. h.seen = NoRecords /\ h.pc = "loop" /\ h.stage = "forget"
      BY DEF Idle
    <2>2. Goto(e, h) /\ mem' = mem /\ cache' = cache
      BY <1>5 DEF BeginForget
    <2> HIDE DEF h
    <2>3. QED
      BY <1>0, <1>1, <1>3, <2>1, <2>2, CalmView
  <1>6. ASSUME NEW h PROVE h \in Handler => HandlerView(Rebuilding(h), C)
    <2> SUFFICES ASSUME h \in Handler PROVE HandlerView(Rebuilding(h), C)
      OBVIOUS
    <2> DEFINE g == Rebuilding(h)
    <2>1. g.seen = mem /\ g.pc = "loop" /\ g.stage = "upsert"
      BY DEF Rebuilding, Handler
    <2> HIDE DEF g
    <2>2. HandlerView(g, C)
      BY <1>1, <2>1, CalmView
    <2>3. QED
      BY <2>2 DEF g
  <1>7. ASSUME NEW e \in Executors, BeginRebuild(e) PROVE SameEverywhere'
    <2> DEFINE g == [Idle EXCEPT !.op = "rebuild"]
    <2>1. g \in Handler
      BY IdleFits DEF Fits, Handler, Ops
    <2>2. Goto(e, Rebuilding(g)) /\ mem' = mem /\ cache' = cache
      BY <1>7 DEF BeginRebuild
    <2> HIDE DEF g
    <2>3. QED
      BY <1>0, <1>1, <1>3, <1>6, <2>1, <2>2
  <1>8. ASSUME NEW e \in Executors, NEW r \in Requests, BeginConsolidation(e, r[1], r[2])
        PROVE  SameEverywhere'
    <2> DEFINE g == [Idle EXCEPT !.op = "consolidate", !.scoped = r[1], !.dedupe = r[2]]
               h == [g EXCEPT !.pc = "read"]
    <2>1. Goto(e, IF r[1] THEN Rebuilding(g) ELSE h) /\ mem' = mem /\ cache' = cache
      BY <1>8 DEF BeginConsolidation
    <2>2. g \in Handler /\ h.seen = NoRecords /\ h.pc = "read" /\ h.stage = "none"
      <3>1. r[1] \in BOOLEAN /\ r[2] \in BOOLEAN
        BY FactConstantsOK
      <3>2. Idle \in Handler
        BY IdleFits DEF Fits
      <3>3. g \in Handler
        BY <3>1, <3>2 DEF Handler, Ops
      <3>4. QED
        BY <3>3 DEF Idle
    <2> HIDE DEF g, h
    <2>3. HandlerView(h, C) /\ HandlerView(Rebuilding(g), C)
      BY <1>1, <1>6, <2>2, CalmView
    <2>4. QED
      BY <1>0, <1>1, <1>3, <2>1, <2>3
  <1>9. ASSUME NEW j \in FreeIds, NEW r \in Record, mem' = [mem EXCEPT ![j] = r],
               cache' = cache
        PROVE  \E D \in Rows : /\ Views(D) /\ D[j] = r
                               /\ View(mem', D) /\ View(cache', D)
    <2>1. PICK D \in Rows : Views(D) /\ D[j] = r
      BY <1>0, FreshView
    <2>2. j \in Ids /\ SameContent(r, D[j])
      BY <2>1 DEF FreeIds, SameContent
    <2>3. View(mem', D) /\ View(cache', D)
      BY <1>1, <1>9, <2>1, <2>2, WriteView DEF Views
    <2>4. QED
      BY <2>1, <2>3
  <1>10. ASSUME NEW e \in Executors, AddNew(e) PROVE SameEverywhere'
    <2> DEFINE g == exec[e]
               h(i) == [g EXCEPT !.pc = "cacheNew", !.new = i]
    <2>1. PICK i \in FreeIds : mem' = [mem EXCEPT ![i] = NewRecord(g, clock)] /\ Goto(e, h(i))
      BY <1>10 DEF AddNew
    <2>2. g \in Handler /\ Fits(g) /\ g.pc = "add" /\ i \in Ids /\ cache' = cache
      BY <1>1, <1>10, <2>1 DEF AddNew, FreeIds
    <2>3. NewRecord(g, clock) \in Record /\ NewRecord(g, 0) \in Record
      BY <1>1, <2>2, NewRecordType DEF Fits, Shape
    <2>4. PICK D \in Rows : /\ Views(D) /\ D[i] = NewRecord(g, clock)
                            /\ View(mem', D) /\ View(cache', D)
      BY <1>9, <2>1, <2>2, <2>3
    <2>5. HandlerView(h(i), D)
      <3>1. View(g.seen, D)
        BY <2>4 DEF Views, HandlerView
      <3> HIDE DEF g
      <3>2. /\ h(i).seen = g.seen /\ h(i).pc = "cacheNew" /\ h(i).new = i
            /\ h(i).stage = "none" /\ NewRecord(h(i), 0) = NewRecord(g, 0)
        BY <2>2 DEF Handler, NewRecord, Fits, Shape
      <3>3. SameContent(NewRecord(g, 0), D[i])
        BY <2>3, <2>4 DEF SameContent, NewRecord
      <3> HIDE DEF h
      <3>4. QED
        BY <3>1, <3>2, <3>3 DEF HandlerView
    <2> HIDE DEF h, g
    <2>6. QED
      BY <1>3, <2>1, <2>4, <2>5
  <1>11. ASSUME NEW e \in Executors, CacheNew(e) PROVE SameEverywhere'
    <2> DEFINE g == exec[e]
               h == [g EXCEPT !.pc = "loop", !.stage = "archive"]
    <2>1. /\ g \in Handler /\ Fits(g) /\ HandlerView(g, C) /\ g.pc = "cacheNew"
          /\ cache' = [cache EXCEPT ![g.new] = Upserted(@, NewRecord(g, g.now))]
          /\ Goto(e, h) /\ mem' = mem
      BY <1>1, <1>11 DEF CacheNew
    <2> HIDE DEF g
    <2>2. /\ g.new \in Ids /\ NewRecord(g, g.now) \in Record /\ NewRecord(g, 0) \in Record
          /\ g.status # "superseded"
      BY <2>1, NewRecordType DEF Fits, Shape, Handler
    <2>3. SameContent(NewRecord(g, 0), C[g.new])
      BY <2>1 DEF HandlerView
    <2>4. SameContent(NewRecord(g, g.now), C[g.new]) /\ C[g.new].status # "superseded"
      BY <2>2, <2>3 DEF SameContent, NewRecord, Rows
    <2>5. View(cache', C)
      BY <1>1, <2>1, <2>2, <2>4, WriteView
    <2>6. /\ h.seen = g.seen /\ h.pc = "loop" /\ h.stage = "archive" /\ h.new = g.new
      BY <2>1 DEF Handler
    <2> HIDE DEF h
    <2>7. HandlerView(h, C)
      BY <2>1, <2>4, <2>6 DEF HandlerView
    <2>8. QED
      BY <1>0, <1>1, <1>3, <2>1, <2>5, <2>7
  <1>12. ASSUME NEW e \in Executors, UpsertItem(e) PROVE SameEverywhere'
    <2> DEFINE g == exec[e]
               h(i) == [g EXCEPT !.todo = @ \ {i}]
    <2>1. PICK i \in g.todo : /\ cache' = [cache EXCEPT ![i] = Upserted(@, g.seen[i])]
                              /\ Goto(e, h(i))
      BY <1>12 DEF UpsertItem
    <2>2. g \in Handler /\ Fits(g) /\ HandlerView(g, C) /\ g.stage = "upsert" /\ mem' = mem
      BY <1>1, <1>12 DEF UpsertItem
    <2> HIDE DEF g
    <2>3. i \in Ids /\ g.seen[i] \in Record /\ SameContent(g.seen[i], C[i])
      BY <2>2 DEF Fits, Chosen, Handler, Stored, HandlerView, View
    <2>4. View(cache', C)
      BY <1>1, <2>1, <2>3, WriteView
    <2>5. h(i).seen = g.seen /\ h(i).pc = "loop" /\ h(i).stage = "upsert"
      BY <2>2 DEF Handler, Fits, Shape
    <2> HIDE DEF h
    <2>6. HandlerView(h(i), C)
      BY <2>2, <2>5, CalmView DEF HandlerView
    <2>7. QED
      BY <1>0, <1>1, <1>3, <2>1, <2>2, <2>4, <2>6
  <1>13. ASSUME NEW e \in Executors, Prune(e) PROVE SameEverywhere'
    <2> DEFINE g == exec[e]
               h == [g EXCEPT !.stage = "none", !.pc = "read", !.seen = NoRecords]
    <2>1. /\ g \in Handler /\ Fits(g) /\ g.stage = "upsert" /\ mem' = mem
          /\ Goto(e, IF g.op = "rebuild" THEN Idle ELSE h)
          /\ cache' = [i \in Ids |-> IF i \in KeptByPrune(g) THEN cache[i] ELSE Null]
      BY <1>1, <1>13 DEF Prune
    <2>2. View(cache', C)
      BY <1>1, <2>1, DropView
    <2> HIDE DEF g
    <2>3. h.seen = NoRecords /\ h.pc = "read" /\ h.stage = "none"
      BY <2>1 DEF Handler
    <2> HIDE DEF h
    <2>4. HandlerView(h, C) /\ HandlerView(Idle, C)
      BY <1>1, <2>3, CalmView DEF Idle
    <2>5. QED
      BY <1>0, <1>1, <1>3, <2>1, <2>2, <2>4
  <1>14. ASSUME NEW e \in Executors, ReadRows(e) PROVE SameEverywhere'
    <2> DEFINE g == exec[e]
               h == [g EXCEPT !.stage = "noise", !.pc = "loop", !.seen = cache,
                              !.todo = NoiseRows(cache)]
               k == [g EXCEPT !.pc = "select"]
    <2>1. /\ g \in Handler /\ Fits(g) /\ HandlerView(g, C) /\ g.pc = "read"
          /\ Goto(e, IF g.dedupe THEN h ELSE k) /\ mem' = mem /\ cache' = cache
      BY <1>1, <1>14 DEF ReadRows
    <2> HIDE DEF g
    <2>2. /\ h.seen = cache /\ h.pc = "loop" /\ h.stage = "noise"
          /\ k.seen = g.seen /\ k.pc = "select" /\ k.stage = "none"
      BY <2>1 DEF Handler, Fits, Shape
    <2> HIDE DEF h, k
    <2>3. HandlerView(h, C) /\ HandlerView(k, C)
      BY <1>1, <2>1, <2>2, CalmView DEF HandlerView
    <2>4. QED
      BY <1>0, <1>1, <1>3, <2>1, <2>3
  <1>15. ASSUME NEW e \in Executors, AddRewritten(e) PROVE SameEverywhere'
    <2> DEFINE g == exec[e]
               r(i) == [g.seen[i] EXCEPT !.text = Canonical[g.seen[i].text],
                                         !.created = clock]
               h(i, j) == [g EXCEPT !.pc = "cacheCopy", !.cur = i, !.copy = j,
                                    !.item = r(i)]
    <2>1. /\ g \in Handler /\ Fits(g) /\ g.pc = "loop" /\ g.stage = "rewrite"
          /\ cache' = cache
      BY <1>1, <1>15 DEF AddRewritten
    <2>2. PICK i \in g.todo, j \in FreeIds :
            mem' = [mem EXCEPT ![j] = r(i)] /\ Goto(e, h(i, j))
      BY <1>15 DEF AddRewritten
    <2>3. r(i) \in Record
      BY <1>1, <2>1, RewrittenType
    <2>4. PICK D \in Rows : Views(D) /\ D[j] = r(i) /\ View(mem', D) /\ View(cache', D)
      BY <1>9, <2>1, <2>2, <2>3
    <2>5. HandlerView(h(i, j), D)
      <3>1. View(g.seen, D)
        BY <2>4 DEF Views, HandlerView
      <3> HIDE DEF g, r
      <3>2. /\ h(i, j).seen = g.seen /\ h(i, j).pc = "cacheCopy" /\ h(i, j).copy = j
            /\ h(i, j).item = r(i) /\ h(i, j).stage = "rewrite"
        BY <2>1 DEF Handler
      <3> HIDE DEF h
      <3>3. QED
        BY <2>3, <2>4, <3>1, <3>2 DEF HandlerView, SameContent
    <2> HIDE DEF h, g
    <2>6. QED
      BY <1>3, <2>2, <2>4, <2>5
  <1>16. ASSUME NEW e \in Executors, SelectActive(e) PROVE SameEverywhere'
    <2> DEFINE g == exec[e]
               h == [g EXCEPT !.stage = "archive", !.pc = "loop", !.seen = cache,
                              !.todo = IF auto THEN OlderActive(cache) ELSE {}]
    <2>1. /\ g \in Handler /\ Fits(g) /\ g.pc = "select" /\ Goto(e, h)
          /\ mem' = mem /\ cache' = cache
      BY <1>1, <1>16 DEF SelectActive
    <2> HIDE DEF g
    <2>2. h.seen = cache /\ h.pc = "loop" /\ h.stage = "archive" /\ h.op = "consolidate"
      BY <2>1 DEF Handler, Fits, Shape
    <2> HIDE DEF h
    <2>3. QED
      BY <1>0, <1>1, <1>3, <2>1, <2>2, CalmView
  <1>17. ASSUME NEW e \in Executors, GetItem(e) PROVE SameEverywhere'
    <2> DEFINE g == exec[e]
               h(i) == [g EXCEPT !.pc = IF mem[i] = Null THEN "uncache" ELSE "copy",
                                 !.cur = i, !.item = mem[i]]
    <2>1. /\ g \in Handler /\ Fits(g) /\ HandlerView(g, C) /\ g.pc = "loop"
          /\ g.stage = "archive" /\ mem' = mem /\ cache' = cache
      BY <1>1, <1>17 DEF GetItem
    <2>2. PICK i \in g.todo : Goto(e, h(i))
      BY <1>17 DEF GetItem
    <2> HIDE DEF g
    <2>3. mem[i] # Null => SameContent(mem[i], C[i])
      BY <1>1, <2>1 DEF View, Stored, Handler
    <2>4. /\ h(i).seen = g.seen /\ h(i).stage = g.stage /\ h(i).op = g.op
          /\ h(i).new = g.new /\ h(i).cur = i /\ h(i).item = mem[i]
          /\ h(i).pc = IF mem[i] = Null THEN "uncache" ELSE "copy"
      BY <2>1 DEF Handler
    <2> HIDE DEF h
    <2>5. HandlerView(h(i), C)
      BY <2>1, <2>3, <2>4 DEF HandlerView
    <2>6. QED
      BY <1>0, <1>1, <1>3, <2>1, <2>2, <2>5
  <1>18. ASSUME NEW e \in Executors, AddArchived(e) PROVE SameEverywhere'
    <2> DEFINE g == exec[e]
               r == [g.item EXCEPT !.status = "superseded", !.created = clock]
               h(j) == [g EXCEPT !.pc = "cacheCopy", !.copy = j, !.item = r]
    <2>1. /\ g \in Handler /\ Fits(g) /\ g.pc = "copy" /\ g.item \in Record
          /\ cache' = cache /\ g.stage = "archive"
      BY <1>1, <1>18 DEF AddArchived, Fits, Shape, Handler
    <2>2. PICK j \in FreeIds : mem' = [mem EXCEPT ![j] = r] /\ Goto(e, h(j))
      BY <1>18 DEF AddArchived
    <2>3. r \in Record
      BY <1>1, <2>1 DEF Record, FactStatuses
    <2>4. PICK D \in Rows : Views(D) /\ D[j] = r /\ View(mem', D) /\ View(cache', D)
      BY <1>9, <2>1, <2>2, <2>3
    <2>5. HandlerView(h(j), D)
      <3>1. HandlerView(g, D)
        BY <2>4 DEF Views
      <3> HIDE DEF g, r
      <3>2. /\ h(j).seen = g.seen /\ h(j).pc = "cacheCopy" /\ h(j).copy = j
            /\ h(j).item = r /\ h(j).stage = "archive" /\ h(j).op = g.op
            /\ h(j).new = g.new
        BY <2>1 DEF Handler
      <3> HIDE DEF h
      <3>3. QED
        BY <2>1, <2>3, <2>4, <3>1, <3>2 DEF HandlerView, SameContent
    <2> HIDE DEF h, g
    <2>6. QED
      BY <1>3, <2>2, <2>4, <2>5
  <1>19. ASSUME NEW e \in Executors, CacheCopy(e) PROVE SameEverywhere'
    <2> DEFINE g == exec[e]
               created == IF g.stage = "archive" THEN g.seen[g.cur].created ELSE clock
               r == [g.item EXCEPT !.created = created]
               h == [g EXCEPT !.pc = "delete", !.copy = Null, !.item = Null]
    <2>1. /\ g \in Handler /\ Fits(g) /\ HandlerView(g, C) /\ g.pc = "cacheCopy"
          /\ g.item \in Record /\ g.copy \in Ids /\ mem' = mem
      BY <1>1, <1>19 DEF CacheCopy, Fits, Shape, Handler
    <2>2. cache' = [cache EXCEPT ![g.copy] = Upserted(@, r)] /\ Goto(e, h)
      BY <1>19 DEF CacheCopy
    <2>3. r \in Record
      BY <1>1, <2>1, CopiedType
    <2>4. SameContent(r, C[g.copy])
      <3>1. r.text = g.item.text /\ r.status = g.item.status /\ r.from = g.item.from
        BY <2>1 DEF Record
      <3> HIDE DEF r
      <3>2. SameContent(r, g.item)
        BY <2>1, <2>3, <3>1 DEF SameContent
      <3>3. QED
        BY <2>1, <3>2, SameTrans DEF HandlerView
    <2>5. View(cache', C)
      <3> HIDE DEF r
      <3>1. QED
        BY <1>1, <2>1, <2>2, <2>3, <2>4, WriteView
    <2> HIDE DEF g
    <2>6. /\ h.seen = g.seen /\ h.pc = "delete" /\ h.stage = g.stage /\ h.op = g.op
          /\ h.new = g.new
      BY <2>1 DEF Handler
    <2> HIDE DEF h
    <2>7. HandlerView(h, C)
      BY <2>1, <2>6 DEF HandlerView, Fits, Shape
    <2>8. QED
      BY <1>0, <1>1, <1>3, <2>1, <2>2, <2>5, <2>7
  <1>20. ASSUME NEW e \in Executors, Delete(e) PROVE SameEverywhere'
    <2> DEFINE g == exec[e]
               h(i) == [g EXCEPT !.pc = "uncache", !.cur = i]
    <2>1. PICK i \in Targets(g) : mem' = [mem EXCEPT ![i] = Null] /\ Goto(e, h(i))
      BY <1>20 DEF Delete
    <2>2. /\ g \in Handler /\ HandlerView(g, C) /\ cache' = cache
      BY <1>1, <1>20 DEF Delete
    <2>3. View(mem', C)
      <3>1. \A k \in Ids : mem'[k] \in {mem[k], Null}
        BY <1>1, <2>1 DEF Rows
      <3>2. QED
        BY <1>1, <3>1, DropView
    <2> HIDE DEF g
    <2>4. /\ h(i).seen = g.seen /\ h(i).pc = "uncache" /\ h(i).stage = g.stage
          /\ h(i).op = g.op /\ h(i).new = g.new /\ h(i).todo = g.todo
      BY <2>2 DEF Handler
    <2> HIDE DEF h
    <2>5. HandlerView(h(i), C)
      BY <2>2, <2>4 DEF HandlerView
    <2>6. QED
      BY <1>0, <1>1, <1>3, <2>1, <2>2, <2>3, <2>5
  <1>21. ASSUME NEW e \in Executors, Uncache(e) PROVE SameEverywhere'
    <2> DEFINE g == exec[e]
               h == [g EXCEPT !.pc = "loop", !.todo = @ \ {g.cur}, !.cur = Null,
                              !.item = Null]
    <2>1. /\ g \in Handler /\ HandlerView(g, C) /\ Goto(e, h) /\ mem' = mem
          /\ cache' = [cache EXCEPT ![g.cur] = Null]
      BY <1>1, <1>21 DEF Uncache
    <2>2. View(cache', C)
      <3>1. \A k \in Ids : cache'[k] \in {cache[k], Null}
        BY <1>1, <2>1 DEF Rows
      <3>2. QED
        BY <1>1, <3>1, DropView
    <2> HIDE DEF g
    <2>3. /\ h.seen = g.seen /\ h.pc = "loop" /\ h.stage = g.stage
          /\ h.op = g.op /\ h.new = g.new /\ h.todo \subseteq g.todo
      BY <2>1 DEF Handler
    <2> HIDE DEF h
    <2>4. HandlerView(h, C)
      BY <2>1, <2>3 DEF HandlerView
    <2>5. QED
      BY <1>0, <1>1, <1>3, <2>1, <2>2, <2>4
  <1>22. ASSUME NEW e \in Executors, NEW i, Goto(e, Raised(exec[e], i)),
                mem' = mem, cache' = cache
         PROVE  SameEverywhere'
    <2> DEFINE g == exec[e]
               k == [Idle EXCEPT !.op = "store", !.stage = "rollback", !.pc = "loop",
                                 !.todo = {g.new}]
               h == [g EXCEPT !.pc = "loop", !.failed = TRUE, !.todo = @ \ {i},
                              !.cur = Null, !.copy = Null, !.item = Null]
    <2>1. g \in Handler /\ Fits(g) /\ HandlerView(g, C)
      BY <1>1
    <2>2. CASE g.op = "store" /\ g.stage = "archive"
      <3>1. Goto(e, k)
        BY <1>22, <2>2 DEF Raised
      <3>2. C[g.new].status # "superseded"
        BY <2>1, <2>2 DEF HandlerView
      <3>3. k.seen = NoRecords /\ k.pc = "loop" /\ k.stage = "rollback" /\ k.todo = {g.new}
        BY DEF Idle
      <3> HIDE DEF k, g
      <3>4. HandlerView(k, C)
        BY <1>1, <3>2, <3>3 DEF HandlerView
      <3>5. QED
        BY <1>0, <1>1, <1>3, <1>22, <3>1, <3>4
    <2>3. CASE ~(g.op = "store" /\ g.stage = "archive") /\ g.stage = "rewrite"
      <3>1. Goto(e, h)
        BY <1>22, <2>3 DEF Raised
      <3> HIDE DEF g
      <3>2. h.seen = g.seen /\ h.pc = "loop" /\ h.stage = "rewrite"
        BY <2>1, <2>3 DEF Handler
      <3> HIDE DEF h
      <3>3. HandlerView(h, C)
        BY <2>1, <3>2, CalmView DEF HandlerView
      <3>4. QED
        BY <1>0, <1>1, <1>3, <1>22, <3>1, <3>3
    <2>4. CASE ~(g.op = "store" /\ g.stage = "archive") /\ g.stage # "rewrite"
      <3>1. Goto(e, Idle)
        BY <1>22, <2>4 DEF Raised
      <3>2. HandlerView(Idle, C)
        BY <1>1, CalmView DEF Idle
      <3>3. QED
        BY <1>0, <1>1, <1>3, <1>22, <3>1, <3>2
    <2>5. QED
      BY <2>2, <2>3, <2>4
  <1>23. ASSUME NEW e \in Executors, DeleteRaises(e) \/ CallFails(e) PROVE SameEverywhere'
    BY <1>22, <1>23 DEF DeleteRaises, CallFails
  <1>24. ASSUME NEW e \in Executors, EndLoop(e) PROVE SameEverywhere'
    <2> DEFINE g == exec[e]
               h == AfterLoop(g)
    <2>1. /\ g \in Handler /\ Fits(g) /\ HandlerView(g, C) /\ g.pc = "loop"
          /\ Goto(e, h) /\ mem' = mem /\ cache' = cache
      BY <1>1, <1>24 DEF EndLoop
    <2> HIDE DEF g
    <2>2. /\ h.seen \in {g.seen, NoRecords} /\ h.pc \in {"loop", "select", "idle"}
          /\ h.stage \in {"rewrite", "dups", "none"}
      BY <2>1 DEF Handler, AfterLoop, Idle
    <2> HIDE DEF h
    <2>3. HandlerView(h, C)
      BY <1>1, <2>1, <2>2, CalmView DEF HandlerView
    <2>4. QED
      BY <1>0, <1>1, <1>3, <2>1, <2>3
  <1>25. CASE Crash
    <2>1. HandlerView(Idle, C)
      BY <1>1, CalmView DEF Idle
    <2>2. QED
      BY <1>0, <1>1, <1>25, <2>1 DEF Crash, SameEverywhere, Views
  <1>26. CASE UNCHANGED vars
    BY <1>0, <1>26 DEF vars, SameEverywhere, Views
  <1>27. QED
    BY <1>4, <1>5, <1>7, <1>8, <1>10, <1>11, <1>12, <1>13, <1>14, <1>15, <1>16, <1>17,
       <1>18, <1>19, <1>20, <1>21, <1>23, <1>24, <1>25, <1>26 DEF Next, Proceed

-----------------------------------------------------------------------------
(* Part 3: no version is lost *)

\* What the judge makes of a text is what it makes of its own answer: true of
\* the rules (canonicalize_preference_text), assumed of the model behind them.
JudgeIsStable ==
  \A t \in Texts : Canonical[t] # Null => Canonical[Canonical[t]] = Canonical[t]

LEMMA LeastNatural ==
  ASSUME NEW S \in SUBSET Nat, S # {}
  PROVE  \E m \in S : \A n \in S : m <= n
  <1> DEFINE Less == {p \in Nat \X Nat : p[1] < p[2]}
  <1>1. IsWellFoundedOn(Less, Nat)
    BY NatLessThanWellFounded DEF OpToRel
  <1> HIDE DEF Less
  <1>2. PICK m \in S : \A n \in S : <<n, m>> \notin Less
    BY <1>1, WFMin
  <1>3. ASSUME NEW n \in S, n < m PROVE FALSE
    <2>1. <<n, m>> \in Less
      BY <1>3 DEF Less
    <2>2. QED
      BY <1>2, <2>1
  <1>4. QED
    BY <1>3

\* Every group of rows that say the same has a first one, which is no duplicate.
LEMMA FirstOfGroup ==
  ASSUME NEW s \in Rows, NEW i \in Stored(s) \ NoiseRows(s)
  PROVE  \E m \in Stored(s) \ (NoiseRows(s) \cup Duplicates(s)) : SameFact(s[m], s[i])
  <1> USE NullIsNothing
  <1> DEFINE G == {m \in Stored(s) \ NoiseRows(s) : SameFact(s[m], s[i])}
             Kept == {m \in G : ~IsRewritten(s[m])}
             G1 == IF Kept # {} THEN Kept ELSE G
             T == {s[m].created : m \in G1}
  <1>1. G \subseteq Ids /\ \A m \in G : s[m] \in Record
    BY DEF Stored, Rows
  <1>2. i \in G
    BY DEF SameFact
  <1>3. G1 \subseteq G /\ G1 # {}
    BY <1>2
  <1>4. \A m \in G \ G1 : IsRewritten(s[m]) /\ \A n \in G1 : ~IsRewritten(s[n])
    OBVIOUS
  <1>5. \A m, n \in G1 : IsRewritten(s[m]) = IsRewritten(s[n])
    BY DEF IsRewritten
  <1> HIDE DEF G, G1
  <1>6. T \in SUBSET Nat /\ T # {}
    BY <1>1, <1>3 DEF Record
  <1>7. PICK c \in T : \A d \in T : c <= d
    BY <1>6, LeastNatural
  <1> DEFINE G2 == {m \in G1 : s[m].created = c}
  <1>8. G2 \in SUBSET Nat /\ G2 # {}
    BY <1>1, <1>3, <1>7, FactConstantsOK
  <1>9. PICK m \in G2 : \A n \in G2 : m <= n
    <2> HIDE DEF G2
    <2>1. QED
      BY <1>8, LeastNatural
  <1>10. ASSUME NEW n \in G \ {m}, Precedes(s, n, m) PROVE FALSE
    <2>0. m \in G1 /\ s[m].created = c /\ m \in Ids /\ n \in Ids /\ m \in Nat /\ n \in Nat
      BY <1>1, <1>3, <1>9, FactConstantsOK
    <2>1. CASE n \notin G1
      BY <1>4, <1>10, <2>0, <2>1 DEF Precedes
    <2>2. CASE n \in G1
      <3>1. s[n].created \in T /\ s[n].created \in Nat /\ c \in Nat /\ c <= s[n].created
        BY <1>6, <1>7, <2>2
      <3>2. IsRewritten(s[n]) = IsRewritten(s[m])
        BY <1>5, <2>0, <2>2
      <3>3. s[n].created < s[m].created \/ (s[n].created = s[m].created /\ n < m)
        BY <1>10, <3>2 DEF Precedes
      <3>4. s[n].created = c /\ n < m
        BY <2>0, <3>1, <3>3
      <3>5. m <= n
        BY <1>9, <2>2, <3>4
      <3>6. QED
        BY <2>0, <3>4, <3>5
    <2>3. QED
      BY <2>1, <2>2
  <1>11. m \in G
    BY <1>3, <1>9
  <1>12. m \notin Duplicates(s)
    <2> SUFFICES ASSUME NEW n \in (Stored(s) \ NoiseRows(s)) \ {m},
                        SameFact(s[n], s[m]), Precedes(s, n, m)
                 PROVE  FALSE
      BY DEF Duplicates
    <2>1. n \in G
      BY <1>11 DEF G, SameFact
    <2>2. QED
      BY <1>10, <2>1
  <1>13. QED
    BY <1>11, <1>12 DEF G

\* A version that is about to be deleted is somewhere else, or forgotten.
Saved(h, m, forgot) ==
  h.pc \in {"cacheCopy", "delete"} =>
    /\ h.stage = "archive" =>
         \/ Canonical[h.seen[h.cur].text] \in forgot
         \/ \E k \in Stored(m) :
              m[k].status = "superseded" /\ m[k].text = h.seen[h.cur].text
    /\ h.stage = "rewrite" =>
         \E k \in Stored(m) \ Stored(h.seen) : m[k].text = Canonical[h.seen[h.cur].text]

\* A memory outside D says the same as the row r.
SaidOutside(D, r, m) == \E k \in Stored(m) \ D : Canonical[m[k].text] = Canonical[r.text]

\* A consolidation that rebuilt the cache knows every memory, and keeps one of
\* every group of duplicates.
Knows(h, m, c) ==
  /\ h.stage = "upsert" /\ h.op = "consolidate" =>
       h.seen = m /\ Stored(m) \ h.todo \subseteq Stored(c)
  /\ h.scoped =>
       /\ h.pc = "read" => Stored(c) = Stored(m)
       /\ h.stage = "noise" => Stored(h.seen) \ NoiseRows(h.seen) \subseteq Stored(m)
       /\ h.stage = "rewrite" =>
            \A i \in Stored(h.seen) \ (NoiseRows(h.seen) \cup Duplicates(h.seen)) :
              i \in Stored(m) \/ SaidOutside(Stored(h.seen), h.seen[i], m)
       /\ h.stage = "dups" =>
            \A i \in Stored(h.seen) \ NoiseRows(h.seen) :
              SaidOutside(Duplicates(h.seen), h.seen[i], m)

\* A consolidation has the system to itself.
Alone ==
  \A e, f \in Executors : exec[e].op = "consolidate" /\ f # e => exec[f].op = "none"

CopyInv ==
  /\ Alone
  /\ \A e \in Executors :
       Saved(exec[e], mem, forgotten) /\ Knows(exec[e], mem, cache)

\* What other handlers are about to delete is still saved after a step that
\* takes no superseded memory away unless a user forgets it or a consolidation,
\* which is alone, takes the step.
LEMMA OthersGoOn ==
  ASSUME QuietConsolidation, FactInv, CopyInv, NEW e \in Executors, NEW h, Goto(e, h),
         exec[e].op # "none" \/ Begin(e),
         exec[e].op # "none" => forgotten \subseteq forgotten',
         exec[e].op = "consolidate" \/
           \A k \in Stored(mem) : \/ k \in Stored(mem') /\ mem'[k] = mem[k]
                                  \/ mem[k].status # "superseded"
                                  \/ Canonical[mem[k].text] \in forgotten',
         \/ h.op \in {exec[e].op, "none"} \/ h.op # "consolidate"
         \/ \A f \in Executors \ {e} : exec[f].op = "none",
         Saved(h, mem', forgotten'), Knows(h, mem', cache')
  PROVE  CopyInv'
  <1>1. exec'[e] = h /\ \A f \in Executors \ {e} : exec'[f] = exec[f]
    BY DEF FactInv, TypeOK, Goto
  <1>2. \A f \in Executors : exec[f] \in Handler /\ Fits(exec[f])
    BY DEF FactInv, TypeOK
  <1>3. ASSUME NEW f \in Executors \ {e} PROVE exec[f].op # "consolidate" \/ exec[e].op = "none"
    BY DEF CopyInv, Alone
  <1>4. ASSUME NEW f \in Executors \ {e}, exec[e].op = "none"
        PROVE  exec[f].op # "consolidate" /\ (exec[f].op = "none" \/ forgotten' = forgotten)
    BY <1>4 DEF Begin, Busy
  <1>5. ASSUME NEW f \in Executors \ {e}
        PROVE  Saved(exec[f], mem', forgotten') /\ Knows(exec[f], mem', cache')
    <2> DEFINE g == exec[f]
    <2>1. g.op # "consolidate" /\ Fits(g) /\ Saved(g, mem, forgotten)
      BY <1>2, <1>3, <1>4, <1>5 DEF CopyInv
    <2>2. /\ g.op = "none" \/ forgotten \subseteq forgotten'
          /\ exec[e].op = "consolidate" => g.op = "none"
      BY <1>4, <1>5 DEF CopyInv, Alone
    <2> HIDE DEF g
    <2>3. Knows(g, mem', cache')
      BY <2>1 DEF Knows, Fits, Shape
    <2>4. Saved(g, mem', forgotten')
      <3> SUFFICES ASSUME g.pc \in {"cacheCopy", "delete"}
                   PROVE  \/ Canonical[g.seen[g.cur].text] \in forgotten'
                          \/ \E k \in Stored(mem') : /\ mem'[k].status = "superseded"
                                                     /\ mem'[k].text = g.seen[g.cur].text
        BY <2>1 DEF Saved, Fits, Shape
      <3>1. /\ forgotten \subseteq forgotten' /\ g.stage = "archive"
            /\ exec[e].op # "consolidate"
        BY <2>1, <2>2 DEF Fits, Shape
      <3>2. CASE Canonical[g.seen[g.cur].text] \in forgotten
        BY <3>1, <3>2
      <3>3. CASE \E k \in Stored(mem) : /\ mem[k].status = "superseded"
                                        /\ mem[k].text = g.seen[g.cur].text
        BY <3>1, <3>3
      <3>4. QED
        BY <2>1, <3>1, <3>2, <3>3 DEF Saved
    <2>5. QED
      BY <2>3, <2>4 DEF g
  <1>6. Alone'
    <2> SUFFICES ASSUME NEW f \in Executors, NEW k \in Executors,
                        exec'[f].op = "consolidate", k # f
                 PROVE  exec'[k].op = "none"
      BY DEF Alone
    <2>1. CASE f = e
      BY <1>1, <2>1 DEF CopyInv, Alone
    <2>2. CASE f # e
      BY <1>1, <1>3, <1>4, <2>2 DEF CopyInv, Alone
    <2>3. QED
      BY <2>1, <2>2
  <1>7. QED
    BY <1>1, <1>5, <1>6 DEF CopyInv

LEMMA KnowsNothing ==
  ASSUME NEW h, Fits(h), h.op # "consolidate", NEW m, NEW c
  PROVE  Knows(h, m, c)
  BY DEF Knows, Fits, Shape

LEMMA NothingToSave ==
  ASSUME NEW h, h.pc \notin {"cacheCopy", "delete"}, NEW m, NEW F
  PROVE  Saved(h, m, F)
  BY DEF Saved

\* Memories that are added take nothing away.
LEMMA AddedMemory ==
  ASSUME FactInv, NEW j \in FreeIds, NEW r \in Record, mem' = [mem EXCEPT ![j] = r]
  PROVE  /\ j \in Ids /\ j \notin Stored(mem) /\ mem'[j] = r /\ j \in Stored(mem')
         /\ \A k \in Stored(mem) : k \in Stored(mem') /\ mem'[k] = mem[k]
         /\ \A e \in Executors : j \notin Mentions(exec[e])
         /\ Versions(mem) \subseteq Versions(mem')
  <1>1. mem \in Rows /\ j \in Ids /\ j \notin Stored(mem) /\ r # Null
    BY NullIsNothing DEF FactInv, TypeOK, Rows, FreeIds
  <1>2. mem'[j] = r /\ j \in Stored(mem')
    BY <1>1 DEF Rows, Stored
  <1>3. \A k \in Stored(mem) : k \in Stored(mem') /\ mem'[k] = mem[k]
    BY <1>1 DEF Rows, Stored
  <1>4. Versions(mem) \subseteq Versions(mem')
    BY <1>3 DEF Versions
  <1>5. QED
    BY <1>1, <1>2, <1>3, <1>4 DEF FreeIds

\* What goes when a handler deletes a memory: none that is superseded, unless a
\* user forgets it or a consolidation, which is alone, drops or merges it.
LEMMA DeletedMemory ==
  ASSUME FactInv, SameEverywhere, NEW e \in Executors, Delete(e)
  PROVE  \E i \in Targets(exec[e]) :
           /\ mem[i] # Null /\ mem' = [mem EXCEPT ![i] = Null] /\ cache' = cache
           /\ Goto(e, [exec[e] EXCEPT !.pc = "uncache", !.cur = i])
           /\ forgotten \subseteq forgotten'
           /\ exec[e].stage = "forget" => Canonical[mem[i].text] \in forgotten'
           /\ exec[e].stage \in {"archive", "rollback"} => mem[i].status # "superseded"
           /\ i \in Stored(exec[e].seen) =>
                mem[i].text = exec[e].seen[i].text /\ mem[i].status = exec[e].seen[i].status
  <1> DEFINE h == exec[e]
  <1> USE NullIsNothing
  <1>1. PICK i \in Targets(h) :
          /\ mem[i] # Null /\ mem' = [mem EXCEPT ![i] = Null] /\ cache' = cache
          /\ Goto(e, [h EXCEPT !.pc = "uncache", !.cur = i])
          /\ forgotten' = IF h.op = "forget" THEN forgotten \cup {Canonical[mem[i].text]}
                                             ELSE forgotten
    BY DEF Delete
  <1>2. h \in Handler /\ Fits(h) /\ mem \in Rows
    BY DEF FactInv, TypeOK, Rows
  <1>3. PICK C \in Rows : Views(C)
    BY DEF SameEverywhere
  <1>4. HandlerView(h, C) /\ View(mem, C)
    BY <1>3 DEF Views
  <1> HIDE DEF h
  <1>5. i \in Ids /\ i \in h.todo /\ mem[i] \in Record /\ i \in Stored(mem)
    BY <1>1, <1>2, TargetsFit DEF Rows, Stored
  <1>6. SameContent(mem[i], C[i]) /\ C[i] # Null
    BY <1>4, <1>5 DEF View, SameContent, Stored
  <1>7. ASSUME i \in Stored(h.seen)
        PROVE  mem[i].text = h.seen[i].text /\ mem[i].status = h.seen[i].status
    <2>1. SameContent(h.seen[i], C[i]) /\ h.seen[i] # Null
      BY <1>4, <1>7 DEF HandlerView, View, Stored
    <2>2. QED
      BY <1>5, <1>6, <2>1 DEF SameContent
  <1>8. ASSUME h.stage \in {"archive", "rollback"} PROVE mem[i].status # "superseded"
    <2>1. CASE h.stage = "archive"
      BY <1>2, <1>5, <1>7, <2>1 DEF Fits, Chosen, Active
    <2>2. CASE h.stage = "rollback"
      BY <1>4, <1>5, <1>6, <2>2 DEF HandlerView, SameContent
    <2>3. QED
      BY <1>8, <2>1, <2>2
  <1>9. h.stage = "forget" => h.op = "forget"
    BY <1>2 DEF Fits, Shape
  <1>10. QED
    BY <1>1, <1>7, <1>8, <1>9 DEF h

LEMMA StepCopy ==
  ASSUME QuietConsolidation, JudgeIsStable
  PROVE  FactInv /\ SameEverywhere /\ CopyInv /\ [Next]_vars => CopyInv'
  <1> SUFFICES ASSUME FactInv, SameEverywhere, CopyInv, [Next]_vars PROVE CopyInv'
    OBVIOUS
  <1> USE NullIsNothing
  <1>0. /\ mem \in Rows /\ cache \in Rows /\ exec \in [Executors -> Handler]
        /\ clock \in Nat
        /\ \A e \in Executors : /\ Fits(exec[e])
                                /\ Saved(exec[e], mem, forgotten)
                                /\ Knows(exec[e], mem, cache)
    BY DEF FactInv, TypeOK, Rows, CopyInv
  <1>1. FactInv'
    BY StepFact
  <1>2. ASSUME NEW e \in Executors, NEW h, Goto(e, h) PROVE exec'[e] = h /\ Fits(h)
    BY <1>0, <1>1, <1>2 DEF Goto, FactInv
  <1>3. ASSUME NEW e \in Executors, NEW h, Goto(e, h), Begin(e), mem' = mem,
               h.op # "consolidate", h.pc \notin {"cacheCopy", "delete"}
        PROVE  CopyInv'
    <2>1. Saved(h, mem', forgotten') /\ Knows(h, mem', cache')
      BY <1>2, <1>3, NothingToSave, KnowsNothing
    <2>2. exec[e].op = "none"
      BY <1>3 DEF Begin, Busy
    <2>3. QED
      BY <1>3, <2>1, <2>2, OthersGoOn
  <1>4. ASSUME NEW e \in Executors, NEW t \in Texts, BeginStore(e, t) PROVE CopyInv'
    <2> DEFINE seen == [i \in Ids |-> IF i \in ToSupersede(t) THEN cache[i] ELSE Null]
               h == [Idle EXCEPT !.op = "store", !.pc = "add", !.text = t,
                                 !.status = StatusOfNew(t), !.now = clock + 1,
                                 !.todo = ToSupersede(t), !.seen = seen]
    <2>1. h.op = "store" /\ h.pc = "add"
      BY DEF Idle
    <2>2. Goto(e, h) /\ mem' = mem /\ Begin(e)
      BY <1>4 DEF BeginStore
    <2> HIDE DEF h
    <2>3. QED
      BY <1>3, <2>1, <2>2
  <1>5. ASSUME NEW e \in Executors, NEW i \in Ids, BeginForget(e, i) PROVE CopyInv'
    <2> DEFINE h == [Idle EXCEPT !.op = "forget", !.stage = "forget", !.pc = "loop",
                                 !.todo = {i}]
    <2>1. h.op = "forget" /\ h.pc = "loop"
      BY DEF Idle
    <2>2. Goto(e, h) /\ mem' = mem /\ Begin(e)
      BY <1>5 DEF BeginForget
    <2> HIDE DEF h
    <2>3. QED
      BY <1>3, <2>1, <2>2
  <1>6. ASSUME NEW h \in Handler
        PROVE  /\ Rebuilding(h).op = h.op /\ Rebuilding(h).stage = "upsert"
               /\ Rebuilding(h).pc = "loop" /\ Rebuilding(h).seen = mem
               /\ Rebuilding(h).todo = Stored(mem)
    BY DEF Rebuilding, Handler
  <1>7. ASSUME NEW e \in Executors, BeginRebuild(e) PROVE CopyInv'
    <2> DEFINE g == [Idle EXCEPT !.op = "rebuild"]
    <2>1. g \in Handler /\ g.op = "rebuild"
      BY IdleFits DEF Fits, Handler, Ops
    <2>2. Goto(e, Rebuilding(g)) /\ mem' = mem /\ Begin(e)
      BY <1>7 DEF BeginRebuild
    <2> HIDE DEF g
    <2>3. QED
      BY <1>3, <1>6, <2>1, <2>2
  <1>8. ASSUME NEW e \in Executors, NEW r \in Requests, BeginConsolidation(e, r[1], r[2])
        PROVE  CopyInv'
    <2> DEFINE g == [Idle EXCEPT !.op = "consolidate", !.scoped = r[1], !.dedupe = r[2]]
               k == [g EXCEPT !.pc = "read"]
               h == IF r[1] THEN Rebuilding(g) ELSE k
    <2>1. /\ Goto(e, h) /\ mem' = mem /\ cache' = cache /\ Begin(e)
          /\ \A f \in Executors : exec[f].op = "none"
      BY <1>8 DEF BeginConsolidation, Busy
    <2>2. /\ g \in Handler /\ g.stage = "none" /\ g.scoped = r[1]
          /\ k.scoped = r[1] /\ k.stage = "none" /\ k.pc = "read"
      <3>1. r[1] \in BOOLEAN /\ r[2] \in BOOLEAN
        BY FactConstantsOK
      <3>2. Idle \in Handler /\ Idle.stage = "none"
        BY IdleFits DEF Fits, Idle
      <3>3. g \in Handler /\ g.stage = "none" /\ g.scoped = r[1]
        BY <3>1, <3>2 DEF Handler, Ops
      <3> HIDE DEF g
      <3>4. QED
        BY <3>3 DEF Handler
    <2> HIDE DEF g, k
    <2>3. Knows(h, mem', cache') /\ h.pc \notin {"cacheCopy", "delete"}
      <3>1. CASE r[1]
        BY <1>6, <2>1, <2>2, <3>1 DEF Knows
      <3>2. CASE ~r[1]
        BY <2>2, <3>2 DEF Knows
      <3>3. QED
        BY <3>1, <3>2
    <2> HIDE DEF h
    <2>4. Saved(h, mem', forgotten')
      BY <2>3, NothingToSave
    <2>5. QED
      BY <2>1, <2>3, <2>4, OthersGoOn
  <1>9. ASSUME NEW e \in Executors, AddNew(e) PROVE CopyInv'
    <2> DEFINE g == exec[e]
               h(i) == [g EXCEPT !.pc = "cacheNew", !.new = i]
    <2>1. PICK i \in FreeIds : mem' = [mem EXCEPT ![i] = NewRecord(g, clock)] /\ Goto(e, h(i))
      BY <1>9 DEF AddNew
    <2>2. /\ g \in Handler /\ Fits(g) /\ g.pc = "add" /\ cache' = cache
          /\ forgotten' = forgotten /\ g.op = "store"
      BY <1>0, <1>9 DEF AddNew, Fits, Shape
    <2>3. NewRecord(g, clock) \in Record
      BY <1>0, <2>2, NewRecordType DEF Fits, Shape
    <2>4. h(i).op = "store" /\ h(i).pc = "cacheNew" /\ Fits(h(i))
      <3>1. Fits(h(i))
        BY <1>2, <2>1
      <3> HIDE DEF g
      <3>2. QED
        BY <2>2, <3>1 DEF Handler
    <2>5. \A k \in Stored(mem) : k \in Stored(mem') /\ mem'[k] = mem[k]
      BY <2>1, <2>3, AddedMemory
    <2> HIDE DEF h
    <2>6. Saved(h(i), mem', forgotten') /\ Knows(h(i), mem', cache')
      BY <2>4, NothingToSave, KnowsNothing
    <2>7. QED
      BY <2>1, <2>2, <2>4, <2>5, <2>6, OthersGoOn
  <1>10. ASSUME NEW e \in Executors, CacheNew(e) PROVE CopyInv'
    <2> DEFINE g == exec[e]
               h == [g EXCEPT !.pc = "loop", !.stage = "archive"]
    <2>1. /\ g \in Handler /\ Fits(g) /\ g.op = "store" /\ Goto(e, h) /\ mem' = mem
          /\ forgotten' = forgotten
      BY <1>0, <1>10 DEF CacheNew, Fits, Shape
    <2>2. h.op = "store" /\ h.pc = "loop" /\ Fits(h)
      <3>1. Fits(h)
        BY <1>2, <2>1
      <3> HIDE DEF g
      <3>2. QED
        BY <2>1, <3>1 DEF Handler
    <2> HIDE DEF h
    <2>3. Saved(h, mem', forgotten') /\ Knows(h, mem', cache')
      BY <2>2, NothingToSave, KnowsNothing
    <2>4. QED
      BY <2>1, <2>2, <2>3, OthersGoOn
  <1>11. ASSUME NEW e \in Executors, UpsertItem(e) PROVE CopyInv'
    <2> DEFINE g == exec[e]
               h(i) == [g EXCEPT !.todo = @ \ {i}]
    <2>1. PICK i \in g.todo : /\ cache' = [cache EXCEPT ![i] = Upserted(@, g.seen[i])]
                              /\ Goto(e, h(i))
      BY <1>11 DEF UpsertItem
    <2>2. /\ g \in Handler /\ Fits(g) /\ Knows(g, mem, cache) /\ g.stage = "upsert"
          /\ mem' = mem /\ forgotten' = forgotten
      BY <1>0, <1>11 DEF UpsertItem
    <2> HIDE DEF g
    <2>3. i \in Ids /\ g.seen[i] \in Record /\ g.op # "none"
      BY <2>2 DEF Fits, Shape, Chosen, Handler, Stored
    <2>4. Upserted(cache[i], g.seen[i]) # Null
      BY <1>0, <2>3, UpsertedRow DEF Rows
    <2>5. Stored(cache') = Stored(cache) \cup {i}
      BY <1>0, <2>1, <2>3, <2>4 DEF Rows, Stored
    <2>6. /\ h(i).seen = g.seen /\ h(i).pc = "loop" /\ h(i).stage = "upsert"
          /\ h(i).op = g.op /\ h(i).todo = g.todo \ {i}
      BY <2>2 DEF Handler, Fits, Shape
    <2> HIDE DEF h
    <2>7. Knows(h(i), mem', cache')
      BY <2>2, <2>5, <2>6 DEF Knows
    <2>8. Saved(h(i), mem', forgotten')
      BY <2>6, NothingToSave
    <2>9. QED
      BY <2>1, <2>2, <2>3, <2>6, <2>7, <2>8, OthersGoOn DEF g
  <1>12. ASSUME NEW e \in Executors, NEW h, h.op = "none", h.pc = "idle", Goto(e, h),
                exec[e].op # "none", mem' = mem, forgotten' = forgotten
         PROVE  CopyInv'
    <2>1. Saved(h, mem', forgotten') /\ Knows(h, mem', cache')
      BY <1>2, <1>12, NothingToSave, KnowsNothing
    <2>2. QED
      BY <1>12, <2>1, OthersGoOn
  <1>13. ASSUME NEW e \in Executors, Prune(e) PROVE CopyInv'
    <2> DEFINE g == exec[e]
               h == [g EXCEPT !.stage = "none", !.pc = "read", !.seen = NoRecords]
    <2>1. /\ g \in Handler /\ Fits(g) /\ g.stage = "upsert" /\ g.todo = {}
          /\ mem' = mem /\ forgotten' = forgotten /\ Knows(g, mem, cache)
          /\ Goto(e, IF g.op = "rebuild" THEN Idle ELSE h)
          /\ cache' = [i \in Ids |-> IF i \in KeptByPrune(g) THEN cache[i] ELSE Null]
      BY <1>0, <1>13 DEF Prune
    <2>2. g.op \in {"rebuild", "consolidate"}
      BY <2>1 DEF Fits, Shape
    <2>3. CASE g.op = "rebuild"
      <3>1. Goto(e, Idle) /\ Idle.op = "none" /\ Idle.pc = "idle"
        BY <2>1, <2>3 DEF Idle
      <3> HIDE DEF g
      <3>2. QED
        BY <1>12, <2>1, <2>2, <3>1 DEF g
    <2>4. CASE g.op = "consolidate"
      <3>1. Goto(e, h)
        BY <2>1, <2>4
      <3> HIDE DEF g
      <3>2. g.seen = mem /\ Stored(mem) \subseteq Stored(cache)
        BY <2>1, <2>4 DEF Knows
      <3>3. Stored(cache') = Stored(mem)
        BY <2>1, <3>2 DEF KeptByPrune, Stored
      <3>4. h.op = "consolidate" /\ h.stage = "none" /\ h.pc = "read"
        BY <2>1, <2>4 DEF Handler
      <3> HIDE DEF h
      <3>5. Knows(h, mem', cache') /\ Saved(h, mem', forgotten')
        BY <2>1, <3>3, <3>4, NothingToSave DEF Knows
      <3>6. QED
        BY <2>1, <2>4, <3>1, <3>4, <3>5, OthersGoOn DEF g
    <2>5. QED
      BY <2>2, <2>3, <2>4
  <1>14. ASSUME NEW e \in Executors, ReadRows(e) PROVE CopyInv'
    <2> DEFINE g == exec[e]
               h == [g EXCEPT !.stage = "noise", !.pc = "loop", !.seen = cache,
                              !.todo = NoiseRows(cache)]
               k == [g EXCEPT !.pc = "select"]
               l == IF g.dedupe THEN h ELSE k
    <2>1. /\ g \in Handler /\ Fits(g) /\ g.pc = "read" /\ Goto(e, l) /\ mem' = mem
          /\ cache' = cache /\ forgotten' = forgotten /\ Knows(g, mem, cache)
      BY <1>0, <1>14 DEF ReadRows
    <2> HIDE DEF g
    <2>2. g.op = "consolidate"
      BY <2>1 DEF Fits, Shape
    <2>3. /\ h.seen = cache /\ h.pc = "loop" /\ h.stage = "noise" /\ h.op = g.op
          /\ h.scoped = g.scoped
          /\ k.pc = "select" /\ k.stage = "none" /\ k.op = g.op
      BY <2>1, <2>2 DEF Handler, Fits, Shape
    <2> HIDE DEF h, k
    <2>4. Knows(l, mem', cache') /\ Saved(l, mem', forgotten') /\ l.op = g.op
      <3>1. Knows(h, mem', cache') /\ Knows(k, mem', cache')
        BY <2>1, <2>3 DEF Knows
      <3>2. QED
        BY <2>3, <3>1, NothingToSave
    <2> HIDE DEF l
    <2>5. QED
      BY <2>1, <2>2, <2>4, OthersGoOn DEF g
  <1>15. ASSUME NEW e \in Executors, SelectActive(e) PROVE CopyInv'
    <2> DEFINE g == exec[e]
               h == [g EXCEPT !.stage = "archive", !.pc = "loop", !.seen = cache,
                              !.todo = IF auto THEN OlderActive(cache) ELSE {}]
    <2>1. /\ g \in Handler /\ Fits(g) /\ g.pc = "select" /\ Goto(e, h)
          /\ mem' = mem /\ forgotten' = forgotten
      BY <1>0, <1>15 DEF SelectActive
    <2> HIDE DEF g
    <2>2. h.pc = "loop" /\ h.stage = "archive" /\ h.op = g.op /\ g.op # "none"
      BY <2>1 DEF Handler, Fits, Shape
    <2> HIDE DEF h
    <2>3. Knows(h, mem', cache') /\ Saved(h, mem', forgotten')
      BY <2>2, NothingToSave DEF Knows
    <2>4. QED
      BY <2>1, <2>2, <2>3, OthersGoOn DEF g
  <1>16. ASSUME NEW e \in Executors, GetItem(e) PROVE CopyInv'
    <2> DEFINE g == exec[e]
               h(i) == [g EXCEPT !.pc = IF mem[i] = Null THEN "uncache" ELSE "copy",
                                 !.cur = i, !.item = mem[i]]
    <2>1. /\ g \in Handler /\ Fits(g) /\ g.stage = "archive" /\ g.pc = "loop"
          /\ mem' = mem /\ forgotten' = forgotten
      BY <1>0, <1>16 DEF GetItem
    <2>2. PICK i \in g.todo : Goto(e, h(i))
      BY <1>16 DEF GetItem
    <2> HIDE DEF g
    <2>3. /\ h(i).stage = "archive" /\ h(i).op = g.op /\ g.op # "none"
          /\ h(i).pc \in {"uncache", "copy"}
      BY <2>1 DEF Handler, Fits, Shape
    <2> HIDE DEF h
    <2>4. Knows(h(i), mem', cache') /\ Saved(h(i), mem', forgotten')
      BY <2>3, NothingToSave DEF Knows
    <2>5. QED
      BY <2>1, <2>2, <2>3, <2>4, OthersGoOn DEF g
  <1>17. ASSUME NEW e \in Executors, AddRewritten(e) PROVE CopyInv'
    <2> DEFINE g == exec[e]
               r(i) == [g.seen[i] EXCEPT !.text = Canonical[g.seen[i].text],
                                         !.created = clock]
               h(i, j) == [g EXCEPT !.pc = "cacheCopy", !.cur = i, !.copy = j,
                                    !.item = r(i)]
    <2>1. /\ g \in Handler /\ Fits(g) /\ g.stage = "rewrite" /\ Knows(g, mem, cache)
          /\ forgotten' = forgotten
      BY <1>0, <1>17 DEF AddRewritten
    <2>2. PICK i \in g.todo, j \in FreeIds :
            mem' = [mem EXCEPT ![j] = r(i)] /\ Goto(e, h(i, j))
      BY <1>17 DEF AddRewritten
    <2>3. r(i) \in Record /\ g.seen[i] \in Record
      BY <1>0, <2>1, RewrittenType
    <2>4. /\ mem'[j] = r(i) /\ j \in Stored(mem') /\ j \notin Stored(g.seen)
          /\ \A k \in Stored(mem) : k \in Stored(mem') /\ mem'[k] = mem[k]
      BY <2>2, <2>3, AddedMemory DEF Mentions
    <2>5. mem'[j].text = Canonical[g.seen[i].text]
      BY <2>3, <2>4 DEF Record
    <2> HIDE DEF g, r
    <2>6. /\ h(i, j).op = g.op /\ h(i, j).pc = "cacheCopy" /\ h(i, j).stage = "rewrite"
          /\ h(i, j).cur = i /\ h(i, j).seen = g.seen /\ h(i, j).scoped = g.scoped
          /\ g.op = "consolidate"
      BY <2>1 DEF Handler, Fits, Shape
    <2> HIDE DEF h
    <2>7. Saved(h(i, j), mem', forgotten')
      BY <2>4, <2>5, <2>6 DEF Saved
    <2>8. ASSUME NEW D, NEW q, SaidOutside(D, q, mem) PROVE SaidOutside(D, q, mem')
      BY <2>4, <2>8 DEF SaidOutside
    <2>9. Knows(h(i, j), mem', cache')
      BY <2>1, <2>4, <2>6, <2>8 DEF Knows
    <2>10. QED
      BY <2>1, <2>2, <2>6, <2>7, <2>9, OthersGoOn DEF g
  <1>18. ASSUME NEW e \in Executors, AddArchived(e) PROVE CopyInv'
    <2> DEFINE g == exec[e]
               r == [g.item EXCEPT !.status = "superseded", !.created = clock]
               h(j) == [g EXCEPT !.pc = "cacheCopy", !.copy = j, !.item = r]
    <2>1. /\ g \in Handler /\ Fits(g) /\ g.pc = "copy" /\ g.item \in Record
          /\ g.stage = "archive" /\ g.cur \in g.todo /\ g.op # "none"
          /\ forgotten' = forgotten
      BY <1>0, <1>18 DEF AddArchived, Fits, Shape, Handler
    <2>2. PICK j \in FreeIds : mem' = [mem EXCEPT ![j] = r] /\ Goto(e, h(j))
      BY <1>18 DEF AddArchived
    <2>3. r \in Record /\ r.status = "superseded" /\ r.text = g.item.text
      BY <1>0, <2>1 DEF Record, FactStatuses
    <2>4. g.item.text = g.seen[g.cur].text
      <3>1. PICK C \in Rows : HandlerView(g, C)
        BY DEF SameEverywhere, Views
      <3>2. g.cur \in Stored(g.seen)
        BY <2>1 DEF Fits, Chosen, Active
      <3>3. SameContent(g.item, C[g.cur]) /\ SameContent(g.seen[g.cur], C[g.cur])
        BY <2>1, <3>1, <3>2 DEF HandlerView, View
      <3>4. QED
        BY <2>1, <3>2, <3>3 DEF SameContent, Stored
    <2>5. /\ mem'[j] = r /\ j \in Stored(mem')
          /\ \A k \in Stored(mem) : k \in Stored(mem') /\ mem'[k] = mem[k]
      BY <2>2, <2>3, AddedMemory
    <2> HIDE DEF g, r
    <2>6. /\ h(j).op = g.op /\ h(j).pc = "cacheCopy" /\ h(j).stage = "archive"
          /\ h(j).cur = g.cur /\ h(j).seen = g.seen
      BY <2>1 DEF Handler
    <2> HIDE DEF h
    <2>7. Saved(h(j), mem', forgotten')
      BY <2>3, <2>4, <2>5, <2>6 DEF Saved
    <2>8. Knows(h(j), mem', cache')
      BY <2>6 DEF Knows
    <2>9. QED
      BY <2>1, <2>2, <2>5, <2>6, <2>7, <2>8, OthersGoOn DEF g
  <1>19. ASSUME NEW e \in Executors, CacheCopy(e) PROVE CopyInv'
    <2> DEFINE g == exec[e]
               h == [g EXCEPT !.pc = "delete", !.copy = Null, !.item = Null]
    <2>1. /\ g \in Handler /\ Fits(g) /\ g.pc = "cacheCopy" /\ Goto(e, h)
          /\ mem' = mem /\ forgotten' = forgotten
          /\ Saved(g, mem, forgotten) /\ Knows(g, mem, cache)
      BY <1>0, <1>19 DEF CacheCopy
    <2> HIDE DEF g
    <2>2. /\ h.op = g.op /\ h.pc = "delete" /\ h.stage = g.stage /\ h.cur = g.cur
          /\ h.seen = g.seen /\ h.scoped = g.scoped /\ h.todo = g.todo
          /\ g.op # "none" /\ g.stage \in {"archive", "rewrite"}
      BY <2>1 DEF Handler, Fits, Shape
    <2> HIDE DEF h
    <2>3. Saved(h, mem', forgotten')
      BY <2>1, <2>2 DEF Saved
    <2>4. Knows(h, mem', cache')
      BY <2>1, <2>2 DEF Knows
    <2>5. QED
      BY <2>1, <2>2, <2>3, <2>4, OthersGoOn DEF g
  <1>20. ASSUME NEW e \in Executors, Uncache(e) PROVE CopyInv'
    <2> DEFINE g == exec[e]
               h == [g EXCEPT !.pc = "loop", !.todo = @ \ {g.cur}, !.cur = Null,
                              !.item = Null]
    <2>1. /\ g \in Handler /\ Fits(g) /\ g.pc = "uncache" /\ Goto(e, h)
          /\ mem' = mem /\ forgotten' = forgotten /\ Knows(g, mem, cache)
      BY <1>0, <1>20 DEF Uncache
    <2> HIDE DEF g
    <2>2. /\ h.op = g.op /\ h.pc = "loop" /\ h.stage = g.stage
          /\ h.seen = g.seen /\ h.scoped = g.scoped
          /\ g.op # "none" /\ g.stage # "upsert"
      BY <2>1 DEF Handler, Fits, Shape
    <2> HIDE DEF h
    <2>3. Saved(h, mem', forgotten') /\ Knows(h, mem', cache')
      BY <2>1, <2>2, NothingToSave DEF Knows
    <2>4. QED
      BY <2>1, <2>2, <2>3, OthersGoOn DEF g
  <1>21. ASSUME NEW e \in Executors, NEW i, Goto(e, Raised(exec[e], i)),
                exec[e].op # "none", mem' = mem, forgotten' = forgotten
         PROVE  CopyInv'
    <2> DEFINE g == exec[e]
               k == [Idle EXCEPT !.op = "store", !.stage = "rollback", !.pc = "loop",
                                 !.todo = {g.new}]
               h == [g EXCEPT !.pc = "loop", !.failed = TRUE, !.todo = @ \ {i},
                              !.cur = Null, !.copy = Null, !.item = Null]
    <2>1. g \in Handler /\ Fits(g) /\ Knows(g, mem, cache)
      BY <1>0
    <2>2. CASE g.op = "store" /\ g.stage = "archive"
      <3>1. Goto(e, k)
        BY <1>21, <2>2 DEF Raised
      <3>2. k.op = "store" /\ k.pc = "loop"
        BY DEF Idle
      <3> HIDE DEF k
      <3>3. Saved(k, mem', forgotten') /\ Knows(k, mem', cache')
        BY <1>2, <3>1, <3>2, NothingToSave, KnowsNothing
      <3>4. QED
        BY <1>21, <3>1, <3>2, <3>3, OthersGoOn
    <2>3. CASE ~(g.op = "store" /\ g.stage = "archive") /\ g.stage = "rewrite"
      <3>1. Goto(e, h)
        BY <1>21, <2>3 DEF Raised
      <3> HIDE DEF g
      <3>2. /\ h.op = g.op /\ h.seen = g.seen /\ h.pc = "loop" /\ h.stage = "rewrite"
            /\ h.scoped = g.scoped
        BY <2>1, <2>3 DEF Handler
      <3> HIDE DEF h
      <3>3. Saved(h, mem', forgotten') /\ Knows(h, mem', cache')
        BY <1>21, <2>1, <2>3, <3>2, NothingToSave DEF Knows
      <3>4. QED
        BY <1>21, <3>1, <3>2, <3>3, OthersGoOn DEF g
    <2>4. CASE ~(g.op = "store" /\ g.stage = "archive") /\ g.stage # "rewrite"
      <3>1. Goto(e, Idle) /\ Idle.op = "none" /\ Idle.pc = "idle"
        BY <1>21, <2>4 DEF Raised, Idle
      <3>2. QED
        BY <1>12, <1>21, <3>1
    <2>5. QED
      BY <2>2, <2>3, <2>4
  <1>22. ASSUME NEW e \in Executors, DeleteRaises(e) PROVE CopyInv'
    <2>1. exec[e].op # "none"
      BY <1>0, <1>22, TargetsFit DEF DeleteRaises
    <2>2. QED
      BY <1>21, <1>22, <2>1 DEF DeleteRaises
  <1>23. ASSUME NEW e \in Executors, CallFails(e) PROVE CopyInv'
    <2>1. exec[e].op # "none"
      BY <1>0, <1>23 DEF CallFails, Fits, Shape
    <2>2. QED
      BY <1>21, <1>23, <2>1 DEF CallFails
  <1>24. ASSUME NEW e \in Executors, EndLoop(e) PROVE CopyInv'
    <2> DEFINE g == exec[e]
               h == AfterLoop(g)
    <2>1. /\ g \in Handler /\ Fits(g) /\ Knows(g, mem, cache) /\ g.pc = "loop"
          /\ g.stage # "upsert" /\ Goto(e, h) /\ mem' = mem /\ forgotten' = forgotten
      BY <1>0, <1>24 DEF EndLoop
    <2>2. PICK C \in Rows : HandlerView(g, C) /\ View(mem, C)
      BY DEF SameEverywhere, Views
    <2> HIDE DEF g
    <2>3. g.op # "none" /\ g.seen \in Rows
      BY <2>1 DEF Fits, Shape, Handler, Rows
    <2>4. CASE g.stage = "noise"
      <3>1. /\ h.op = g.op /\ h.seen = g.seen /\ h.scoped = g.scoped
            /\ h.stage = "rewrite" /\ h.pc = "loop"
        BY <2>1, <2>4 DEF AfterLoop, Handler
      <3> HIDE DEF h
      <3>2. Knows(h, mem', cache') /\ Saved(h, mem', forgotten')
        BY <2>1, <2>4, <3>1, NothingToSave DEF Knows
      <3>3. QED
        BY <2>1, <2>3, <3>1, <3>2, OthersGoOn DEF g
    <2>5. CASE g.stage = "rewrite" /\ ~g.failed
      <3>1. /\ h.op = g.op /\ h.seen = g.seen /\ h.scoped = g.scoped
            /\ h.stage = "dups" /\ h.pc = "loop"
        BY <2>1, <2>5 DEF AfterLoop, Handler
      <3>2. ASSUME g.scoped, NEW i \in Stored(g.seen) \ NoiseRows(g.seen)
            PROVE  SaidOutside(Duplicates(g.seen), g.seen[i], mem)
        <4>1. PICK m \in Stored(g.seen) \ (NoiseRows(g.seen) \cup Duplicates(g.seen)) :
                SameFact(g.seen[m], g.seen[i])
          BY <2>3, FirstOfGroup
        <4>2. CASE m \in Stored(mem)
          <5>1. SameContent(g.seen[m], C[m]) /\ SameContent(mem[m], C[m])
            BY <2>2, <4>2 DEF HandlerView, View
          <5>2. mem[m].text = g.seen[m].text
            BY <4>2, <5>1 DEF SameContent, Stored
          <5>3. QED
            BY <4>1, <4>2, <5>2 DEF SaidOutside, SameFact
        <4>3. CASE SaidOutside(Stored(g.seen), g.seen[m], mem)
          <5>1. Duplicates(g.seen) \subseteq Stored(g.seen)
            BY DEF Duplicates
          <5>2. QED
            BY <4>1, <4>3, <5>1 DEF SaidOutside, SameFact
        <4>4. QED
          BY <2>1, <2>5, <3>2, <4>1, <4>2, <4>3 DEF Knows
      <3> HIDE DEF h
      <3>3. Knows(h, mem', cache') /\ Saved(h, mem', forgotten')
        BY <2>1, <3>1, <3>2, NothingToSave DEF Knows
      <3>4. QED
        BY <2>1, <2>3, <3>1, <3>3, OthersGoOn DEF g
    <2>6. CASE g.stage = "dups"
      <3>1. h.op = g.op /\ h.stage = "none" /\ h.pc = "select"
        BY <2>1, <2>6 DEF AfterLoop, Handler
      <3> HIDE DEF h
      <3>2. Knows(h, mem', cache') /\ Saved(h, mem', forgotten')
        BY <3>1, NothingToSave DEF Knows
      <3>3. QED
        BY <2>1, <2>3, <3>1, <3>2, OthersGoOn DEF g
    <2>7. CASE g.stage \notin {"noise", "rewrite", "dups"} \/ (g.stage = "rewrite" /\ g.failed)
      <3>1. h = Idle /\ Idle.op = "none" /\ Idle.pc = "idle"
        BY <2>7 DEF AfterLoop, Idle
      <3>2. QED
        BY <1>12, <2>1, <2>3, <3>1 DEF g
    <2>8. QED
      BY <2>1, <2>4, <2>5, <2>6, <2>7 DEF Handler
  <1>25. ASSUME NEW e \in Executors, Delete(e) PROVE CopyInv'
    <2> DEFINE g == exec[e]
               h(i) == [g EXCEPT !.pc = "uncache", !.cur = i]
    <2>1. PICK i \in Targets(g) :
            /\ mem[i] # Null /\ mem' = [mem EXCEPT ![i] = Null] /\ cache' = cache
            /\ Goto(e, h(i)) /\ forgotten \subseteq forgotten'
            /\ g.stage = "forget" => Canonical[mem[i].text] \in forgotten'
            /\ g.stage \in {"archive", "rollback"} => mem[i].status # "superseded"
      BY <1>25, DeletedMemory
    <2>2. /\ g \in Handler /\ Fits(g) /\ Knows(g, mem, cache) /\ Saved(g, mem, forgotten)
      BY <1>0
    <2> HIDE DEF g
    <2>3. /\ i \in Ids /\ i \in g.todo /\ g.op # "none"
          /\ \/ g.pc = "loop" /\ g.stage \in {"noise", "dups", "forget", "rollback"}
             \/ g.pc = "delete" /\ g.stage \in {"archive", "rewrite"} /\ i = g.cur
      BY <2>1, <2>2, TargetsFit
    <2>4. \A k \in Stored(mem) \ {i} : k \in Stored(mem') /\ mem'[k] = mem[k]
      BY <1>0, <2>1 DEF Rows, Stored
    <2>5. /\ h(i).op = g.op /\ h(i).seen = g.seen /\ h(i).scoped = g.scoped
          /\ h(i).pc = "uncache" /\ h(i).stage = g.stage /\ h(i).todo = g.todo
      BY <2>2 DEF Handler
    <2>6. g.op = "consolidate" \/ g.stage \in {"forget", "archive", "rollback"}
      BY <2>2, <2>3 DEF Fits, Shape
    <2> HIDE DEF h
    <2>7. ASSUME NEW D, NEW r, i \in D, SaidOutside(D, r, mem) PROVE SaidOutside(D, r, mem')
      BY <2>4, <2>7 DEF SaidOutside
    <2>8. Knows(h(i), mem', cache')
      <3>1. CASE g.stage = "noise"
        <4>1. i \in NoiseRows(g.seen)
          BY <2>2, <2>3, <3>1 DEF Fits, Chosen
        <4>2. QED
          BY <2>2, <2>4, <2>5, <3>1, <4>1 DEF Knows
      <3>2. CASE g.stage = "rewrite"
        <4>1. /\ i \in Stored(g.seen)
              /\ Canonical[Canonical[g.seen[i].text]] = Canonical[g.seen[i].text]
          <5>1. i \in Stored(g.seen)
            BY <2>2, <2>3, <3>2 DEF Fits, Chosen, Rewrites
          <5>2. g.seen[i] \in Record /\ Canonical[g.seen[i].text] \in Texts
            BY <1>0, <2>2, <2>3, <3>2, RewrittenType
          <5>3. QED
            BY <5>1, <5>2 DEF JudgeIsStable, Record
        <4>2. SaidOutside(Stored(g.seen), g.seen[i], mem)
          BY <2>2, <2>3, <3>2, <4>1 DEF Saved, SaidOutside
        <4>3. \A k \in Stored(g.seen) \ (NoiseRows(g.seen) \cup Duplicates(g.seen)) :
                g.scoped => k \in Stored(mem') \/ SaidOutside(Stored(g.seen), g.seen[k], mem')
          BY <2>2, <2>4, <2>7, <3>2, <4>1, <4>2 DEF Knows
        <4>4. QED
          BY <2>5, <3>2, <4>3 DEF Knows
      <3>3. CASE g.stage = "dups"
        <4>1. i \in Duplicates(g.seen)
          BY <2>2, <2>3, <3>3 DEF Fits, Chosen
        <4>2. QED
          BY <2>2, <2>5, <2>7, <3>3, <4>1 DEF Knows
      <3>4. CASE g.stage \in {"forget", "archive", "rollback"}
        BY <2>5, <3>4 DEF Knows
      <3>5. QED
        BY <2>3, <3>1, <3>2, <3>3, <3>4
    <2>9. Saved(h(i), mem', forgotten')
      BY <2>5, NothingToSave
    <2>10. g.op = "consolidate" \/
             \A k \in Stored(mem) : \/ k \in Stored(mem') /\ mem'[k] = mem[k]
                                    \/ mem[k].status # "superseded"
                                    \/ Canonical[mem[k].text] \in forgotten'
      BY <2>1, <2>4, <2>6
    <2>11. QED
      BY <2>1, <2>3, <2>5, <2>8, <2>9, <2>10, OthersGoOn DEF g
  <1>26. CASE Crash
    <2>1. Idle.op = "none" /\ Idle.pc = "idle" /\ \A e \in Executors : exec'[e] = Idle
      BY <1>26 DEF Idle, Crash
    <2>2. ASSUME NEW e \in Executors
          PROVE  Saved(exec'[e], mem', forgotten') /\ Knows(exec'[e], mem', cache')
      BY <2>1, IdleFits, NothingToSave, KnowsNothing
    <2>3. QED
      BY <2>1, <2>2 DEF CopyInv, Alone
  <1>27. CASE UNCHANGED vars
    BY <1>27 DEF vars, CopyInv, Alone
  <1>28. QED
    BY <1>4, <1>5, <1>7, <1>8, <1>9, <1>10, <1>11, <1>13, <1>14, <1>15, <1>16, <1>17,
       <1>18, <1>19, <1>20, <1>22, <1>23, <1>24, <1>25, <1>26, <1>27 DEF Next, Proceed

LEMMA InitCopy == Init => CopyInv
  <1> SUFFICES ASSUME Init PROVE CopyInv
    OBVIOUS
  <1>1. Idle.op = "none" /\ Idle.pc = "idle" /\ \A e \in Executors : exec[e] = Idle
    BY DEF Idle, Init
  <1>2. ASSUME NEW e \in Executors
        PROVE  Saved(exec[e], mem, forgotten) /\ Knows(exec[e], mem, cache)
    BY <1>1, IdleFits, NothingToSave, KnowsNothing
  <1>3. QED
    BY <1>1, <1>2 DEF CopyInv, Alone

\* Only a delete can lose a version, and then the version is somewhere else.
LEMMA DeleteLosesNothing ==
  ASSUME JudgeIsStable, FactInv, SameEverywhere, CopyInv, NEW e \in Executors, Delete(e),
         NEW v \in Versions(mem), v \notin Versions(mem'), v \notin forgotten'
  PROVE  (TakingBack(e) \/ TrustingCache(e)) /\ exec'[e] # exec[e]
  <1> DEFINE g == exec[e]
  <1> USE NullIsNothing
  <1>1. PICK i \in Targets(g) :
          /\ mem[i] # Null /\ mem' = [mem EXCEPT ![i] = Null] /\ cache' = cache
          /\ Goto(e, [g EXCEPT !.pc = "uncache", !.cur = i])
          /\ forgotten \subseteq forgotten'
          /\ g.stage = "forget" => Canonical[mem[i].text] \in forgotten'
          /\ g.stage \in {"archive", "rollback"} => mem[i].status # "superseded"
          /\ i \in Stored(g.seen) =>
               mem[i].text = g.seen[i].text /\ mem[i].status = g.seen[i].status
    BY DeletedMemory
  <1>2. /\ g \in Handler /\ Fits(g) /\ Knows(g, mem, cache) /\ Saved(g, mem, forgotten)
        /\ mem \in Rows /\ exec \in [Executors -> Handler]
    BY DEF FactInv, TypeOK, CopyInv, Rows
  <1>3. exec'[e] # exec[e]
    <2>1. exec'[e].pc = "uncache"
      BY <1>1, <1>2 DEF Goto, Handler
    <2>2. exec[e].pc # "uncache"
      BY <1>1 DEF Targets
    <2>3. QED
      BY <2>1, <2>2
  <1>4. SUFFICES ASSUME ~TakingBack(e), ~TrustingCache(e) PROVE FALSE
    BY <1>3
  <1>5. g.stage # "rollback" /\ (g.stage = "dups" => g.scoped)
    BY <1>1, <1>4 DEF TakingBack, TrustingCache
  <1> HIDE DEF g
  <1>6. /\ i \in Ids /\ i \in g.todo /\ g.op # "none"
        /\ \/ g.pc = "loop" /\ g.stage \in {"noise", "dups", "forget", "rollback"}
           \/ g.pc = "delete" /\ g.stage \in {"archive", "rewrite"} /\ i = g.cur
    BY <1>1, <1>2, TargetsFit
  <1>7. \A k \in Stored(mem) \ {i} : k \in Stored(mem') /\ mem'[k] = mem[k]
    BY <1>1, <1>2 DEF Rows, Stored
  <1>8. v # Null /\ v = Canonical[mem[i].text] /\ \A k \in Stored(mem) \ {i} :
          v # Canonical[mem[k].text]
    BY <1>7 DEF Versions
  <1>9. CASE g.stage = "noise"
    <2>1. i \in NoiseRows(g.seen)
      BY <1>2, <1>6, <1>9 DEF Fits, Chosen
    <2>2. QED
      BY <1>1, <1>8, <2>1 DEF NoiseRows
  <1>10. CASE g.stage = "dups"
    <2>1. i \in Duplicates(g.seen) /\ i \in Stored(g.seen) \ NoiseRows(g.seen)
      BY <1>2, <1>6, <1>10 DEF Fits, Chosen, Duplicates
    <2>2. SaidOutside(Duplicates(g.seen), g.seen[i], mem)
      BY <1>2, <1>5, <1>10, <2>1 DEF Knows
    <2>3. QED
      BY <1>1, <1>8, <2>1, <2>2 DEF SaidOutside
  <1>11. CASE g.stage = "forget"
    BY <1>1, <1>8, <1>11
  <1>12. CASE g.stage = "archive"
    <2>1. i \in Stored(g.seen)
      BY <1>2, <1>6, <1>12 DEF Fits, Chosen, Active
    <2>2. CASE Canonical[g.seen[g.cur].text] \in forgotten
      BY <1>1, <1>6, <1>8, <1>12, <2>1, <2>2
    <2>3. CASE \E k \in Stored(mem) : /\ mem[k].status = "superseded"
                                      /\ mem[k].text = g.seen[g.cur].text
      BY <1>1, <1>6, <1>8, <1>12, <2>1, <2>3
    <2>4. QED
      BY <1>2, <1>6, <1>12, <2>2, <2>3 DEF Saved
  <1>13. CASE g.stage = "rewrite"
    <2>1. i \in Stored(g.seen)
      BY <1>2, <1>6, <1>13 DEF Fits, Chosen, Rewrites
    <2>2. PICK k \in Stored(mem) \ Stored(g.seen) :
            mem[k].text = Canonical[g.seen[i].text]
      BY <1>2, <1>6, <1>13 DEF Saved
    <2>3. Canonical[g.seen[i].text] = v
      BY <1>1, <1>8, <2>1
    <2>4. g.seen[i].text \in Texts
      BY <1>2, <2>1 DEF Handler, Stored, Record
    <2>5. Canonical[mem[k].text] = v
      BY <1>8, <2>2, <2>3, <2>4 DEF JudgeIsStable
    <2>6. QED
      BY <1>8, <2>1, <2>2, <2>5
  <1>14. QED
    BY <1>5, <1>6, <1>9, <1>10, <1>11, <1>12, <1>13

LEMMA NoVersionLostStep ==
  ASSUME JudgeIsStable, FactInv, SameEverywhere, CopyInv, [Next]_vars
  PROVE  \/ Versions(mem) \subseteq Versions(mem') \cup forgotten'
         \/ \E e \in Executors :
              (TakingBack(e) \/ TrustingCache(e)) /\ exec'[e] # exec[e]
  <1>0. \A e \in Executors : exec[e] \in Handler /\ Fits(exec[e])
    BY DEF FactInv, TypeOK
  <1>1. CASE mem' = mem
    BY <1>1 DEF Versions
  <1>2. ASSUME NEW e \in Executors, AddNew(e) PROVE Versions(mem) \subseteq Versions(mem')
    <2>1. NewRecord(exec[e], clock) \in Record
      BY <1>0, <1>2, NewRecordType, NullIsNothing DEF AddNew, Fits, Shape, FactInv, TypeOK
    <2>2. QED
      BY <1>2, <2>1, AddedMemory DEF AddNew
  <1>3. ASSUME NEW e \in Executors, AddRewritten(e) PROVE Versions(mem) \subseteq Versions(mem')
    <2>1. clock \in Nat
      BY FactConstantsOK DEF FactInv, TypeOK
    <2>2. QED
      BY <1>0, <1>3, <2>1, RewrittenType, AddedMemory DEF AddRewritten
  <1>4. ASSUME NEW e \in Executors, AddArchived(e) PROVE Versions(mem) \subseteq Versions(mem')
    <2>1. clock \in Nat
      BY FactConstantsOK DEF FactInv, TypeOK
    <2>2. exec[e].item \in Record
      BY <1>0, <1>4, NullIsNothing DEF AddArchived, Fits, Shape, Handler
    <2>3. [exec[e].item EXCEPT !.status = "superseded", !.created = clock] \in Record
      BY <2>1, <2>2 DEF Record, FactStatuses
    <2>4. QED
      BY <1>4, <2>3, AddedMemory DEF AddArchived
  <1>5. ASSUME NEW e \in Executors, Delete(e)
        PROVE  \/ Versions(mem) \subseteq Versions(mem') \cup forgotten'
               \/ (TakingBack(e) \/ TrustingCache(e)) /\ exec'[e] # exec[e]
    BY <1>5, DeleteLosesNothing
  <1>6. QED
    BY <1>1, <1>2, <1>3, <1>4, <1>5
       DEF Next, Proceed, BeginStore, BeginForget, BeginRebuild, BeginConsolidation,
           CacheNew, UpsertItem, Prune, ReadRows, SelectActive, GetItem, CacheCopy,
           Uncache, DeleteRaises, EndLoop, CallFails, Crash, vars

\* While consolidations have the system to themselves, no step removes the last
\* memory that says something, unless a user forgets it, a failed store takes
\* its own memory back, or a consolidation trusts a cache it did not rebuild:
\* for any number of requests that overlap, fail or die, and of versions.
THEOREM VersionsAreKept ==
  ASSUME QuietConsolidation, JudgeIsStable
  PROVE  Spec => NoVersionLost
  <1>1. Init => FactInv /\ SameEverywhere /\ CopyInv
    BY InitFact, InitSame, InitCopy
  <1>2. FactInv /\ SameEverywhere /\ CopyInv /\ [Next]_vars
          => (FactInv /\ SameEverywhere /\ CopyInv)'
    BY StepFact, StepSame, StepCopy
  <1>3. FactInv /\ SameEverywhere /\ CopyInv /\ [Next]_vars
          => [\/ Versions(mem) \subseteq Versions(mem') \cup forgotten'
              \/ \E e \in Executors :
                   (TakingBack(e) \/ TrustingCache(e)) /\ exec'[e] # exec[e]]_vars
    BY NoVersionLostStep
  <1>4. QED
    BY <1>1, <1>2, <1>3, PTL DEF Spec, NoVersionLost

-----------------------------------------------------------------------------
(* Part 4: requests one at a time, and a consolidation, leave health *)

AtMostOne(S) == \A i, j \in S : i = j

\* Is what the stores hold known from where the handler is?
Trusted(h) ==
  \/ ~disturbed
  \/ QuietConsolidation /\ h.op = "consolidate" /\ h.scoped /\ ~h.failed

\* How the ids of the two stores differ while a handler is between two calls.
Apart(h, m, c) ==
  IF h.pc = "cacheNew" THEN Stored(m) = Stored(c) \cup {h.new}
  ELSE IF h.pc = "cacheCopy" THEN Stored(m) = Stored(c) \cup {h.copy}
  ELSE IF h.pc = "uncache" THEN Stored(m) = Stored(c) \ {h.cur}
  ELSE Stored(m) = Stored(c)

Rebuilt(h, m, c) == h.seen = m /\ Stored(m) \ h.todo \subseteq Stored(c)

\* The only handler there is, and the stores, when what it began with was in order.
Place(h, m, c) ==
  /\ ~h.failed
  /\ h.stage # "rollback"
  /\ h.pc \in {"loop", "uncache"} => h.stage # "none"
  /\ IF h.stage = "upsert" THEN Rebuilt(h, m, c) ELSE Apart(h, m, c)
  /\ auto =>
       /\ h.op \in {"forget", "rebuild"} => AtMostOne(Active(m))
       /\ h.pc = "add" => Active(m) \subseteq h.todo
       /\ h.pc = "cacheNew" \/ h.stage = "archive" => AtMostOne(Active(m) \ h.todo)
  /\ h.pc \in {"copy", "cacheCopy", "delete"} => h.cur \in Stored(m)
  /\ h.stage \in {"noise", "rewrite", "dups", "forget"} =>
       \A i \in h.todo : i \in Stored(m) \/ (h.pc = "uncache" /\ i = h.cur)
  /\ h.stage = "noise" => Stored(h.seen) \ NoiseRows(h.seen) \subseteq Stored(m)
  /\ h.stage = "rewrite" => Duplicates(h.seen) \subseteq Stored(m)

Rested(m, c) == Stored(m) = Stored(c) /\ (auto => AtMostOne(Active(m)))

\* An undisturbed handler, and a consolidation, is the only one.
Sole ==
  \A e, f \in Executors :
    Busy(e) /\ Busy(f) /\ (~disturbed \/ (QuietConsolidation /\ exec[e].op = "consolidate"))
      => e = f

SettledInv ==
  /\ Sole
  /\ ~disturbed /\ (\A e \in Executors : ~Busy(e)) => Rested(mem, cache)
  /\ \A e \in Executors :
       /\ exec[e].failed => exec[e].stage = "rewrite"
       /\ Busy(e) /\ Trusted(exec[e]) => Place(exec[e], mem, cache)

LEMMA SameActive ==
  ASSUME FactInv, SameEverywhere, Stored(mem) = Stored(cache)
  PROVE  Active(mem) = Active(cache)
  <1>1. PICK C \in Rows : View(mem, C) /\ View(cache, C)
    BY DEF SameEverywhere, Views
  <1>2. ASSUME NEW i \in Stored(mem) PROVE mem[i].status = cache[i].status
    <2>1. SameContent(mem[i], C[i]) /\ SameContent(cache[i], C[i])
      BY <1>1, <1>2 DEF View
    <2>2. QED
      BY <1>2, <2>1 DEF SameContent, Stored
  <1>3. QED
    BY <1>2 DEF Active

\* Two stores at rest are healthy.
LEMMA RestedIsHealthy ==
  ASSUME FactInv, SameEverywhere, Rested(mem, cache)
  PROVE  Healthy
  <1>1. PICK C \in Rows : View(mem, C) /\ View(cache, C)
    BY DEF SameEverywhere, Views
  <1>2. ASSUME NEW i \in Ids PROVE SameContent(mem[i], cache[i])
    <2>1. i \in Stored(mem) <=> i \in Stored(cache)
      BY DEF Rested
    <2>2. i \in Stored(mem) => SameContent(mem[i], C[i]) /\ SameContent(cache[i], C[i])
      BY <1>1, <2>1 DEF View
    <2>3. QED
      BY <1>2, <2>1, <2>2 DEF Stored, SameContent
  <1>3. ASSUME auto PROVE Cardinality(Active(mem)) <= 1
    <2>1. CASE Active(mem) = {}
      BY <2>1, FS_EmptySet
    <2>2. CASE Active(mem) # {}
      <3>1. PICK i \in Active(mem) : TRUE
        BY <2>2
      <3>2. Active(mem) = {i}
        BY <1>3, <3>1 DEF Rested, AtMostOne
      <3>3. QED
        BY <3>2, FS_Singleton
    <2>3. QED
      BY <2>1, <2>2
  <1>4. QED
    BY <1>2, <1>3 DEF Healthy, Agreed, OneCurrent

\* Archiving all but the newest leaves one.
LEMMA NewestIsOne ==
  ASSUME NEW s \in Rows
  PROVE  AtMostOne(Active(s) \ OlderActive(s))
  <1> SUFFICES ASSUME NEW i \in Active(s) \ OlderActive(s),
                      NEW j \in Active(s) \ OlderActive(s)
               PROVE  i = j
    BY DEF AtMostOne
  <1>1. i \in Ids /\ j \in Ids /\ s[i] \in Record /\ s[j] \in Record
    BY DEF Active, Stored, Rows
  <1>2. i \in Nat /\ j \in Nat /\ s[i].from \in Nat /\ s[j].from \in Nat
    BY <1>1, FactConstantsOK DEF Record
  <1>3. /\ ~(s[i].from < s[j].from) /\ ~(s[j].from < s[i].from)
        /\ ~(s[i].from = s[j].from /\ i < j) /\ ~(s[j].from = s[i].from /\ j < i)
    BY DEF OlderActive
  <1>4. QED
    BY <1>2, <1>3

LEMMA GotoMoves ==
  ASSUME FactInv, NEW e \in Executors, NEW h, Goto(e, h)
  PROVE  exec'[e] = h /\ \A f \in Executors \ {e} : exec'[f] = exec[f]
  BY DEF FactInv, TypeOK, Goto

\* A handler goes on with its request.
LEMMA SettledGoesOn ==
  ASSUME FactInv, SettledInv, NEW e \in Executors, Busy(e), NEW h, Goto(e, h),
         h.op = exec[e].op, disturbed' = disturbed, auto' = auto,
         h.failed => h.stage = "rewrite",
         Trusted(h) => Place(h, mem', cache')
  PROVE  SettledInv'
  <1>1. exec'[e] = h /\ \A f \in Executors \ {e} : exec'[f] = exec[f]
    BY GotoMoves
  <1>2. Busy(e)' /\ \A f \in Executors : Busy(f)' <=> Busy(f)
    BY <1>1 DEF Busy
  <1>3. Sole'
    BY <1>1, <1>2 DEF SettledInv, Sole, Busy
  <1>4. ASSUME NEW f \in Executors, Busy(f)', Trusted(exec'[f])
        PROVE  f = e
    BY <1>1, <1>2, <1>4 DEF SettledInv, Sole, Trusted
  <1>5. Trusted(h)' <=> Trusted(h)
    BY DEF Trusted
  <1>6. ASSUME NEW f \in Executors
        PROVE  /\ exec'[f].failed => exec'[f].stage = "rewrite"
               /\ Busy(f)' /\ Trusted(exec[f])' => Place(exec[f], mem, cache)'
    <2>1. CASE f = e
      BY <1>1, <1>5, <2>1 DEF Place, Apart, Rebuilt, AtMostOne, Stored, Active, NoiseRows, Duplicates, SameFact, Precedes, IsRewritten, Trusted
    <2>2. CASE f # e
      BY <1>1, <1>4, <2>2 DEF Trusted, SettledInv
    <2>3. QED
      BY <2>1, <2>2
  <1>7. QED
    BY <1>2, <1>3, <1>6 DEF SettledInv

\* A handler fails: from now on the stores may differ.
LEMMA SettledGivesUp ==
  ASSUME FactInv, SettledInv, NEW e \in Executors, Busy(e), NEW h, Goto(e, h),
         disturbed' = TRUE, h.op \in {exec[e].op, "none"},
         h.failed => h.stage = "rewrite",
         h.op = "consolidate" => h.failed
  PROVE  SettledInv'
  <1>1. exec'[e] = h /\ \A f \in Executors \ {e} : exec'[f] = exec[f]
    BY GotoMoves
  <1>2. \A f \in Executors : Busy(f)' => Busy(f)
    BY <1>1 DEF Busy
  <1>3. Sole'
    BY <1>1, <1>2 DEF SettledInv, Sole, Busy
  <1>4. ASSUME NEW f \in Executors, Busy(f)', Trusted(exec[f])' PROVE FALSE
    <2>1. exec'[f].op = "consolidate" /\ ~exec'[f].failed /\ QuietConsolidation
      BY <1>4 DEF Trusted
    <2>2. CASE f = e
      BY <1>1, <2>1, <2>2
    <2>3. CASE f # e
      BY <1>1, <1>2, <1>4, <2>1, <2>3 DEF SettledInv, Sole
    <2>4. QED
      BY <2>2, <2>3
  <1>5. \A f \in Executors : exec'[f].failed => exec'[f].stage = "rewrite"
    BY <1>1 DEF SettledInv
  <1>6. QED
    BY <1>3, <1>4, <1>5 DEF SettledInv

\* A handler comes to its end.
LEMMA SettledEnds ==
  ASSUME FactInv, SettledInv, NEW e \in Executors, Busy(e), Goto(e, Idle), auto' = auto,
         disturbed' = disturbed \/ (QuietConsolidation /\ exec[e].op = "consolidate"),
         ~disturbed' => Rested(mem', cache')
  PROVE  SettledInv'
  <1>1. exec'[e] = Idle /\ \A f \in Executors \ {e} : exec'[f] = exec[f]
    BY GotoMoves
  <1>2. Idle.op = "none" /\ Idle.failed = FALSE
    BY DEF Idle
  <1>3. \A f \in Executors : Busy(f)' => Busy(f) /\ f # e
    BY <1>1, <1>2 DEF Busy
  <1>4. CASE disturbed' = disturbed
    <2>1. Sole'
      BY <1>1, <1>3, <1>4 DEF SettledInv, Sole, Busy
    <2>2. ASSUME NEW f \in Executors, Busy(f)', Trusted(exec[f])' PROVE FALSE
      BY <1>1, <1>3, <1>4, <2>2 DEF Trusted, SettledInv, Sole
    <2>3. QED
      BY <1>1, <1>2, <1>4, <2>1, <2>2 DEF SettledInv, Rested, AtMostOne, Stored, Active
  <1>5. CASE QuietConsolidation /\ exec[e].op = "consolidate"
    <2>1. \A f \in Executors : ~Busy(f)'
      BY <1>3, <1>5 DEF SettledInv, Sole
    <2>2. QED
      BY <1>1, <1>2, <2>1 DEF SettledInv, Sole, Rested, AtMostOne, Stored, Active
  <1>6. QED
    BY <1>4, <1>5

\* A handler begins.
LEMMA SettledBegins ==
  ASSUME FactInv, SettledInv, NEW e \in Executors, Begin(e), NEW h, Goto(e, h),
         auto' = auto, h.op # "none", ~h.failed,
         QuietConsolidation /\ h.op = "consolidate" => \A f \in Executors : ~Busy(f),
         ~disturbed => (Rested(mem, cache) => Place(h, mem', cache')),
         QuietConsolidation /\ h.op = "consolidate" /\ h.scoped => Place(h, mem', cache')
  PROVE  SettledInv'
  <1>1. exec'[e] = h /\ \A f \in Executors \ {e} : exec'[f] = exec[f]
    BY GotoMoves
  <1>2. /\ ~Busy(e) /\ Busy(e)' /\ \A f \in Executors \ {e} : Busy(f)' <=> Busy(f)
        /\ disturbed' = (disturbed \/ \E f \in Executors : Busy(f))
        /\ QuietConsolidation => \A f \in Executors : exec[f].op # "consolidate"
    BY <1>1 DEF Begin, Busy
  <1>3. Sole'
    BY <1>1, <1>2 DEF Sole
  <1>4. ASSUME NEW f \in Executors \ {e}, Busy(f)', Trusted(exec[f])' PROVE FALSE
    BY <1>1, <1>2, <1>4 DEF Trusted
  <1>5. ASSUME Trusted(h)' PROVE Place(h, mem', cache')
    <2>1. CASE ~disturbed'
      BY <1>2, <2>1 DEF SettledInv
    <2>2. CASE disturbed'
      BY <1>5, <2>2 DEF Trusted
    <2>3. QED
      BY <2>1, <2>2
  <1>6. Place(h, mem, cache)' <=> Place(h, mem', cache')
    BY DEF Place, Apart, Rebuilt, AtMostOne, Stored, Active, NoiseRows, Duplicates,
           SameFact, Precedes, IsRewritten
  <1>7. ASSUME NEW f \in Executors
        PROVE  /\ exec'[f].failed => exec'[f].stage = "rewrite"
               /\ Busy(f)' /\ Trusted(exec[f])' => Place(exec[f], mem, cache)'
    <2>1. CASE f = e
      BY <1>1, <1>5, <1>6, <2>1 DEF Trusted, Place, Apart, Rebuilt, AtMostOne, Stored, Active, NoiseRows, Duplicates, SameFact, Precedes, IsRewritten
    <2>2. CASE f # e
      BY <1>1, <1>4, <2>2 DEF SettledInv
    <2>3. QED
      BY <2>1, <2>2
  <1>8. QED
    BY <1>2, <1>3, <1>7 DEF SettledInv

LEMMA StepSettled == FactInv /\ SameEverywhere /\ SettledInv /\ [Next]_vars => SettledInv'
  <1> SUFFICES ASSUME FactInv, SameEverywhere, SettledInv, [Next]_vars PROVE SettledInv'
    OBVIOUS
  <1> USE NullIsNothing
  <1>0. /\ mem \in Rows /\ cache \in Rows /\ exec \in [Executors -> Handler]
        /\ clock \in Nat /\ \A e \in Executors : Fits(exec[e])
        /\ \A e \in Executors : exec[e].failed => exec[e].stage = "rewrite"
    BY DEF FactInv, TypeOK, Rows, SettledInv
  <1>1. ASSUME NEW e \in Executors, Busy(e), Trusted(exec[e]) PROVE Place(exec[e], mem, cache)
    BY <1>1 DEF SettledInv
  <1>2. ASSUME NEW e \in Executors, exec[e].pc # "idle" PROVE Busy(e)
    BY <1>0, <1>2 DEF Fits, Shape, Busy
  <1>3. ASSUME NEW e \in Executors, NEW t \in Texts, BeginStore(e, t) PROVE SettledInv'
    <2> DEFINE h == [Idle EXCEPT !.op = "store", !.pc = "add", !.text = t,
                       !.status = StatusOfNew(t), !.now = clock + 1,
                       !.todo = ToSupersede(t),
                       !.seen = [i \in Ids |-> IF i \in ToSupersede(t)
                                                 THEN cache[i] ELSE Null]]
    <2>1. /\ h.op = "store" /\ h.stage = "none" /\ h.pc = "add" /\ h.failed = FALSE
          /\ h.todo = ToSupersede(t)
      BY DEF Idle
    <2>2. /\ Begin(e) /\ Goto(e, h) /\ mem' = mem /\ cache' = cache /\ auto' = auto
          /\ ~IsDuplicate(t)
      BY <1>3 DEF BeginStore
    <2> HIDE DEF h
    <2>3. ASSUME Rested(mem, cache) PROVE Place(h, mem', cache')
      <3>1. auto => Active(mem) \subseteq h.todo
        <4>1. Active(mem) = Active(cache)
          BY <2>3, SameActive DEF Rested
        <4>2. QED
          BY <2>1, <2>2, <4>1 DEF IsDuplicate, ToSupersede
      <3>2. QED
        BY <2>1, <2>2, <2>3, <3>1 DEF Place, Apart, Rested
    <2>4. QED
      BY <2>1, <2>2, <2>3, SettledBegins
  <1>4. ASSUME NEW e \in Executors, NEW i \in Ids, BeginForget(e, i) PROVE SettledInv'
    <2> DEFINE h == [Idle EXCEPT !.op = "forget", !.stage = "forget", !.pc = "loop",
                                 !.todo = {i}]
    <2>1. /\ h.op = "forget" /\ h.stage = "forget" /\ h.pc = "loop" /\ h.failed = FALSE
          /\ h.todo = {i}
      BY DEF Idle
    <2>2. /\ Begin(e) /\ Goto(e, h) /\ mem' = mem /\ cache' = cache /\ auto' = auto
          /\ i \in Stored(mem)
      BY <1>4 DEF BeginForget, Stored
    <2> HIDE DEF h
    <2>3. ASSUME Rested(mem, cache) PROVE Place(h, mem', cache')
      BY <2>1, <2>2, <2>3 DEF Place, Apart, Rested
    <2>4. QED
      BY <2>1, <2>2, <2>3, SettledBegins
  <1>5. ASSUME NEW k \in Handler PROVE
              /\ Rebuilding(k).op = k.op /\ Rebuilding(k).scoped = k.scoped
              /\ Rebuilding(k).dedupe = k.dedupe /\ Rebuilding(k).failed = k.failed
              /\ Rebuilding(k).stage = "upsert" /\ Rebuilding(k).pc = "loop"
              /\ Rebuilding(k).seen = mem /\ Rebuilding(k).todo = Stored(mem)
    BY DEF Rebuilding, Handler
  <1>6. ASSUME NEW e \in Executors, BeginRebuild(e) PROVE SettledInv'
    <2> DEFINE k == [Idle EXCEPT !.op = "rebuild"]
    <2>1. k \in Handler /\ k.op = "rebuild" /\ k.failed = FALSE
      BY IdleFits DEF Fits, Handler, Ops, Idle
    <2>2. /\ Begin(e) /\ Goto(e, Rebuilding(k)) /\ mem' = mem /\ cache' = cache
          /\ auto' = auto
      BY <1>6 DEF BeginRebuild
    <2> HIDE DEF k
    <2> DEFINE h == Rebuilding(k)
    <2>3. /\ h.op = "rebuild" /\ h.stage = "upsert" /\ h.pc = "loop" /\ h.failed = FALSE
          /\ h.seen = mem /\ h.todo = Stored(mem) /\ Goto(e, h)
      BY <1>5, <2>1, <2>2
    <2> HIDE DEF h
    <2>4. ASSUME Rested(mem, cache) PROVE Place(h, mem', cache')
      BY <2>2, <2>3, <2>4 DEF Place, Rebuilt, Rested
    <2>5. QED
      BY <2>2, <2>3, <2>4, SettledBegins
  <1>7. ASSUME NEW e \in Executors, NEW r \in Requests, BeginConsolidation(e, r[1], r[2])
        PROVE  SettledInv'
    <2> DEFINE k == [Idle EXCEPT !.op = "consolidate", !.scoped = r[1], !.dedupe = r[2]]
    <2>1. /\ k \in Handler /\ k.op = "consolidate" /\ k.failed = FALSE /\ k.stage = "none"
          /\ k.scoped = r[1]
      <3>1. Idle \in Handler /\ r[1] \in BOOLEAN /\ r[2] \in BOOLEAN
        BY IdleFits, FactConstantsOK DEF Fits
      <3>2. k \in Handler
        BY <3>1 DEF Handler, Ops
      <3>3. QED
        BY <3>2 DEF Idle
    <2>2. /\ Begin(e) /\ mem' = mem /\ cache' = cache /\ auto' = auto
          /\ QuietConsolidation => \A f \in Executors : ~Busy(f)
          /\ Goto(e, IF r[1] THEN Rebuilding(k) ELSE [k EXCEPT !.pc = "read"])
      BY <1>7 DEF BeginConsolidation
    <2> HIDE DEF k
    <2>3. CASE r[1]
      <3> DEFINE h == Rebuilding(k)
      <3>1. /\ h.op = "consolidate" /\ h.stage = "upsert" /\ h.pc = "loop"
            /\ h.failed = FALSE /\ h.seen = mem /\ h.todo = Stored(mem) /\ Goto(e, h)
        BY <1>5, <2>1, <2>2, <2>3
      <3> HIDE DEF h
      <3>2. Place(h, mem', cache')
        BY <2>2, <3>1 DEF Place, Rebuilt
      <3>3. QED
        BY <2>2, <3>1, <3>2, SettledBegins
    <2>4. CASE ~r[1]
      <3> DEFINE h == [k EXCEPT !.pc = "read"]
      <3>1. /\ h.op = "consolidate" /\ h.stage = "none" /\ h.pc = "read"
            /\ h.failed = FALSE /\ h.scoped = r[1] /\ Goto(e, h)
        BY <2>1, <2>2, <2>4 DEF Handler
      <3> HIDE DEF h
      <3>2. ASSUME Rested(mem, cache) PROVE Place(h, mem', cache')
        BY <2>2, <3>1, <3>2 DEF Place, Apart, Rested
      <3>3. QED
        BY <2>2, <2>4, <3>1, <3>2, SettledBegins
    <2>5. QED
      BY <2>3, <2>4
  <1>8. ASSUME NEW e \in Executors, AddNew(e) PROVE SettledInv'
    <2> DEFINE g == exec[e]
    <2>1. g.pc = "add"
      BY <1>8 DEF AddNew
    <2>2. /\ g \in Handler /\ Fits(g) /\ Busy(e) /\ (g.failed => g.stage = "rewrite")
          /\ Trusted(g) => Place(g, mem, cache)
      BY <1>0, <1>1, <1>2, <2>1
    <2>3. PICK j \in FreeIds : /\ mem' = [mem EXCEPT ![j] = NewRecord(g, clock)]
                               /\ Goto(e, [g EXCEPT !.pc = "cacheNew", !.new = j])
      BY <1>8 DEF AddNew
    <2> DEFINE h == [g EXCEPT !.pc = "cacheNew", !.new = j]
    <2>4. /\ cache' = cache /\ auto' = auto /\ disturbed' = disturbed /\ Goto(e, h)
      BY <1>8, <2>3 DEF AddNew
    <2> HIDE DEF g
    <2>5. NewRecord(g, clock) \in Record
      BY <1>0, <2>1, <2>2, NewRecordType DEF Fits, Shape
    <2>6. /\ j \in Ids /\ j \notin Stored(mem) /\ j \in Stored(mem')
          /\ \A k \in Ids \ {j} : mem'[k] = mem[k]
      BY <1>0, <2>3, <2>5, AddedMemory DEF Rows
    <2>7. Stored(mem') = Stored(mem) \cup {j} /\ Active(mem') \subseteq Active(mem) \cup {j}
      BY <2>6 DEF Stored, Active
    <2>8. /\ h.op = g.op /\ h.stage = g.stage /\ h.pc = "cacheNew" /\ h.failed = g.failed
          /\ h.new = j /\ h.todo = g.todo /\ h.scoped = g.scoped
      BY <2>2 DEF Handler
    <2>9. g.op = "store" /\ g.stage = "none"
      BY <2>1, <2>2 DEF Fits, Shape
    <2> HIDE DEF h
    <2>10. ASSUME Trusted(g) PROVE Place(h, mem', cache')
      BY <2>1, <2>2, <2>4, <2>7, <2>8, <2>9, <2>10 DEF Place, Apart, AtMostOne
    <2>11. QED
      BY <2>2, <2>4, <2>8, <2>10, SettledGoesOn DEF g, Trusted
  <1>9. ASSUME NEW e \in Executors, CacheNew(e) PROVE SettledInv'
    <2> DEFINE g == exec[e]
               h == [g EXCEPT !.pc = "loop", !.stage = "archive"]
    <2>1. /\ g.pc = "cacheNew" /\ Goto(e, h) /\ mem' = mem /\ auto' = auto
          /\ disturbed' = disturbed
          /\ cache' = [cache EXCEPT ![g.new] = Upserted(@, NewRecord(g, g.now))]
      BY <1>9 DEF CacheNew
    <2>2. /\ g \in Handler /\ Fits(g) /\ Busy(e) /\ (g.failed => g.stage = "rewrite")
          /\ Trusted(g) => Place(g, mem, cache)
      BY <1>0, <1>1, <1>2, <2>1
    <2> HIDE DEF g
    <2>3. g.op = "store" /\ g.stage = "none" /\ g.new \in Ids /\ g.now \in Nat
      BY <2>1, <2>2 DEF Fits, Shape, Handler
    <2>4. NewRecord(g, g.now) \in Record
      BY <2>1, <2>2, <2>3, NewRecordType DEF Fits, Shape
    <2>5. Upserted(cache[g.new], NewRecord(g, g.now)) # Null
      BY <1>0, <2>3, <2>4, UpsertedRow DEF Rows
    <2>6. Stored(cache') = Stored(cache) \cup {g.new}
      BY <1>0, <2>1, <2>3, <2>5 DEF Stored, Rows
    <2>7. /\ h.op = g.op /\ h.stage = "archive" /\ h.pc = "loop" /\ h.failed = g.failed
          /\ h.todo = g.todo /\ h.scoped = g.scoped
      BY <2>2 DEF Handler
    <2> HIDE DEF h
    <2>8. ASSUME Trusted(g) PROVE Place(h, mem', cache')
      BY <2>1, <2>2, <2>3, <2>6, <2>7, <2>8 DEF Place, Apart
    <2>9. QED
      BY <2>1, <2>2, <2>3, <2>7, <2>8, SettledGoesOn DEF g, Trusted
  <1>10. ASSUME NEW e \in Executors, UpsertItem(e) PROVE SettledInv'
    <2> DEFINE g == exec[e]
               h(i) == [g EXCEPT !.todo = @ \ {i}]
    <2>1. /\ g.stage = "upsert" /\ mem' = mem /\ auto' = auto /\ disturbed' = disturbed
      BY <1>10 DEF UpsertItem
    <2>2. PICK i \in g.todo : /\ cache' = [cache EXCEPT ![i] = Upserted(@, g.seen[i])]
                              /\ Goto(e, h(i))
      BY <1>10 DEF UpsertItem
    <2>3. /\ g \in Handler /\ Fits(g) /\ g.op # "none" /\ (g.failed => g.stage = "rewrite")
          /\ Trusted(g) => Place(g, mem, cache)
      <3>1. g \in Handler /\ Fits(g) /\ (g.failed => g.stage = "rewrite")
        BY <1>0
      <3>2. g.op # "none"
        BY <2>1, <3>1 DEF Fits, Shape
      <3>3. QED
        BY <1>1, <3>1, <3>2 DEF Busy
    <2> HIDE DEF g
    <2>4. g.op \in {"rebuild", "consolidate"} /\ g.pc = "loop" /\ i \in Ids
          /\ g.seen[i] \in Record
      BY <2>1, <2>2, <2>3 DEF Fits, Shape, Chosen, Handler, Stored
    <2>5. Upserted(cache[i], g.seen[i]) # Null
      BY <1>0, <2>4, UpsertedRow DEF Rows
    <2>6. Stored(cache') = Stored(cache) \cup {i}
      BY <1>0, <2>2, <2>4, <2>5 DEF Stored, Rows
    <2>7. /\ h(i).op = g.op /\ h(i).stage = g.stage /\ h(i).pc = g.pc
          /\ h(i).failed = g.failed /\ h(i).todo = g.todo \ {i} /\ h(i).scoped = g.scoped
          /\ h(i).seen = g.seen
      BY <2>3 DEF Handler
    <2> HIDE DEF h
    <2>8. ASSUME Trusted(g) PROVE Place(h(i), mem', cache')
      <3>1. Rebuilt(h(i), mem', cache')
        BY <2>1, <2>3, <2>6, <2>7, <2>8 DEF Place, Rebuilt
      <3>2. QED
        BY <2>1, <2>3, <2>4, <2>7, <2>8, <3>1 DEF Place
    <2>9. QED
      BY <2>1, <2>2, <2>3, <2>7, <2>8, SettledGoesOn DEF g, Trusted, Busy
  <1>11. ASSUME NEW e \in Executors, Prune(e) PROVE SettledInv'
    <2> DEFINE g == exec[e]
               h == [g EXCEPT !.stage = "none", !.pc = "read", !.seen = NoRecords]
    <2>1. /\ g.stage = "upsert" /\ g.todo = {} /\ mem' = mem /\ auto' = auto
          /\ disturbed' = disturbed
          /\ cache' = [i \in Ids |-> IF i \in Stored(g.seen) THEN cache[i] ELSE Null]
          /\ Goto(e, IF g.op = "rebuild" THEN Idle ELSE h)
      BY <1>11 DEF Prune, KeptByPrune
    <2>2. /\ g \in Handler /\ Fits(g) /\ g.op # "none" /\ (g.failed => g.stage = "rewrite")
          /\ Trusted(g) => Place(g, mem, cache)
      <3>1. g \in Handler /\ Fits(g) /\ (g.failed => g.stage = "rewrite")
        BY <1>0
      <3>2. g.op # "none"
        BY <2>1, <3>1 DEF Fits, Shape
      <3>3. QED
        BY <1>1, <3>1, <3>2 DEF Busy
    <2> HIDE DEF g
    <2>3. g.op \in {"rebuild", "consolidate"} /\ g.pc = "loop"
      BY <2>1, <2>2 DEF Fits, Shape
    <2>4. ASSUME Trusted(g) PROVE Stored(mem') = Stored(cache')
      <3>1. g.seen = mem /\ Stored(mem) \subseteq Stored(cache)
        BY <2>1, <2>2, <2>4 DEF Place, Rebuilt
      <3>2. QED
        BY <2>1, <3>1 DEF Stored
    <2>5. CASE g.op = "rebuild"
      <3>1. ASSUME ~disturbed PROVE Rested(mem', cache')
        BY <2>1, <2>2, <2>4, <2>5, <3>1 DEF Trusted, Place, Rested
      <3>2. QED
        BY <2>1, <2>2, <2>5, <3>1, SettledEnds DEF g, Busy
    <2>6. CASE g.op = "consolidate"
      <3>1. /\ h.op = g.op /\ h.stage = "none" /\ h.pc = "read" /\ h.failed = g.failed
            /\ h.scoped = g.scoped /\ Goto(e, h)
        BY <2>1, <2>2, <2>6 DEF Handler
      <3> HIDE DEF h
      <3>2. ASSUME Trusted(g) PROVE Place(h, mem', cache')
        BY <2>1, <2>2, <2>4, <2>6, <3>1, <3>2 DEF Place, Apart
      <3>3. QED
        BY <2>1, <2>2, <3>1, <3>2, SettledGoesOn DEF g, Trusted, Busy
    <2>7. QED
      BY <2>3, <2>5, <2>6
  <1>12. ASSUME NEW e \in Executors, ReadRows(e) PROVE SettledInv'
    <2> DEFINE g == exec[e]
    <2>1. /\ g.pc = "read" /\ mem' = mem /\ cache' = cache /\ auto' = auto
          /\ disturbed' = disturbed
      BY <1>12 DEF ReadRows
    <2>2. /\ g \in Handler /\ Fits(g) /\ Busy(e) /\ (g.failed => g.stage = "rewrite")
          /\ Trusted(g) => Place(g, mem, cache)
      BY <1>0, <1>1, <1>2, <2>1
    <2>3. g.op = "consolidate" /\ g.stage = "none"
      BY <2>1, <2>2 DEF Fits, Shape
    <2>4. CASE g.dedupe
      <3> DEFINE h == [g EXCEPT !.stage = "noise", !.pc = "loop", !.seen = cache,
                                !.todo = NoiseRows(cache)]
      <3>1. Goto(e, h)
        BY <1>12, <2>4 DEF ReadRows
      <3> HIDE DEF g
      <3>2. /\ h.op = g.op /\ h.stage = "noise" /\ h.pc = "loop" /\ h.failed = g.failed
            /\ h.scoped = g.scoped /\ h.seen = cache /\ h.todo = NoiseRows(cache)
        BY <2>2 DEF Handler
      <3> HIDE DEF h
      <3>3. ASSUME Trusted(g) PROVE Place(h, mem', cache')
        <4>1. Stored(mem) = Stored(cache) /\ NoiseRows(cache) \subseteq Stored(cache)
          BY <2>1, <2>2, <2>3, <3>3 DEF Place, Apart, NoiseRows
        <4>2. QED
          BY <2>1, <2>2, <2>3, <3>2, <3>3, <4>1 DEF Place, Apart
      <3>4. QED
        BY <2>1, <2>2, <2>3, <3>1, <3>2, <3>3, SettledGoesOn DEF g, Trusted
    <2>5. CASE ~g.dedupe
      <3> DEFINE h == [g EXCEPT !.pc = "select"]
      <3>1. Goto(e, h)
        BY <1>12, <2>5 DEF ReadRows
      <3> HIDE DEF g
      <3>2. /\ h.op = g.op /\ h.stage = g.stage /\ h.pc = "select" /\ h.failed = g.failed
            /\ h.scoped = g.scoped
        BY <2>2 DEF Handler
      <3> HIDE DEF h
      <3>3. ASSUME Trusted(g) PROVE Place(h, mem', cache')
        BY <2>1, <2>2, <2>3, <3>2, <3>3 DEF Place, Apart
      <3>4. QED
        BY <2>1, <2>2, <2>3, <3>1, <3>2, <3>3, SettledGoesOn DEF g, Trusted
    <2>6. QED
      BY <2>4, <2>5
  <1>13. ASSUME NEW e \in Executors, AddRewritten(e) PROVE SettledInv'
    <2> DEFINE g == exec[e]
               h(i, j, r) == [g EXCEPT !.pc = "cacheCopy", !.cur = i, !.copy = j,
                                       !.item = r]
    <2>1. /\ g.pc = "loop" /\ g.stage = "rewrite" /\ cache' = cache /\ auto' = auto
          /\ disturbed' = disturbed
      BY <1>13 DEF AddRewritten
    <2>2. /\ g \in Handler /\ Fits(g) /\ Busy(e)
          /\ Trusted(g) => Place(g, mem, cache)
      BY <1>0, <1>1, <1>2, <2>1
    <2>3. PICK i \in g.todo, j \in FreeIds, r \in Record :
            mem' = [mem EXCEPT ![j] = r] /\ Goto(e, h(i, j, r))
      BY <1>0, <1>13, <2>2, RewrittenType DEF AddRewritten
    <2> HIDE DEF g
    <2>4. /\ j \in Ids /\ j \notin Stored(mem) /\ j \in Stored(mem')
          /\ \A k \in Ids \ {j} : mem'[k] = mem[k]
      BY <1>0, <2>3, AddedMemory DEF Rows
    <2>5. Stored(mem') = Stored(mem) \cup {j}
      BY <2>4 DEF Stored
    <2>6. /\ h(i, j, r).op = g.op /\ h(i, j, r).stage = "rewrite"
          /\ h(i, j, r).pc = "cacheCopy" /\ h(i, j, r).failed = g.failed
          /\ h(i, j, r).scoped = g.scoped /\ h(i, j, r).cur = i /\ h(i, j, r).copy = j
          /\ h(i, j, r).todo = g.todo /\ h(i, j, r).seen = g.seen
      BY <2>1, <2>2 DEF Handler
    <2>7. g.op = "consolidate"
      BY <2>1, <2>2 DEF Fits, Shape
    <2> HIDE DEF h
    <2>8. ASSUME Trusted(g) PROVE Place(h(i, j, r), mem', cache')
      <3>1. /\ ~g.failed /\ Stored(mem) = Stored(cache)
            /\ Duplicates(g.seen) \subseteq Stored(mem) /\ g.todo \subseteq Stored(mem)
        BY <2>1, <2>2, <2>8 DEF Place, Apart
      <3>2. QED
        BY <2>1, <2>3, <2>5, <2>6, <2>7, <3>1 DEF Place, Apart
    <2>9. QED
      BY <2>1, <2>2, <2>3, <2>6, <2>8, SettledGoesOn DEF g, Trusted
  <1>14. ASSUME NEW e \in Executors, SelectActive(e) PROVE SettledInv'
    <2> DEFINE g == exec[e]
               older == IF auto THEN OlderActive(cache) ELSE {}
               h == [g EXCEPT !.stage = "archive", !.pc = "loop", !.seen = cache,
                              !.todo = older]
    <2>1. /\ g.pc = "select" /\ mem' = mem /\ cache' = cache /\ auto' = auto
          /\ disturbed' = disturbed /\ Goto(e, h)
      BY <1>14 DEF SelectActive
    <2>2. /\ g \in Handler /\ Fits(g) /\ Busy(e) /\ (g.failed => g.stage = "rewrite")
          /\ Trusted(g) => Place(g, mem, cache)
      BY <1>0, <1>1, <1>2, <2>1
    <2> HIDE DEF g
    <2>3. g.op = "consolidate" /\ g.stage = "none"
      BY <2>1, <2>2 DEF Fits, Shape
    <2>4. /\ h.op = g.op /\ h.stage = "archive" /\ h.pc = "loop" /\ h.failed = g.failed
          /\ h.scoped = g.scoped /\ (auto => h.todo = OlderActive(cache))
      BY <2>2 DEF Handler
    <2> HIDE DEF h
    <2>5. ASSUME Trusted(g) PROVE Place(h, mem', cache')
      <3>1. Stored(mem) = Stored(cache)
        BY <2>1, <2>2, <2>3, <2>5 DEF Place, Apart
      <3>2. Active(mem) = Active(cache) /\ AtMostOne(Active(cache) \ OlderActive(cache))
        BY <1>0, <3>1, SameActive, NewestIsOne
      <3>3. QED
        BY <2>1, <2>2, <2>3, <2>4, <2>5, <3>1, <3>2 DEF Place, Apart
    <2>6. QED
      BY <2>1, <2>2, <2>3, <2>4, <2>5, SettledGoesOn DEF g, Trusted
  <1>15. ASSUME NEW e \in Executors, GetItem(e) PROVE SettledInv'
    <2> DEFINE g == exec[e]
               h(i) == [g EXCEPT !.pc = IF mem[i] = Null THEN "uncache" ELSE "copy",
                                 !.cur = i, !.item = mem[i]]
    <2>1. /\ g.pc = "loop" /\ g.stage = "archive" /\ mem' = mem /\ cache' = cache
          /\ auto' = auto /\ disturbed' = disturbed
      BY <1>15 DEF GetItem
    <2>2. /\ g \in Handler /\ Fits(g) /\ Busy(e) /\ (g.failed => g.stage = "rewrite")
          /\ Trusted(g) => Place(g, mem, cache)
      BY <1>0, <1>1, <1>2, <2>1
    <2>3. PICK i \in g.todo : Goto(e, h(i))
      BY <1>15 DEF GetItem
    <2> HIDE DEF g
    <2>4. /\ h(i).op = g.op /\ h(i).stage = "archive" /\ h(i).failed = g.failed
          /\ h(i).scoped = g.scoped /\ h(i).todo = g.todo /\ h(i).cur = i
          /\ h(i).pc = IF mem[i] = Null THEN "uncache" ELSE "copy"
      BY <2>1, <2>2 DEF Handler
    <2>5. i \in Ids /\ (mem[i] # Null => i \in Stored(mem))
             /\ (mem[i] = Null => i \notin Stored(mem))
      BY <2>2, <2>3 DEF Handler, Stored
    <2> HIDE DEF h
    <2>6. ASSUME Trusted(g) PROVE Place(h(i), mem', cache')
      <3>1. Stored(mem) = Stored(cache)
        BY <2>1, <2>2, <2>6 DEF Place, Apart
      <3>2. QED
        BY <2>1, <2>2, <2>4, <2>5, <2>6, <3>1 DEF Place, Apart
    <2>7. QED
      BY <2>1, <2>2, <2>3, <2>4, <2>6, SettledGoesOn DEF g, Trusted
  <1>16. ASSUME NEW e \in Executors, AddArchived(e) PROVE SettledInv'
    <2> DEFINE g == exec[e]
               r == [g.item EXCEPT !.status = "superseded", !.created = clock]
               h(j) == [g EXCEPT !.pc = "cacheCopy", !.copy = j, !.item = r]
    <2>1. /\ g.pc = "copy" /\ cache' = cache /\ auto' = auto /\ disturbed' = disturbed
      BY <1>16 DEF AddArchived
    <2>2. /\ g \in Handler /\ Fits(g) /\ Busy(e) /\ (g.failed => g.stage = "rewrite")
          /\ Trusted(g) => Place(g, mem, cache)
      BY <1>0, <1>1, <1>2, <2>1
    <2>3. PICK j \in FreeIds : mem' = [mem EXCEPT ![j] = r] /\ Goto(e, h(j))
      BY <1>16 DEF AddArchived
    <2> HIDE DEF g
    <2>4. r \in Record /\ r.status = "superseded"
      <3>1. g.item \in Record
        BY <2>1, <2>2 DEF Fits, Shape, Handler
      <3>2. QED
        BY <1>0, <3>1 DEF Record, FactStatuses
    <2>5. /\ h(j).op = g.op /\ h(j).stage = g.stage /\ h(j).pc = "cacheCopy"
          /\ h(j).failed = g.failed /\ h(j).scoped = g.scoped /\ h(j).todo = g.todo
          /\ h(j).cur = g.cur /\ h(j).copy = j
      BY <2>2 DEF Handler
    <2> HIDE DEF h, r
    <2>6. /\ j \in Ids /\ j \notin Stored(mem) /\ j \in Stored(mem') /\ mem'[j] = r
          /\ \A k \in Ids \ {j} : mem'[k] = mem[k]
      BY <1>0, <2>3, <2>4, AddedMemory DEF Rows
    <2>7. Stored(mem') = Stored(mem) \cup {j} /\ Active(mem') = Active(mem)
      BY <2>4, <2>6 DEF Stored, Active
    <2>8. g.stage = "archive"
      BY <2>1, <2>2 DEF Fits, Shape
    <2>9. ASSUME Trusted(g) PROVE Place(h(j), mem', cache')
      BY <2>1, <2>2, <2>5, <2>7, <2>8, <2>9 DEF Place, Apart
    <2>10. QED
      BY <2>1, <2>2, <2>3, <2>5, <2>9, SettledGoesOn DEF g, Trusted
  <1>17. ASSUME NEW e \in Executors, CacheCopy(e) PROVE SettledInv'
    <2> DEFINE g == exec[e]
               h == [g EXCEPT !.pc = "delete", !.copy = Null, !.item = Null]
               r == [g.item EXCEPT !.created = IF g.stage = "archive"
                                                 THEN g.seen[g.cur].created ELSE clock]
    <2>1. /\ g.pc = "cacheCopy" /\ mem' = mem /\ auto' = auto /\ disturbed' = disturbed
          /\ cache' = [cache EXCEPT ![g.copy] = Upserted(@, r)] /\ Goto(e, h)
      BY <1>17 DEF CacheCopy
    <2>2. /\ g \in Handler /\ Fits(g) /\ Busy(e) /\ (g.failed => g.stage = "rewrite")
          /\ Trusted(g) => Place(g, mem, cache)
      BY <1>0, <1>1, <1>2, <2>1
    <2> HIDE DEF g
    <2>3. r \in Record
      BY <1>0, <2>1, <2>2, CopiedType
    <2> HIDE DEF r
    <2>4. g.copy \in Ids /\ g.stage \in {"archive", "rewrite"}
      BY <2>1, <2>2 DEF Fits, Shape, Handler
    <2>5. Upserted(cache[g.copy], r) # Null
      BY <1>0, <2>3, <2>4, UpsertedRow DEF Rows
    <2>6. Stored(cache') = Stored(cache) \cup {g.copy}
      BY <1>0, <2>1, <2>4, <2>5 DEF Stored, Rows
    <2>7. /\ h.op = g.op /\ h.stage = g.stage /\ h.pc = "delete"
          /\ h.failed = g.failed /\ h.scoped = g.scoped /\ h.todo = g.todo
          /\ h.cur = g.cur /\ h.seen = g.seen
      BY <2>2 DEF Handler
    <2> HIDE DEF h
    <2>8. ASSUME Trusted(g) PROVE Place(h, mem', cache')
      BY <2>1, <2>2, <2>4, <2>6, <2>7, <2>8 DEF Place, Apart
    <2>9. QED
      BY <2>1, <2>2, <2>7, <2>8, SettledGoesOn DEF g, Trusted
  <1>18. ASSUME NEW e \in Executors, Delete(e) PROVE SettledInv'
    <2> DEFINE g == exec[e]
               h(i) == [g EXCEPT !.pc = "uncache", !.cur = i]
    <2>1. PICK i \in Targets(g) :
            /\ mem[i] # Null /\ mem' = [mem EXCEPT ![i] = Null] /\ cache' = cache
            /\ Goto(e, h(i)) /\ auto' = auto /\ disturbed' = disturbed
      BY <1>18 DEF Delete
    <2>2. g \in Handler /\ Fits(g) /\ (g.failed => g.stage = "rewrite")
      BY <1>0
    <2>3. /\ i \in Ids /\ i \in g.todo /\ g.op # "none"
          /\ \/ g.pc = "loop" /\ g.stage \in {"noise", "dups", "forget", "rollback"}
             \/ g.pc = "delete" /\ g.stage \in {"archive", "rewrite"} /\ i = g.cur
      BY <2>1, <2>2, TargetsFit
    <2>4. Trusted(g) => Place(g, mem, cache)
      BY <1>1, <2>3 DEF Busy
    <2> HIDE DEF g
    <2>5. /\ Stored(mem') = Stored(mem) \ {i} /\ i \in Stored(mem)
          /\ Active(mem') = Active(mem) \ {i}
      BY <1>0, <2>1, <2>3 DEF Stored, Active, Rows
    <2>6. /\ h(i).op = g.op /\ h(i).stage = g.stage /\ h(i).pc = "uncache"
          /\ h(i).failed = g.failed /\ h(i).scoped = g.scoped /\ h(i).todo = g.todo
          /\ h(i).cur = i /\ h(i).seen = g.seen
      BY <2>2 DEF Handler
    <2> HIDE DEF h
    <2>7. ASSUME Trusted(g) PROVE Place(h(i), mem', cache')
      <3>1. Place(g, mem, cache)
        BY <2>4, <2>7
      <3>2. /\ ~g.failed /\ g.stage # "rollback" /\ Stored(mem) = Stored(cache)
            /\ g.stage # "upsert" /\ g.stage # "none"
        BY <2>3, <3>1 DEF Place, Apart
      <3>3. Stored(mem') = Stored(cache') \ {i}
        BY <2>1, <2>5, <3>2
      <3>4. auto => /\ g.op \in {"forget", "rebuild"} => AtMostOne(Active(mem'))
                    /\ g.stage = "archive" => AtMostOne(Active(mem') \ g.todo)
        BY <2>5, <3>1 DEF Place, AtMostOne
      <3>5. g.stage \in {"noise", "rewrite", "dups", "forget"} =>
              \A k \in g.todo : k \in Stored(mem') \/ k = i
        BY <2>3, <2>5, <3>1 DEF Place
      <3>6. g.stage = "noise" => Stored(g.seen) \ NoiseRows(g.seen) \subseteq Stored(mem')
        BY <2>2, <2>3, <2>5, <3>1 DEF Place, Fits, Chosen
      <3>7. g.stage = "rewrite" => Duplicates(g.seen) \subseteq Stored(mem')
        BY <2>2, <2>3, <2>5, <3>1 DEF Place, Fits, Chosen, Rewrites
      <3>8. QED
        BY <2>1, <2>6, <3>2, <3>3, <3>4, <3>5, <3>6, <3>7 DEF Place, Apart
    <2>8. QED
      BY <2>1, <2>2, <2>3, <2>6, <2>7, SettledGoesOn DEF g, Trusted, Busy
  <1>19. ASSUME NEW e \in Executors, Uncache(e) PROVE SettledInv'
    <2> DEFINE g == exec[e]
               h == [g EXCEPT !.pc = "loop", !.todo = @ \ {g.cur}, !.cur = Null,
                              !.item = Null]
    <2>1. /\ g.pc = "uncache" /\ mem' = mem /\ auto' = auto /\ disturbed' = disturbed
          /\ cache' = [cache EXCEPT ![g.cur] = Null] /\ Goto(e, h)
      BY <1>19 DEF Uncache
    <2>2. /\ g \in Handler /\ Fits(g) /\ Busy(e) /\ (g.failed => g.stage = "rewrite")
          /\ Trusted(g) => Place(g, mem, cache)
      BY <1>0, <1>1, <1>2, <2>1
    <2> HIDE DEF g
    <2>3. g.cur \in Ids /\ g.stage # "upsert"
      BY <2>1, <2>2 DEF Fits, Shape, Handler
    <2>4. Stored(cache') = Stored(cache) \ {g.cur}
      BY <1>0, <2>1, <2>3 DEF Stored, Rows
    <2>5. /\ h.op = g.op /\ h.stage = g.stage /\ h.pc = "loop" /\ h.failed = g.failed
          /\ h.scoped = g.scoped /\ h.todo = g.todo \ {g.cur} /\ h.seen = g.seen
      BY <2>2 DEF Handler
    <2> HIDE DEF h
    <2>6. ASSUME Trusted(g) PROVE Place(h, mem', cache')
      <3>1. Place(g, mem, cache)
        BY <2>2, <2>6
      <3>2. Stored(mem) = Stored(cache) \ {g.cur}
        BY <2>1, <2>3, <3>1 DEF Place, Apart
      <3>3. Active(mem) \subseteq Stored(mem)
        BY DEF Active
      <3>4. auto /\ g.stage = "archive" => AtMostOne(Active(mem) \ h.todo)
        BY <2>5, <3>1, <3>2, <3>3 DEF Place, AtMostOne
      <3>5. QED
        BY <2>1, <2>3, <2>4, <2>5, <2>6, <3>1, <3>2, <3>4 DEF Place, Apart
    <2>7. QED
      BY <2>1, <2>2, <2>5, <2>6, SettledGoesOn DEF g, Trusted
  <1>20. ASSUME NEW e \in Executors, NEW i, Busy(e), Goto(e, Raised(exec[e], i)),
                disturbed' = TRUE
         PROVE  SettledInv'
    <2> DEFINE g == exec[e]
    <2>1. g \in Handler
      BY <1>0
    <2>2. CASE g.op = "store" /\ g.stage = "archive"
      <3> DEFINE h == [Idle EXCEPT !.op = "store", !.stage = "rollback", !.pc = "loop",
                                   !.todo = {g.new}]
      <3>1. Goto(e, h) /\ h.op = "store" /\ h.failed = FALSE
        BY <1>20, <2>2 DEF Raised, Idle
      <3> HIDE DEF h
      <3>2. QED
        BY <1>20, <2>2, <3>1, SettledGivesUp
    <2>3. CASE g.stage = "rewrite"
      <3> DEFINE h == [g EXCEPT !.pc = "loop", !.failed = TRUE, !.todo = @ \ {i},
                                !.cur = Null, !.copy = Null, !.item = Null]
      <3>1. Fits(g)
        BY <1>0
      <3>2. Goto(e, h)
        BY <1>20, <2>3, <3>1 DEF Raised, Fits, Shape
      <3> HIDE DEF g
      <3>3. h.op = g.op /\ h.stage = "rewrite" /\ h.failed = TRUE
        BY <2>1, <2>3 DEF Handler
      <3> HIDE DEF h
      <3>4. QED
        BY <1>20, <3>2, <3>3, SettledGivesUp DEF g
    <2>4. CASE ~(g.op = "store" /\ g.stage = "archive") /\ g.stage # "rewrite"
      <3>1. Goto(e, Idle) /\ Idle.op = "none" /\ Idle.failed = FALSE
        BY <1>20, <2>4 DEF Raised, Idle
      <3>2. QED
        BY <1>20, <3>1, SettledGivesUp
    <2>5. QED
      BY <2>2, <2>3, <2>4
  <1>21. ASSUME NEW e \in Executors, DeleteRaises(e) PROVE SettledInv'
    <2> DEFINE g == exec[e]
    <2>1. PICK i \in Targets(g) : mem[i] = Null /\ Goto(e, Raised(g, i))
      BY <1>21 DEF DeleteRaises
    <2>2. g \in Handler /\ Fits(g)
      BY <1>0
    <2>3. /\ i \in Ids /\ i \in g.todo /\ g.op # "none"
          /\ \/ g.pc = "loop" /\ g.stage \in {"noise", "dups", "forget", "rollback"}
             \/ g.pc = "delete" /\ g.stage \in {"archive", "rewrite"} /\ i = g.cur
      BY <2>1, <2>2, TargetsFit
    <2>4. ~Trusted(g)
      <3>1. Place(g, mem, cache) => i \in Stored(mem)
        BY <2>3 DEF Place
      <3>2. QED
        BY <1>1, <2>1, <2>3, <3>1 DEF Stored, Busy
    <2>5. disturbed' = TRUE
      BY <1>21, <2>4 DEF Trusted, DeleteRaises, FactInv, TypeOK
    <2>6. QED
      BY <1>20, <2>1, <2>3, <2>5 DEF Busy
  <1>22. ASSUME NEW e \in Executors, CallFails(e) PROVE SettledInv'
    BY <1>2, <1>20, <1>22 DEF CallFails
  <1>23. ASSUME NEW e \in Executors, EndLoop(e) PROVE SettledInv'
    <2> DEFINE g == exec[e]
               h == AfterLoop(g)
    <2>1. /\ g.pc = "loop" /\ g.stage # "upsert" /\ g.todo = {} /\ Goto(e, h)
          /\ mem' = mem /\ cache' = cache /\ auto' = auto
          /\ disturbed' = (disturbed /\ ~(/\ g.op = "consolidate" /\ g.stage = "archive"
                                          /\ g.scoped /\ QuietConsolidation))
      BY <1>23 DEF EndLoop
    <2>2. /\ g \in Handler /\ Fits(g) /\ Busy(e) /\ (g.failed => g.stage = "rewrite")
          /\ Trusted(g) => Place(g, mem, cache)
      BY <1>0, <1>1, <1>2, <2>1
    <2>3. disturbed \in BOOLEAN
      BY DEF FactInv, TypeOK
    <2> HIDE DEF g
    <2>4. CASE g.stage = "noise"
      <3>1. /\ h.op = g.op /\ h.seen = g.seen /\ h.scoped = g.scoped /\ h.failed = g.failed
            /\ h.stage = "rewrite" /\ h.pc = "loop" /\ h.todo = Rewrites(g.seen)
        BY <2>1, <2>2, <2>4 DEF AfterLoop, Handler
      <3> HIDE DEF h
      <3>2. ASSUME Trusted(g) PROVE Place(h, mem', cache')
        <4>1. /\ Stored(mem) = Stored(cache) /\ ~g.failed
              /\ Stored(g.seen) \ NoiseRows(g.seen) \subseteq Stored(mem)
          BY <2>1, <2>2, <2>4, <3>2 DEF Place, Apart
        <4>2. Rewrites(g.seen) \cup Duplicates(g.seen) \subseteq Stored(mem)
          BY <4>1 DEF Rewrites, Duplicates
        <4>3. g.op = "consolidate"
          BY <2>2, <2>4 DEF Fits, Shape
        <4>4. QED
          BY <2>1, <3>1, <4>1, <4>2, <4>3 DEF Place, Apart
      <3>3. QED
        BY <2>1, <2>2, <2>3, <2>4, <3>1, <3>2, SettledGoesOn DEF g, Trusted
    <2>5. CASE g.stage = "rewrite" /\ ~g.failed
      <3>1. /\ h.op = g.op /\ h.scoped = g.scoped /\ h.failed = g.failed
            /\ h.stage = "dups" /\ h.pc = "loop" /\ h.todo = Duplicates(g.seen)
        BY <2>1, <2>2, <2>5 DEF AfterLoop, Handler
      <3> HIDE DEF h
      <3>2. ASSUME Trusted(g) PROVE Place(h, mem', cache')
        <4>1. g.op = "consolidate"
          BY <2>2, <2>5 DEF Fits, Shape
        <4>2. QED
          BY <2>1, <2>2, <2>5, <3>1, <3>2, <4>1 DEF Place, Apart
      <3>3. QED
        BY <2>1, <2>2, <2>3, <2>5, <3>1, <3>2, SettledGoesOn DEF g, Trusted
    <2>6. CASE g.stage = "dups"
      <3>1. /\ h.op = g.op /\ h.scoped = g.scoped /\ h.failed = g.failed
            /\ h.stage = "none" /\ h.pc = "select"
        BY <2>1, <2>2, <2>6 DEF AfterLoop, Handler
      <3> HIDE DEF h
      <3>2. ASSUME Trusted(g) PROVE Place(h, mem', cache')
        <4>1. g.op = "consolidate"
          BY <2>2, <2>6 DEF Fits, Shape
        <4>2. QED
          BY <2>1, <2>2, <2>6, <3>1, <3>2, <4>1 DEF Place, Apart
      <3>3. QED
        BY <2>1, <2>2, <2>3, <2>6, <3>1, <3>2, SettledGoesOn DEF g, Trusted
    <2>7. CASE g.stage \notin {"noise", "rewrite", "dups"} \/ (g.stage = "rewrite" /\ g.failed)
      <3>1. Goto(e, Idle)
        BY <2>1, <2>7 DEF AfterLoop
      <3>2. ASSUME ~disturbed' PROVE Rested(mem', cache')
        <4>1. Trusted(g)
          BY <2>1, <2>2, <2>3, <3>2 DEF Trusted
        <4>2. /\ Stored(mem) = Stored(cache) /\ g.stage \notin {"none", "rewrite", "rollback"}
              /\ auto /\ g.op \in {"forget", "rebuild"} => AtMostOne(Active(mem))
              /\ auto /\ g.stage = "archive" => AtMostOne(Active(mem) \ g.todo)
          BY <2>1, <2>2, <2>7, <4>1 DEF Place, Apart
        <4>3. g.stage \in {"archive", "forget"} /\ (g.stage = "forget" => g.op = "forget")
          BY <2>1, <2>2, <2>7, <4>2 DEF Handler, Stages, Fits, Shape
        <4>4. Active(mem) \ g.todo = Active(mem)
          BY <2>1
        <4>5. QED
          BY <2>1, <4>2, <4>3, <4>4 DEF Rested
      <3>3. \/ disturbed' = disturbed
            \/ QuietConsolidation /\ exec[e].op = "consolidate"
        BY <2>1, <2>3 DEF g
      <3>4. QED
        BY <2>1, <2>2, <3>1, <3>2, <3>3, SettledEnds
    <2>8. QED
      BY <2>4, <2>5, <2>6, <2>7
  <1>24. CASE Crash
    <2>1. Idle.op = "none" /\ Idle.failed = FALSE /\ \A e \in Executors : exec'[e] = Idle
      BY <1>24 DEF Idle, Crash
    <2>2. QED
      BY <1>24, <2>1 DEF Crash, SettledInv, Sole, Busy
  <1>25. CASE UNCHANGED vars
    <2>1. UNCHANGED <<mem, cache, exec, auto, disturbed>>
      BY <1>25 DEF vars
    <2>2. QED
      BY <2>1 DEF SettledInv, Sole, Busy, Trusted, Place, Rested, Apart, Rebuilt,
                  AtMostOne, Stored, Active, NoiseRows, Duplicates, SameFact, Precedes,
                  IsRewritten
  <1>26. QED
    BY <1>3, <1>4, <1>6, <1>7, <1>8, <1>9, <1>10, <1>11, <1>12, <1>13, <1>14, <1>15,
       <1>16, <1>17, <1>18, <1>19, <1>21, <1>22, <1>23, <1>24, <1>25 DEF Next, Proceed

LEMMA InitSettled == Init => SettledInv
  <1> SUFFICES ASSUME Init PROVE SettledInv
    OBVIOUS
  <1>1. Idle.op = "none" /\ Idle.failed = FALSE /\ \A e \in Executors : exec[e] = Idle
    BY DEF Idle, Init
  <1>2. Stored(mem) = {} /\ mem = cache /\ Active(mem) = {}
    BY DEF Init, NoRecords, Stored, Active
  <1>3. QED
    BY <1>1, <1>2 DEF SettledInv, Sole, Busy, Rested, AtMostOne

\* Whatever ran before: once requests have come one at a time, without a fault,
\* since the start or since a consolidation of the user that had the system to
\* itself, the stores agree and an auto-superseded fact has at most one current
\* version whenever nothing runs.
THEOREM RestIsHealthy == Spec => []HealthyAtRest
  <1>1. Init => FactInv /\ SameEverywhere /\ SettledInv
    BY InitFact, InitSame, InitSettled
  <1>2. FactInv /\ SameEverywhere /\ SettledInv /\ [Next]_vars
          => (FactInv /\ SameEverywhere /\ SettledInv)'
    BY StepFact, StepSame, StepSettled
  <1>3. FactInv /\ SameEverywhere /\ SettledInv => HealthyAtRest
    BY RestedIsHealthy DEF SettledInv, HealthyAtRest
  <1>4. QED
    BY <1>1, <1>2, <1>3, PTL DEF Spec

-----------------------------------------------------------------------------
(* Part 5: what a consolidation leaves is tidy *)

\* A consolidation that rebuilt, deduplicates and has rewritten all so far.
Earnest(h) == h.op = "consolidate" /\ h.scoped /\ h.dedupe /\ ~h.failed

\* The memories of S have the judge's wording.
Worded(S, m) == \A k \in S : Canonical[m[k].text] = m[k].text

\* No two memories of S say the same.
Distinct(S, m) == \A i, j \in S : Canonical[m[i].text] = Canonical[m[j].text] => i = j

\* The memory whose copy is already there.
Doubled(h) == IF h.pc \in {"cacheCopy", "delete"} THEN {h.cur} ELSE {}

\* What is tidy already, outside what the loop it is in still has to do.
Tidying(h, m) ==
  Earnest(h) =>
    /\ h.stage = "noise" =>
         Stored(m) \subseteq Stored(h.seen) /\ Stored(m) \cap NoiseRows(h.seen) \subseteq h.todo
    /\ h.stage = "rewrite" =>
         /\ Stored(m) \cap NoiseRows(h.seen) = {}
         /\ Stored(m) \cap Rewrites(h.seen) \subseteq h.todo
         /\ Worded(Stored(m) \ Stored(h.seen), m)
         /\ Distinct(Stored(m) \ (Duplicates(h.seen) \cup Doubled(h)), m)
    /\ h.stage = "dups" => Worded(Stored(m) \ h.todo, m) /\ Distinct(Stored(m) \ h.todo, m)
    /\ h.pc = "select" \/ h.stage = "archive" =>
         Worded(Stored(m), m) /\ Distinct(Stored(m) \ Doubled(h), m)

TidyInv == \A e \in Executors : Tidying(exec[e], mem)

\* Of two rows that say the same one precedes the other.
LEMMA OnePrecedes ==
  ASSUME NEW s \in Rows, NEW i \in Stored(s), NEW j \in Stored(s), i # j
  PROVE  Precedes(s, i, j) \/ Precedes(s, j, i)
  <1>1. i \in Nat /\ j \in Nat /\ s[i] \in Record /\ s[j] \in Record
    BY FactConstantsOK DEF Stored, Rows
  <1>2. s[i].created \in Nat /\ s[j].created \in Nat
    BY <1>1 DEF Record
  <1>3. IsRewritten(s[i]) \in BOOLEAN /\ IsRewritten(s[j]) \in BOOLEAN
    BY DEF IsRewritten
  <1>4. \/ s[i].created < s[j].created
        \/ s[j].created < s[i].created
        \/ s[i].created = s[j].created /\ (i < j \/ j < i)
    BY <1>1, <1>2
  <1>5. QED
    BY <1>3, <1>4 DEF Precedes

\* What an id says is what a handler that has read it knows.
LEMMA SaysTheSame ==
  ASSUME SameEverywhere, NEW e \in Executors
  PROVE  /\ \A i \in Stored(mem) \cap Stored(exec[e].seen) : mem[i].text = exec[e].seen[i].text
         /\ exec[e].pc = "copy" /\ exec[e].item # Null /\ exec[e].cur \in Stored(mem) =>
              mem[exec[e].cur].text = exec[e].item.text
  <1>1. PICK C \in Rows : View(mem, C) /\ HandlerView(exec[e], C)
    BY DEF SameEverywhere, Views
  <1>2. QED
    BY <1>1 DEF View, HandlerView, SameContent, Stored

LEMMA TidyGoesOn ==
  ASSUME QuietConsolidation, FactInv, SettledInv, TidyInv, NEW e \in Executors, NEW h,
         Goto(e, h), Busy(e) \/ mem' = mem, Tidying(h, mem')
  PROVE  TidyInv'
  <1>1. exec'[e] = h /\ \A f \in Executors \ {e} : exec'[f] = exec[f]
    BY GotoMoves
  <1>2. ASSUME NEW f \in Executors \ {e} PROVE Tidying(exec[f], mem')
    <2>1. CASE mem' = mem
      BY <2>1 DEF TidyInv
    <2>2. CASE Busy(e)
      <3>1. exec[f].op # "consolidate"
        BY <2>2 DEF SettledInv, Sole, Busy
      <3>2. QED
        BY <3>1 DEF Tidying, Earnest
    <2>3. QED
      BY <2>1, <2>2
  <1>3. \A f \in Executors : Tidying(exec'[f], mem')
    BY <1>1, <1>2
  <1>4. QED
    BY <1>3 DEF TidyInv, Tidying, Worded, Distinct, Stored, Earnest, Doubled, NoiseRows,
                Duplicates, Rewrites, SameFact, Precedes, IsRewritten

LEMMA NotEarnest ==
  ASSUME NEW h, ~Earnest(h), NEW m
  PROVE  Tidying(h, m)
  BY DEF Tidying

LEMMA StepTidy ==
  ASSUME QuietConsolidation, JudgeIsStable
  PROVE  FactInv /\ SameEverywhere /\ SettledInv /\ TidyInv /\ [Next]_vars => TidyInv'
  <1> SUFFICES ASSUME FactInv, SameEverywhere, SettledInv, TidyInv, [Next]_vars
               PROVE  TidyInv'
    OBVIOUS
  <1> USE NullIsNothing
  <1>0. /\ mem \in Rows /\ cache \in Rows /\ exec \in [Executors -> Handler]
        /\ clock \in Nat
        /\ \A e \in Executors : Fits(exec[e]) /\ Tidying(exec[e], mem)
    BY DEF FactInv, TypeOK, Rows, TidyInv
  <1>1. ASSUME NEW e \in Executors, Earnest(exec[e])
        PROVE  Place(exec[e], mem, cache) /\ exec[e].op = "consolidate"
    BY <1>1 DEF SettledInv, Earnest, Trusted, Busy
  <1>2. ASSUME NEW e \in Executors, exec[e].pc # "idle" PROVE Busy(e)
    BY <1>0, <1>2 DEF Fits, Shape, Busy
  <1>3. ASSUME NEW e \in Executors, NEW h, Goto(e, h), mem' = mem, h.op # "consolidate"
        PROVE  TidyInv'
    BY <1>3, NotEarnest, TidyGoesOn DEF Earnest
  <1>4. ASSUME NEW e \in Executors, NEW t \in Texts, BeginStore(e, t) PROVE TidyInv'
    <2> DEFINE h == [Idle EXCEPT !.op = "store", !.pc = "add", !.text = t,
                       !.status = StatusOfNew(t), !.now = clock + 1,
                       !.todo = ToSupersede(t),
                       !.seen = [i \in Ids |-> IF i \in ToSupersede(t)
                                                 THEN cache[i] ELSE Null]]
    <2>1. Goto(e, h) /\ mem' = mem
      BY <1>4 DEF BeginStore
    <2>2. h.op = "store"
      BY DEF Idle
    <2> HIDE DEF h
    <2>3. QED
      BY <1>3, <2>1, <2>2
  <1>5. ASSUME NEW e \in Executors, NEW i \in Ids, BeginForget(e, i) PROVE TidyInv'
    <2> DEFINE h == [Idle EXCEPT !.op = "forget", !.stage = "forget", !.pc = "loop",
                                 !.todo = {i}]
    <2>1. Goto(e, h) /\ mem' = mem
      BY <1>5 DEF BeginForget
    <2>2. h.op = "forget"
      BY DEF Idle
    <2> HIDE DEF h
    <2>3. QED
      BY <1>3, <2>1, <2>2
  <1>6. ASSUME NEW e \in Executors, BeginRebuild(e) PROVE TidyInv'
    <2> DEFINE h == Rebuilding([Idle EXCEPT !.op = "rebuild"])
    <2>1. Goto(e, h) /\ mem' = mem
      BY <1>6 DEF BeginRebuild
    <2>2. h.op = "rebuild"
      BY DEF Rebuilding, Idle
    <2> HIDE DEF h
    <2>3. QED
      BY <1>3, <2>1, <2>2
  <1>7. ASSUME NEW e \in Executors, NEW r \in Requests, BeginConsolidation(e, r[1], r[2])
        PROVE  TidyInv'
    <2> DEFINE k == [Idle EXCEPT !.op = "consolidate", !.scoped = r[1], !.dedupe = r[2]]
    <2>1. /\ mem' = mem
          /\ Goto(e, IF r[1] THEN Rebuilding(k) ELSE [k EXCEPT !.pc = "read"])
      BY <1>7 DEF BeginConsolidation
    <2>2. /\ k \in Handler /\ k.stage = "none" /\ k.scoped = r[1]
      <3>1. Idle \in Handler /\ r[1] \in BOOLEAN /\ r[2] \in BOOLEAN
        BY IdleFits, FactConstantsOK DEF Fits
      <3>2. k \in Handler
        BY <3>1 DEF Handler, Ops
      <3>3. QED
        BY <3>2 DEF Idle
    <2> HIDE DEF k
    <2>3. CASE r[1]
      <3> DEFINE h == Rebuilding(k)
      <3>1. h.stage = "upsert" /\ h.pc = "loop" /\ Goto(e, h)
        BY <2>1, <2>2, <2>3 DEF Rebuilding, Handler
      <3> HIDE DEF h
      <3>2. Tidying(h, mem')
        BY <3>1 DEF Tidying
      <3>3. QED
        BY <2>1, <3>1, <3>2, TidyGoesOn
    <2>4. CASE ~r[1]
      <3> DEFINE h == [k EXCEPT !.pc = "read"]
      <3>1. ~h.scoped /\ Goto(e, h)
        BY <2>1, <2>2, <2>4 DEF Handler
      <3> HIDE DEF h
      <3>2. QED
        BY <2>1, <3>1, NotEarnest, TidyGoesOn DEF Earnest
    <2>5. QED
      BY <2>3, <2>4
  <1>8. ASSUME NEW e \in Executors, AddNew(e) PROVE TidyInv'
    <2> DEFINE g == exec[e]
               h(j) == [g EXCEPT !.pc = "cacheNew", !.new = j]
    <2>1. PICK j \in FreeIds : Goto(e, h(j)) /\ g.pc = "add"
      BY <1>8 DEF AddNew
    <2>2. g \in Handler /\ Fits(g) /\ Busy(e)
      BY <1>0, <1>2, <2>1
    <2> HIDE DEF g
    <2>3. h(j).op = "store"
      BY <2>1, <2>2 DEF Fits, Shape, Handler
    <2> HIDE DEF h
    <2>4. QED
      BY <2>1, <2>2, <2>3, NotEarnest, TidyGoesOn DEF Earnest
  <1>9. ASSUME NEW e \in Executors, CacheNew(e) PROVE TidyInv'
    <2> DEFINE g == exec[e]
               h == [g EXCEPT !.pc = "loop", !.stage = "archive"]
    <2>1. g.pc = "cacheNew" /\ Goto(e, h) /\ mem' = mem
      BY <1>9 DEF CacheNew
    <2>2. g \in Handler /\ Fits(g)
      BY <1>0
    <2> HIDE DEF g
    <2>3. h.op = "store"
      BY <2>1, <2>2 DEF Fits, Shape, Handler
    <2> HIDE DEF h
    <2>4. QED
      BY <1>3, <2>1, <2>3
  <1>10. ASSUME NEW e \in Executors, UpsertItem(e) PROVE TidyInv'
    <2> DEFINE g == exec[e]
               h(i) == [g EXCEPT !.todo = @ \ {i}]
    <2>1. PICK i \in g.todo : g.stage = "upsert" /\ mem' = mem /\ Goto(e, h(i))
      BY <1>10 DEF UpsertItem
    <2>2. g \in Handler /\ Fits(g)
      BY <1>0
    <2> HIDE DEF g
    <2>3. h(i).stage = "upsert" /\ h(i).pc = "loop"
      BY <2>1, <2>2 DEF Fits, Shape, Handler
    <2> HIDE DEF h
    <2>4. Tidying(h(i), mem')
      BY <2>3 DEF Tidying
    <2>5. QED
      BY <2>1, <2>4, TidyGoesOn
  <1>11. ASSUME NEW e \in Executors, Prune(e) PROVE TidyInv'
    <2> DEFINE g == exec[e]
               h == [g EXCEPT !.stage = "none", !.pc = "read", !.seen = NoRecords]
    <2>1. mem' = mem /\ (Goto(e, Idle) \/ Goto(e, h))
      BY <1>11 DEF Prune
    <2>2. g \in Handler
      BY <1>0
    <2> HIDE DEF g
    <2>3. h.stage = "none" /\ h.pc = "read" /\ Idle.op = "none"
      BY <2>2 DEF Handler, Idle
    <2> HIDE DEF h
    <2>4. Tidying(h, mem')
      BY <2>3 DEF Tidying
    <2>5. QED
      BY <1>3, <2>1, <2>3, <2>4, TidyGoesOn
  <1>12. ASSUME NEW e \in Executors, ReadRows(e) PROVE TidyInv'
    <2> DEFINE g == exec[e]
    <2>1. g.pc = "read" /\ mem' = mem
      BY <1>12 DEF ReadRows
    <2>2. g \in Handler /\ Fits(g) /\ (Earnest(g) => Place(g, mem, cache))
      BY <1>0, <1>1
    <2>3. g.op = "consolidate" /\ g.stage = "none"
      BY <2>1, <2>2 DEF Fits, Shape
    <2>4. CASE g.dedupe
      <3> DEFINE h == [g EXCEPT !.stage = "noise", !.pc = "loop", !.seen = cache,
                                !.todo = NoiseRows(cache)]
      <3>1. Goto(e, h)
        BY <1>12, <2>4 DEF ReadRows
      <3> HIDE DEF g
      <3>2. /\ h.op = g.op /\ h.stage = "noise" /\ h.pc = "loop" /\ h.failed = g.failed
            /\ h.scoped = g.scoped /\ h.dedupe = g.dedupe
            /\ h.seen = cache /\ h.todo = NoiseRows(cache)
        BY <2>2 DEF Handler
      <3> HIDE DEF h
      <3>3. Tidying(h, mem')
        BY <2>1, <2>2, <2>3, <3>2 DEF Place, Apart, Tidying, Earnest
      <3>4. QED
        BY <2>1, <3>1, <3>3, TidyGoesOn
    <2>5. CASE ~g.dedupe
      <3> DEFINE h == [g EXCEPT !.pc = "select"]
      <3>1. Goto(e, h)
        BY <1>12, <2>5 DEF ReadRows
      <3> HIDE DEF g
      <3>2. h.dedupe = g.dedupe
        BY <2>2 DEF Handler
      <3> HIDE DEF h
      <3>3. QED
        BY <2>1, <2>5, <3>1, <3>2, NotEarnest, TidyGoesOn DEF Earnest
    <2>6. QED
      BY <2>4, <2>5
  <1>13. ASSUME NEW e \in Executors, AddRewritten(e) PROVE TidyInv'
    <2> DEFINE g == exec[e]
               r(i) == [g.seen[i] EXCEPT !.text = Canonical[g.seen[i].text],
                                         !.created = clock]
               h(i, j) == [g EXCEPT !.pc = "cacheCopy", !.cur = i, !.copy = j,
                                    !.item = r(i)]
    <2>1. PICK i \in g.todo, j \in FreeIds :
            mem' = [mem EXCEPT ![j] = r(i)] /\ Goto(e, h(i, j))
      BY <1>13 DEF AddRewritten
    <2>2. g.pc = "loop" /\ g.stage = "rewrite"
      BY <1>13 DEF AddRewritten
    <2>3. /\ g \in Handler /\ Fits(g) /\ Busy(e) /\ (Earnest(g) => Place(g, mem, cache))
          /\ Tidying(g, mem)
          /\ \A k \in Stored(mem) \cap Stored(g.seen) : mem[k].text = g.seen[k].text
      BY <1>0, <1>1, <1>2, <2>2, SaysTheSame
    <2>4. j \notin Mentions(g)
      BY <2>1 DEF FreeIds
    <2> HIDE DEF g
    <2>5. /\ i \in Ids /\ g.seen[i] \in Record /\ Canonical[g.seen[i].text] \in Texts
          /\ r(i) \in Record
      BY <1>0, <2>1, <2>2, <2>3, RewrittenType
    <2>6. r(i).text = Canonical[g.seen[i].text] /\ Canonical[r(i).text] = r(i).text
      BY <2>5 DEF JudgeIsStable, Record
    <2>7. /\ h(i, j).op = g.op /\ h(i, j).stage = "rewrite" /\ h(i, j).pc = "cacheCopy"
          /\ h(i, j).failed = g.failed /\ h(i, j).scoped = g.scoped
          /\ h(i, j).dedupe = g.dedupe /\ h(i, j).cur = i
          /\ h(i, j).todo = g.todo /\ h(i, j).seen = g.seen
      BY <2>2, <2>3 DEF Handler
    <2> HIDE DEF h, r
    <2>8. /\ j \in Ids /\ j \notin Stored(mem) /\ mem'[j] = r(i)
          /\ \A k \in Ids \ {j} : mem'[k] = mem[k]
          /\ Stored(mem') = Stored(mem) \cup {j} /\ j \notin Stored(g.seen)
      <3>1. /\ j \in Ids /\ j \notin Stored(mem) /\ mem'[j] = r(i)
            /\ \A k \in Ids \ {j} : mem'[k] = mem[k]
        BY <1>0, <2>1, <2>5, AddedMemory DEF Rows
      <3>2. Stored(mem') = Stored(mem) \cup {j}
        BY <2>5, <3>1 DEF Stored
      <3>3. QED
        BY <2>4, <3>1, <3>2 DEF Mentions
    <2>9. ASSUME Earnest(g) PROVE Tidying(h(i, j), mem')
      <3> DEFINE D == Duplicates(g.seen)
      <3>1. /\ Stored(mem) \cap NoiseRows(g.seen) = {}
            /\ Stored(mem) \cap Rewrites(g.seen) \subseteq g.todo
            /\ Worded(Stored(mem) \ Stored(g.seen), mem)
            /\ Distinct(Stored(mem) \ D, mem)
            /\ g.todo \subseteq Stored(mem)
            /\ g.todo \subseteq Rewrites(g.seen)
        BY <2>2, <2>3, <2>9 DEF Tidying, Doubled, Place, Fits, Chosen
      <3>2. i \in Stored(mem) \ D /\ mem[i].text = g.seen[i].text
        BY <2>1, <2>3, <3>1 DEF Rewrites
      <3>3. NoiseRows(g.seen) \subseteq Stored(g.seen) /\ Rewrites(g.seen) \subseteq Stored(g.seen)
        BY DEF NoiseRows, Rewrites
      <3> HIDE DEF D
      <3>4. Worded(Stored(mem') \ Stored(g.seen), mem')
        BY <2>6, <2>8, <3>1 DEF Worded, Stored
      <3>5. ASSUME NEW k \in Stored(mem) \ (D \cup {i})
            PROVE  Canonical[mem'[k].text] # Canonical[mem'[j].text]
        <4>1. Canonical[mem[k].text] # Canonical[mem[i].text]
          BY <3>1, <3>2, <3>5 DEF Distinct
        <4>2. Canonical[mem'[j].text] = Canonical[mem[i].text]
          BY <2>6, <2>8, <3>2
        <4>3. mem'[k] = mem[k]
          BY <2>8, <3>5 DEF Stored
        <4>4. QED
          BY <4>1, <4>2, <4>3
      <3>6. Distinct(Stored(mem') \ (D \cup {i}), mem')
        <4> SUFFICES ASSUME NEW k \in Stored(mem') \ (D \cup {i}),
                            NEW l \in Stored(mem') \ (D \cup {i}),
                            Canonical[mem'[k].text] = Canonical[mem'[l].text]
                     PROVE  k = l
          BY DEF Distinct
        <4>1. CASE k = j \/ l = j
          BY <2>8, <3>5, <4>1
        <4>2. CASE k # j /\ l # j
          <5>1. mem'[k] = mem[k] /\ mem'[l] = mem[l]
                   /\ k \in Stored(mem) \ D /\ l \in Stored(mem) \ D
            BY <2>8, <4>2 DEF Stored
          <5>2. QED
            BY <3>1, <5>1 DEF Distinct
        <4>3. QED
          BY <4>1, <4>2
      <3>7. QED
        BY <2>7, <2>8, <3>1, <3>3, <3>4, <3>6 DEF Tidying, Doubled, D
    <2>10. Tidying(h(i, j), mem')
      BY <2>7, <2>9, NotEarnest DEF Earnest
    <2>11. QED
      BY <2>1, <2>3, <2>10, TidyGoesOn
  <1>14. ASSUME NEW e \in Executors, SelectActive(e) PROVE TidyInv'
    <2> DEFINE g == exec[e]
               older == IF auto THEN OlderActive(cache) ELSE {}
               h == [g EXCEPT !.stage = "archive", !.pc = "loop", !.seen = cache,
                              !.todo = older]
    <2>1. g.pc = "select" /\ mem' = mem /\ Goto(e, h)
      BY <1>14 DEF SelectActive
    <2>2. g \in Handler /\ Tidying(g, mem)
      BY <1>0
    <2> HIDE DEF g
    <2>3. /\ h.op = g.op /\ h.stage = "archive" /\ h.pc = "loop" /\ h.failed = g.failed
          /\ h.scoped = g.scoped /\ h.dedupe = g.dedupe
      BY <2>2 DEF Handler
    <2> HIDE DEF h
    <2>4. Tidying(h, mem')
      BY <2>1, <2>2, <2>3 DEF Tidying, Earnest, Doubled
    <2>5. QED
      BY <2>1, <2>4, TidyGoesOn
  <1>15. ASSUME NEW e \in Executors, GetItem(e) PROVE TidyInv'
    <2> DEFINE g == exec[e]
               h(i) == [g EXCEPT !.pc = IF mem[i] = Null THEN "uncache" ELSE "copy",
                                 !.cur = i, !.item = mem[i]]
    <2>1. PICK i \in g.todo :
            Goto(e, h(i)) /\ g.pc = "loop" /\ g.stage = "archive" /\ mem' = mem
      BY <1>15 DEF GetItem
    <2>2. g \in Handler /\ Tidying(g, mem)
      BY <1>0
    <2> HIDE DEF g
    <2>3. /\ h(i).op = g.op /\ h(i).stage = "archive" /\ h(i).failed = g.failed
          /\ h(i).scoped = g.scoped /\ h(i).dedupe = g.dedupe
          /\ h(i).pc \in {"uncache", "copy"}
      BY <2>1, <2>2 DEF Handler
    <2> HIDE DEF h
    <2>4. Tidying(h(i), mem')
      BY <2>1, <2>2, <2>3 DEF Tidying, Earnest, Doubled
    <2>5. QED
      BY <2>1, <2>4, TidyGoesOn
  <1>16. ASSUME NEW e \in Executors, AddArchived(e) PROVE TidyInv'
    <2> DEFINE g == exec[e]
               r == [g.item EXCEPT !.status = "superseded", !.created = clock]
               h(j) == [g EXCEPT !.pc = "cacheCopy", !.copy = j, !.item = r]
    <2>1. PICK j \in FreeIds :
            mem' = [mem EXCEPT ![j] = r] /\ Goto(e, h(j)) /\ g.pc = "copy"
      BY <1>16 DEF AddArchived
    <2>2. /\ g \in Handler /\ Fits(g) /\ Busy(e) /\ (Earnest(g) => Place(g, mem, cache))
          /\ Tidying(g, mem)
          /\ g.item # Null /\ g.cur \in Stored(mem) => mem[g.cur].text = g.item.text
      BY <1>0, <1>1, <1>2, <2>1, SaysTheSame
    <2> HIDE DEF g
    <2>3. g.stage = "archive" /\ g.item \in Record
      BY <2>1, <2>2 DEF Fits, Shape, Handler
    <2>4. r \in Record /\ r.text = g.item.text
      BY <1>0, <2>3 DEF Record, FactStatuses
    <2>5. /\ h(j).op = g.op /\ h(j).stage = "archive" /\ h(j).pc = "cacheCopy"
          /\ h(j).failed = g.failed /\ h(j).scoped = g.scoped /\ h(j).dedupe = g.dedupe
          /\ h(j).cur = g.cur
      BY <2>2, <2>3 DEF Handler
    <2> HIDE DEF h, r
    <2>6. /\ j \in Ids /\ j \notin Stored(mem) /\ j \in Stored(mem') /\ mem'[j] = r
          /\ \A k \in Ids \ {j} : mem'[k] = mem[k]
      BY <1>0, <2>1, <2>4, AddedMemory DEF Rows
    <2>7. Stored(mem') = Stored(mem) \cup {j}
      BY <2>6 DEF Stored
    <2>8. ASSUME Earnest(g) PROVE Tidying(h(j), mem')
      <3>1. /\ Worded(Stored(mem), mem) /\ Distinct(Stored(mem), mem)
            /\ g.cur \in Stored(mem) /\ mem[g.cur].text = r.text
        BY <2>1, <2>2, <2>3, <2>4, <2>8 DEF Tidying, Doubled, Place
      <3>2. Worded(Stored(mem'), mem')
        BY <2>6, <2>7, <3>1 DEF Worded, Stored
      <3>3. ASSUME NEW k \in Stored(mem) \ {g.cur}
            PROVE  Canonical[mem'[k].text] # Canonical[mem'[j].text]
        BY <2>6, <3>1, <3>3 DEF Distinct, Stored
      <3>4. Distinct(Stored(mem') \ {g.cur}, mem')
        <4> SUFFICES ASSUME NEW k \in Stored(mem') \ {g.cur}, NEW l \in Stored(mem') \ {g.cur},
                            Canonical[mem'[k].text] = Canonical[mem'[l].text]
                     PROVE  k = l
          BY DEF Distinct
        <4>1. CASE k = j \/ l = j
          BY <2>7, <3>3, <4>1
        <4>2. CASE k # j /\ l # j
          <5>1. mem'[k] = mem[k] /\ mem'[l] = mem[l] /\ k \in Stored(mem) /\ l \in Stored(mem)
            BY <2>6, <2>7, <4>2 DEF Stored
          <5>2. QED
            BY <3>1, <5>1 DEF Distinct
        <4>3. QED
          BY <4>1, <4>2
      <3>5. QED
        BY <2>5, <3>2, <3>4 DEF Tidying, Doubled
    <2>9. Tidying(h(j), mem')
      BY <2>5, <2>8, NotEarnest DEF Earnest
    <2>10. QED
      BY <2>1, <2>2, <2>9, TidyGoesOn
  <1>17. ASSUME NEW e \in Executors, CacheCopy(e) PROVE TidyInv'
    <2> DEFINE g == exec[e]
               h == [g EXCEPT !.pc = "delete", !.copy = Null, !.item = Null]
    <2>1. g.pc = "cacheCopy" /\ mem' = mem /\ Goto(e, h)
      BY <1>17 DEF CacheCopy
    <2>2. g \in Handler /\ Tidying(g, mem)
      BY <1>0
    <2> HIDE DEF g
    <2>3. /\ h.op = g.op /\ h.stage = g.stage /\ h.pc = "delete" /\ h.failed = g.failed
          /\ h.scoped = g.scoped /\ h.dedupe = g.dedupe /\ h.todo = g.todo
          /\ h.cur = g.cur /\ h.seen = g.seen
      BY <2>2 DEF Handler
    <2> HIDE DEF h
    <2>4. Tidying(h, mem')
      BY <2>1, <2>2, <2>3 DEF Tidying, Earnest, Doubled
    <2>5. QED
      BY <2>1, <2>4, TidyGoesOn
  <1>18. ASSUME NEW e \in Executors, Delete(e) PROVE TidyInv'
    <2> DEFINE g == exec[e]
               h(i) == [g EXCEPT !.pc = "uncache", !.cur = i]
    <2>1. PICK i \in Targets(g) : mem' = [mem EXCEPT ![i] = Null] /\ Goto(e, h(i))
      BY <1>18 DEF Delete
    <2>2. g \in Handler /\ Fits(g) /\ Tidying(g, mem)
      BY <1>0
    <2>3. /\ i \in Ids /\ i \in g.todo /\ g.op # "none"
          /\ \/ g.pc = "loop" /\ g.stage \in {"noise", "dups", "forget", "rollback"}
             \/ g.pc = "delete" /\ g.stage \in {"archive", "rewrite"} /\ i = g.cur
      BY <2>1, <2>2, TargetsFit
    <2>4. Busy(e)
      BY <2>3 DEF Busy
    <2> HIDE DEF g
    <2>5. /\ Stored(mem') = Stored(mem) \ {i}
          /\ \A k \in Stored(mem') : mem'[k] = mem[k]
      BY <1>0, <2>1, <2>3 DEF Stored, Rows
    <2>6. /\ h(i).op = g.op /\ h(i).stage = g.stage /\ h(i).pc = "uncache"
          /\ h(i).failed = g.failed /\ h(i).scoped = g.scoped /\ h(i).dedupe = g.dedupe
          /\ h(i).todo = g.todo /\ h(i).seen = g.seen
      BY <2>2 DEF Handler
    <2> HIDE DEF h
    <2>7. ASSUME NEW S, NEW T, S \subseteq T, S \subseteq Stored(mem')
          PROVE  /\ Worded(T, mem) => Worded(S, mem')
                 /\ Distinct(T, mem) => Distinct(S, mem')
      BY <2>5, <2>7 DEF Worded, Distinct
    <2>8. ASSUME Earnest(g) PROVE Tidying(h(i), mem')
      <3>1. CASE g.stage = "noise"
        BY <2>2, <2>5, <2>6, <2>8, <3>1 DEF Tidying
      <3>2. CASE g.stage = "rewrite"
        <4>1. /\ Worded(Stored(mem) \ Stored(g.seen), mem)
              /\ Distinct(Stored(mem) \ (Duplicates(g.seen) \cup {i}), mem)
          BY <2>2, <2>3, <2>8, <3>2 DEF Tidying, Doubled
        <4>2. /\ Worded(Stored(mem') \ Stored(g.seen), mem')
              /\ Distinct(Stored(mem') \ Duplicates(g.seen), mem')
          BY <2>5, <2>7, <4>1
        <4>3. QED
          BY <2>2, <2>5, <2>6, <2>8, <3>2, <4>2 DEF Tidying, Doubled
      <3>3. CASE g.stage = "dups"
        <4>1. Worded(Stored(mem) \ g.todo, mem) /\ Distinct(Stored(mem) \ g.todo, mem)
          BY <2>2, <2>8, <3>3 DEF Tidying
        <4>2. Worded(Stored(mem') \ g.todo, mem') /\ Distinct(Stored(mem') \ g.todo, mem')
          BY <2>5, <2>7, <4>1
        <4>3. QED
          BY <2>6, <3>3, <4>2 DEF Tidying
      <3>4. CASE g.stage = "archive"
        <4>1. Worded(Stored(mem), mem) /\ Distinct(Stored(mem) \ {i}, mem)
          BY <2>2, <2>3, <2>8, <3>4 DEF Tidying, Doubled
        <4>2. Worded(Stored(mem'), mem') /\ Distinct(Stored(mem'), mem')
          BY <2>5, <2>7, <4>1
        <4>3. QED
          BY <2>6, <3>4, <4>2 DEF Tidying, Doubled
      <3>5. CASE g.stage \in {"forget", "rollback"}
        BY <2>6, <3>5 DEF Tidying
      <3>6. QED
        BY <2>3, <3>1, <3>2, <3>3, <3>4, <3>5
    <2>9. Tidying(h(i), mem')
      BY <2>6, <2>8, NotEarnest DEF Earnest
    <2>10. QED
      BY <2>1, <2>4, <2>9, TidyGoesOn
  <1>19. ASSUME NEW e \in Executors, Uncache(e) PROVE TidyInv'
    <2> DEFINE g == exec[e]
               h == [g EXCEPT !.pc = "loop", !.todo = @ \ {g.cur}, !.cur = Null,
                              !.item = Null]
    <2>1. g.pc = "uncache" /\ mem' = mem /\ Goto(e, h)
      BY <1>19 DEF Uncache
    <2>2. g \in Handler /\ Tidying(g, mem) /\ Fits(g) /\ (Earnest(g) => Place(g, mem, cache))
      BY <1>0, <1>1
    <2> HIDE DEF g
    <2>3. /\ h.op = g.op /\ h.stage = g.stage /\ h.pc = "loop" /\ h.failed = g.failed
          /\ h.scoped = g.scoped /\ h.dedupe = g.dedupe /\ h.todo = g.todo \ {g.cur}
          /\ h.seen = g.seen
      BY <2>2 DEF Handler
    <2> HIDE DEF h
    <2>4. ASSUME Earnest(g) PROVE Tidying(h, mem')
      <3>1. g.stage # "upsert"
        BY <2>1, <2>2 DEF Fits, Shape
      <3>2. g.cur \notin Stored(mem)
        BY <2>1, <2>2, <2>4, <3>1 DEF Place, Apart
      <3>3. Stored(mem) \ h.todo = Stored(mem) \ g.todo
        BY <2>3, <3>2
      <3>4. QED
        BY <2>1, <2>2, <2>3, <2>4, <3>2, <3>3 DEF Tidying, Doubled
    <2>5. Tidying(h, mem')
      BY <2>3, <2>4, NotEarnest DEF Earnest
    <2>6. QED
      BY <2>1, <2>5, TidyGoesOn
  <1>20. ASSUME NEW e \in Executors, NEW i, Goto(e, Raised(exec[e], i)), mem' = mem
         PROVE  TidyInv'
    <2> DEFINE g == exec[e]
    <2>1. g \in Handler /\ Fits(g)
      BY <1>0
    <2>2. CASE g.op = "store" /\ g.stage = "archive"
      <3> DEFINE h == [Idle EXCEPT !.op = "store", !.stage = "rollback", !.pc = "loop",
                                   !.todo = {g.new}]
      <3>1. Goto(e, h) /\ h.op = "store"
        BY <1>20, <2>2 DEF Raised, Idle
      <3> HIDE DEF h
      <3>2. QED
        BY <1>3, <1>20, <3>1
    <2>3. CASE g.stage = "rewrite"
      <3> DEFINE h == [g EXCEPT !.pc = "loop", !.failed = TRUE, !.todo = @ \ {i},
                                !.cur = Null, !.copy = Null, !.item = Null]
      <3>1. Goto(e, h)
        BY <1>20, <2>1, <2>3 DEF Raised, Fits, Shape
      <3> HIDE DEF g
      <3>2. h.failed = TRUE
        BY <2>1 DEF Handler
      <3> HIDE DEF h
      <3>3. QED
        BY <1>20, <3>1, <3>2, NotEarnest, TidyGoesOn DEF Earnest
    <2>4. CASE ~(g.op = "store" /\ g.stage = "archive") /\ g.stage # "rewrite"
      <3>1. Goto(e, Idle) /\ Idle.op = "none"
        BY <1>20, <2>4 DEF Raised, Idle
      <3>2. QED
        BY <1>3, <1>20, <3>1
    <2>5. QED
      BY <2>2, <2>3, <2>4
  <1>21. ASSUME NEW e \in Executors, DeleteRaises(e) \/ CallFails(e) PROVE TidyInv'
    BY <1>20, <1>21 DEF DeleteRaises, CallFails
  <1>22. ASSUME NEW e \in Executors, EndLoop(e) PROVE TidyInv'
    <2> DEFINE g == exec[e]
               h == AfterLoop(g)
    <2>1. /\ g.pc = "loop" /\ g.stage # "upsert" /\ g.todo = {} /\ Goto(e, h) /\ mem' = mem
      BY <1>22 DEF EndLoop
    <2>2. /\ g \in Handler /\ Fits(g) /\ Tidying(g, mem)
          /\ \A k \in Stored(mem) \cap Stored(g.seen) : mem[k].text = g.seen[k].text
      BY <1>0, SaysTheSame
    <2> HIDE DEF g
    <2>3. CASE g.stage = "noise"
      <3>1. /\ h.op = g.op /\ h.seen = g.seen /\ h.scoped = g.scoped /\ h.failed = g.failed
            /\ h.dedupe = g.dedupe /\ h.stage = "rewrite" /\ h.pc = "loop"
            /\ h.todo = Rewrites(g.seen)
        BY <2>1, <2>2, <2>3 DEF AfterLoop, Handler
      <3> HIDE DEF h
      <3>2. ASSUME Earnest(g) PROVE Tidying(h, mem')
        <4>1. /\ Stored(mem) \subseteq Stored(g.seen)
              /\ Stored(mem) \cap NoiseRows(g.seen) = {}
          BY <2>1, <2>2, <2>3, <3>2 DEF Tidying
        <4>2. ASSUME NEW i \in Stored(mem) \ Duplicates(g.seen),
                     NEW j \in Stored(mem) \ Duplicates(g.seen),
                     Canonical[mem[i].text] = Canonical[mem[j].text]
              PROVE  i = j
          <5>1. /\ i \in Stored(g.seen) \ NoiseRows(g.seen)
                /\ j \in Stored(g.seen) \ NoiseRows(g.seen)
                /\ SameFact(g.seen[i], g.seen[j]) /\ SameFact(g.seen[j], g.seen[i])
            BY <2>2, <4>1, <4>2 DEF SameFact
          <5>2. g.seen \in Rows
            BY <2>2 DEF Handler, Rows
          <5>3. i # j => Precedes(g.seen, i, j) \/ Precedes(g.seen, j, i)
            BY <5>1, <5>2, OnePrecedes
          <5>4. QED
            BY <5>1, <5>3 DEF Duplicates
        <4>3. Distinct(Stored(mem) \ Duplicates(g.seen), mem)
          BY <4>2 DEF Distinct
        <4>4. Worded(Stored(mem) \ Stored(g.seen), mem)
          BY <4>1 DEF Worded
        <4>5. QED
          BY <2>1, <3>1, <4>1, <4>3, <4>4 DEF Tidying, Doubled
      <3>3. Tidying(h, mem')
        BY <3>1, <3>2, NotEarnest DEF Earnest
      <3>4. QED
        BY <2>1, <3>3, TidyGoesOn
    <2>4. CASE g.stage = "rewrite" /\ ~g.failed
      <3>1. /\ h.op = g.op /\ h.scoped = g.scoped /\ h.failed = g.failed
            /\ h.dedupe = g.dedupe
            /\ h.stage = "dups" /\ h.pc = "loop" /\ h.todo = Duplicates(g.seen)
        BY <2>1, <2>2, <2>4 DEF AfterLoop, Handler
      <3> HIDE DEF h
      <3>2. ASSUME Earnest(g) PROVE Tidying(h, mem')
        <4>1. /\ Stored(mem) \cap NoiseRows(g.seen) = {}
              /\ Stored(mem) \cap Rewrites(g.seen) = {}
              /\ Worded(Stored(mem) \ Stored(g.seen), mem)
              /\ Distinct(Stored(mem) \ Duplicates(g.seen), mem)
          BY <2>1, <2>2, <2>4, <3>2 DEF Tidying, Doubled
        <4>2. ASSUME NEW k \in Stored(mem) \ Duplicates(g.seen)
              PROVE  Canonical[mem[k].text] = mem[k].text
          <5>1. CASE k \in Stored(g.seen)
            <6>1. ~IsRewritten(g.seen[k])
              BY <4>1, <4>2, <5>1 DEF Rewrites
            <6>2. QED
              BY <2>2, <4>2, <5>1, <6>1 DEF IsRewritten
          <5>2. CASE k \notin Stored(g.seen)
            BY <4>1, <4>2, <5>2 DEF Worded
          <5>3. QED
            BY <5>1, <5>2
        <4>3. Worded(Stored(mem) \ Duplicates(g.seen), mem)
          BY <4>2 DEF Worded
        <4>4. QED
          BY <2>1, <3>1, <4>1, <4>3 DEF Tidying
      <3>3. Tidying(h, mem')
        BY <3>1, <3>2, NotEarnest DEF Earnest
      <3>4. QED
        BY <2>1, <3>3, TidyGoesOn
    <2>5. CASE g.stage = "dups"
      <3>1. /\ h.op = g.op /\ h.scoped = g.scoped /\ h.failed = g.failed
            /\ h.dedupe = g.dedupe /\ h.stage = "none" /\ h.pc = "select"
        BY <2>1, <2>2, <2>5 DEF AfterLoop, Handler
      <3> HIDE DEF h
      <3>2. ASSUME Earnest(g) PROVE Tidying(h, mem')
        <4>1. Stored(mem) \ g.todo = Stored(mem)
          BY <2>1
        <4>2. Worded(Stored(mem), mem) /\ Distinct(Stored(mem), mem)
          BY <2>2, <2>5, <3>2, <4>1 DEF Tidying
        <4>3. QED
          BY <2>1, <3>1, <4>2 DEF Tidying, Doubled
      <3>3. Tidying(h, mem')
        BY <3>1, <3>2, NotEarnest DEF Earnest
      <3>4. QED
        BY <2>1, <3>3, TidyGoesOn
    <2>6. CASE g.stage \notin {"noise", "rewrite", "dups"} \/ (g.stage = "rewrite" /\ g.failed)
      <3>1. Goto(e, Idle) /\ Idle.op = "none"
        BY <2>1, <2>6 DEF AfterLoop, Idle
      <3>2. QED
        BY <1>3, <2>1, <3>1
    <2>7. QED
      BY <2>3, <2>4, <2>5, <2>6
  <1>23. CASE Crash
    <2>1. \A e \in Executors : exec'[e] = Idle /\ Idle.op = "none"
      BY <1>23 DEF Crash, Idle
    <2>2. QED
      BY <2>1 DEF TidyInv, Tidying, Earnest
  <1>24. CASE UNCHANGED vars
    <2>1. mem' = mem /\ exec' = exec
      BY <1>24 DEF vars
    <2>2. \A e \in Executors : Tidying(exec'[e], mem')
      BY <2>1 DEF TidyInv
    <2>3. QED
      BY <2>2 DEF TidyInv, Tidying, Worded, Distinct, Stored, Earnest, Doubled, NoiseRows,
                  Duplicates, Rewrites, SameFact, Precedes, IsRewritten
  <1>25. QED
    BY <1>4, <1>5, <1>6, <1>7, <1>8, <1>9, <1>10, <1>11, <1>12, <1>13, <1>14, <1>15,
       <1>16, <1>17, <1>18, <1>19, <1>21, <1>22, <1>23, <1>24 DEF Next, Proceed

LEMMA InitTidy == Init => TidyInv
  <1> SUFFICES ASSUME Init PROVE TidyInv
    OBVIOUS
  <1>1. Idle.op = "none" /\ \A e \in Executors : exec[e] = Idle
    BY DEF Init, Idle
  <1>2. QED
    BY <1>1 DEF TidyInv, Tidying, Earnest

\* The step that ends a consolidation leaves the memories as they are.
LEMMA EndingWritesNothing ==
  ASSUME FactInv, [Next]_vars, NEW e \in Executors, Busy(e), exec'[e] = Idle
  PROVE  mem' = mem
  <1>1. exec[e] # Idle /\ Idle.op = "none" /\ exec \in [Executors -> Handler]
        /\ \A f \in Executors : Fits(exec[f])
    BY DEF Busy, Idle, FactInv, TypeOK
  <1>2. ASSUME NEW f \in Executors, NEW h, Goto(f, h), h.op # "none" PROVE FALSE
    BY <1>1, <1>2, GotoMoves
  <1>3. ASSUME NEW f \in Executors, AddNew(f) PROVE FALSE
    <2> DEFINE h(j) == [exec[f] EXCEPT !.pc = "cacheNew", !.new = j]
    <2>1. PICK j \in FreeIds : Goto(f, h(j)) /\ exec[f].pc = "add"
      BY <1>3 DEF AddNew
    <2>2. h(j).op = exec[f].op /\ exec[f].op # "none"
      BY <1>1, <2>1 DEF Fits, Shape, Handler
    <2> HIDE DEF h
    <2>3. QED
      BY <1>2, <2>1, <2>2
  <1>4. ASSUME NEW f \in Executors, AddRewritten(f) PROVE FALSE
    <2> DEFINE h(i, j, r) == [exec[f] EXCEPT !.pc = "cacheCopy", !.cur = i, !.copy = j,
                                             !.item = r]
    <2>1. \E i, j, r : Goto(f, h(i, j, r)) /\ exec[f].pc = "loop"
      BY <1>4 DEF AddRewritten
    <2>2. PICK i, j, r : Goto(f, h(i, j, r)) /\ exec[f].pc = "loop"
      BY <2>1
    <2>3. h(i, j, r).op = exec[f].op /\ exec[f].op # "none"
      BY <1>1, <2>2 DEF Fits, Shape, Handler
    <2> HIDE DEF h
    <2>4. QED
      BY <1>2, <2>2, <2>3
  <1>5. ASSUME NEW f \in Executors, AddArchived(f) PROVE FALSE
    <2> DEFINE h(j) == [exec[f] EXCEPT !.pc = "cacheCopy", !.copy = j,
                          !.item = [exec[f].item EXCEPT !.status = "superseded",
                                                        !.created = clock]]
    <2>1. PICK j \in FreeIds : Goto(f, h(j)) /\ exec[f].pc = "copy"
      BY <1>5 DEF AddArchived
    <2>2. h(j).op = exec[f].op /\ exec[f].op # "none"
      BY <1>1, <2>1 DEF Fits, Shape, Handler
    <2> HIDE DEF h
    <2>3. QED
      BY <1>2, <2>1, <2>2
  <1>6. ASSUME NEW f \in Executors, Delete(f) PROVE FALSE
    <2> DEFINE h(i) == [exec[f] EXCEPT !.pc = "uncache", !.cur = i]
    <2>1. PICK i \in Targets(exec[f]) : Goto(f, h(i))
      BY <1>6 DEF Delete
    <2>2. h(i).op = exec[f].op /\ exec[f].op # "none"
      BY <1>1, <2>1, TargetsFit DEF Handler
    <2> HIDE DEF h
    <2>3. QED
      BY <1>2, <2>1, <2>2
  <1>7. QED
    BY <1>3, <1>4, <1>5, <1>6
       DEF Next, Proceed, BeginStore, BeginForget, BeginRebuild, BeginConsolidation,
           CacheNew, UpsertItem, Prune, ReadRows, SelectActive, GetItem, CacheCopy,
           Uncache, DeleteRaises, EndLoop, CallFails, Crash, vars

LEMMA CompletingIsTidy ==
  ASSUME FactInv, SettledInv, TidyInv, [Next]_vars, NEW e \in Executors, Completing(e),
         exec[e].scoped, exec[e].dedupe
  PROVE  Tidy'
  <1> DEFINE g == exec[e]
  <1>1. /\ g.op = "consolidate" /\ g.stage = "archive" /\ g.todo = {}
        /\ g \in Handler /\ Fits(g) /\ ~g.failed /\ Tidying(g, mem) /\ exec'[e] = Idle
    BY DEF Completing, FactInv, TypeOK, SettledInv, TidyInv
  <1>2. mem' = mem
    BY <1>1, EndingWritesNothing DEF Busy
  <1>3. g.scoped /\ g.dedupe
    OBVIOUS
  <1> HIDE DEF g
  <1>4. Earnest(g) /\ g.pc \notin {"cacheCopy", "delete"}
    BY <1>1, <1>3 DEF Earnest, Fits, Shape
  <1>5. Worded(Stored(mem), mem) /\ Distinct(Stored(mem), mem)
    BY <1>1, <1>4 DEF Tidying, Doubled
  <1>6. Tidy
    BY <1>5 DEF Tidy, Worded, Distinct
  <1>7. QED
    BY <1>2, <1>6 DEF Tidy, Stored

\* While consolidations have the system to themselves, one that rebuilt,
\* deduplicated and came to its end leaves no noise, no text to rewrite and no
\* text twice, whatever overlapping and failing stores had left.
THEOREM ConsolidationLeavesTidy ==
  ASSUME QuietConsolidation, JudgeIsStable
  PROVE  Spec => ConsolidationTidies
  <1>1. Init => FactInv /\ SameEverywhere /\ SettledInv /\ TidyInv
    BY InitFact, InitSame, InitSettled, InitTidy
  <1>2. FactInv /\ SameEverywhere /\ SettledInv /\ TidyInv /\ [Next]_vars
          => (FactInv /\ SameEverywhere /\ SettledInv /\ TidyInv)'
    BY StepFact, StepSame, StepSettled, StepTidy
  <1>3. FactInv /\ SettledInv /\ TidyInv /\ [Next]_vars
          => [\A e \in Executors :
                Completing(e) /\ exec[e].scoped /\ exec[e].dedupe
                  /\ (\A f \in Executors : ~Busy(f)') => Tidy']_vars
    BY CompletingIsTidy
  <1>4. QED
    BY <1>1, <1>2, <1>3, PTL DEF Spec, ConsolidationTidies
=============================================================================
