------------------------------ MODULE FactStore ------------------------------
(***************************************************************************)
(* One long-term fact (one user, project, category and fact key) in the    *)
(* two stores that hold it: the mem0 backend, which is the record, and     *)
(* memory_cache, the SQLite copy that decides what is current.  The        *)
(* handlers are store_memory_with_governance (infer=False), delete_memory, *)
(* rebuild_memory_cache and run_consolidation_operation.                   *)
(*                                                                         *)
(* Nothing spans the two stores: one step is one call of the backend or    *)
(* one SQLite transaction, and handlers of other requests run in between.  *)
(* Rows are handled one by one, in the order of a SELECT without ORDER BY. *)
(*                                                                         *)
(* A memory id is a uuid, compared only to break ties.  Here an id that    *)
(* nothing refers to any more may be given out again.  Times are the       *)
(* number of stores begun so far.                                          *)
(***************************************************************************)
EXTENDS Integers, FiniteSets

CONSTANTS
  Ids,        \* memory ids
  Texts,      \* versions of the fact, as the hot-path judge lets them in
  Canonical,  \* what the offline judge makes of each: a text, or Null: noise
  Kinds,      \* is the key in AUTO_SUPERSEDE_FACT_KEYS?  the cases considered
  Executors,  \* threads that serve requests
  Null,
  Requests,   \* consolidations asked for: <<for one user?, dedupe_long_term>>
  QuietConsolidation,  \* does a consolidation have the system to itself?
  MaxStores,  \* bound: store requests
  MaxFaults   \* bound: calls that raise without effect, and crashes

FactStatuses == {"active", "superseded", "conflict_review"}

\* from is valid_from, created is created_at; supersedes, superseded_by,
\* valid_to and the review columns are written and never read.
Record == [text : Texts, status : FactStatuses, from : Nat, created : Nat]

ASSUME FactConstantsOK ==
  /\ Ids \subseteq Nat
  /\ Kinds \subseteq BOOLEAN
  /\ QuietConsolidation \in BOOLEAN
  /\ Requests \subseteq BOOLEAN \X BOOLEAN
  /\ Canonical \in [Texts -> Texts \cup {Null}]
  /\ {MaxStores, MaxFaults} \subseteq Nat
  /\ Null \notin Ids \cup Texts \cup Record

VARIABLES
  mem,       \* the backend: id -> record, or Null
  cache,     \* memory_cache: id -> row, or Null
  exec,      \* what each executor is doing, with the handler's local variables
  auto,      \* should_auto_supersede_fact of this key; never changes
  clock,     \* stores begun so far (bounded by MaxStores)
  faults,    \* calls that raised and crashes so far (bounded by MaxFaults)
  disturbed, \* history: handlers overlapped or failed since the last
             \* consolidation that had the system to itself
  forgotten  \* history: versions users deleted since the system was last idle

vars == <<mem, cache, exec, auto, clock, faults, disturbed, forgotten>>

-----------------------------------------------------------------------------
(* Rows and handlers *)

NoRecords == [i \in Ids |-> Null]
Stored(s) == {i \in Ids : s[i] # Null}
Active(s) == {i \in Stored(s) : s[i].status = "active"}

Ops == {"none", "store", "forget", "rebuild", "consolidate"}

\* The loop a handler is in: over the items of get_all, the noise, the rows to
\* rewrite, the duplicates or the facts to archive; over one id when it
\* forgets a memory or takes its own back.
Stages == {"none", "upsert", "noise", "rewrite", "dups", "archive", "forget",
           "rollback"}

Places == {"idle", "add", "cacheNew", "loop", "copy", "cacheCopy", "delete",
           "uncache", "read", "select"}

Handler == [op : Ops, stage : Stages, pc : Places,
            text : Texts \cup {Null}, status : FactStatuses, now : Nat,
            new : Ids \cup {Null}, copy : Ids \cup {Null},
            seen : [Ids -> Record \cup {Null}], todo : SUBSET Ids,
            cur : Ids \cup {Null}, item : Record \cup {Null},
            scoped : BOOLEAN, dedupe : BOOLEAN, failed : BOOLEAN]

Idle == [op |-> "none", stage |-> "none", pc |-> "idle",
         text |-> Null, status |-> "active", now |-> 0,
         new |-> Null, copy |-> Null, seen |-> NoRecords, todo |-> {},
         cur |-> Null, item |-> Null,
         scoped |-> FALSE, dedupe |-> FALSE, failed |-> FALSE]

Busy(e) == exec[e].op # "none"
Goto(e, h) == exec' = [exec EXCEPT ![e] = h]

Init ==
  /\ mem = NoRecords
  /\ cache = NoRecords
  /\ exec = [e \in Executors |-> Idle]
  /\ auto \in Kinds
  /\ clock = 0
  /\ faults = 0
  /\ disturbed = FALSE
  /\ forgotten = {}

\* An executor takes a request.
Begin(e) ==
  /\ ~Busy(e)
  /\ QuietConsolidation => \A f \in Executors : exec[f].op # "consolidate"
  /\ disturbed' = (disturbed \/ \E f \in Executors : Busy(f))
  /\ forgotten' = IF \E f \in Executors : Busy(f) THEN forgotten ELSE {}

Mentions(h) == {h.new, h.copy, h.cur} \cup h.todo \cup Stored(h.seen)

FreeIds ==
  Ids \ (Stored(mem) \cup Stored(cache) \cup
         UNION {Mentions(exec[e]) : e \in Executors})

\* ON CONFLICT(memory_id) DO UPDATE leaves created_at as it was.
Upserted(old, row) ==
  IF old = Null THEN row ELSE [row EXCEPT !.created = old.created]

-----------------------------------------------------------------------------
(* Store: POST /v1/memories *)

Rivals(t) == {i \in Active(cache) : cache[i].text # t}

\* A duplicate of the only current version is answered "skipped".
IsDuplicateMutant(t) == auto /\ \E i \in Stored(cache) : cache[i].text = t
IsDuplicate(t) == auto /\ Active(cache) # {} /\ Rivals(t) = {}

StatusOfNewMutant(t) ==
  IF Rivals(t) # {} /\ ~auto THEN "needs_review" ELSE "active"
StatusOfNew(t) ==
  IF Rivals(t) # {} /\ ~auto THEN "conflict_review" ELSE "active"

ToSupersede(t) == IF Rivals(t) # {} /\ auto THEN Active(cache) ELSE {}

\* The handler reads the clock and the active rows and decides.
BeginStore(e, t) ==
  /\ Begin(e)
  /\ clock < MaxStores
  /\ ~IsDuplicate(t)
  /\ clock' = clock + 1
  /\ Goto(e, [Idle EXCEPT !.op = "store", !.pc = "add", !.text = t,
                          !.status = StatusOfNew(t), !.now = clock + 1,
                          !.todo = ToSupersede(t),
                          !.seen = [i \in Ids |-> IF i \in ToSupersede(t)
                                                    THEN cache[i] ELSE Null]])
  /\ UNCHANGED <<mem, cache, auto, faults>>

NewRecord(h, created) ==
  [text |-> h.text, status |-> h.status, from |-> h.now, created |-> created]

\* memory_backend.add
AddNew(e) ==
  LET h == exec[e] IN
  /\ h.pc = "add"
  /\ \E i \in FreeIds :
       /\ mem' = [mem EXCEPT ![i] = NewRecord(h, clock)]
       /\ Goto(e, [h EXCEPT !.pc = "cacheNew", !.new = i])
  /\ UNCHANGED <<cache, auto, clock, faults, disturbed, forgotten>>

\* cache_memory_record, then archive_active_long_term_facts
CacheNew(e) ==
  LET h == exec[e] IN
  /\ h.pc = "cacheNew"
  /\ cache' = [cache EXCEPT ![h.new] = Upserted(@, NewRecord(h, h.now))]
  /\ Goto(e, [h EXCEPT !.pc = "loop", !.stage = "archive"])
  /\ UNCHANGED <<mem, auto, clock, faults, disturbed, forgotten>>

-----------------------------------------------------------------------------
(* Forget: DELETE /v1/memories/{memory_id} *)

\* The handler has found the memory in the backend.
BeginForget(e, i) ==
  /\ Begin(e)
  /\ mem[i] # Null
  /\ Goto(e, [Idle EXCEPT !.op = "forget", !.stage = "forget", !.pc = "loop",
                          !.todo = {i}])
  /\ UNCHANGED <<mem, cache, auto, clock, faults>>

-----------------------------------------------------------------------------
(* Rebuild: POST /v1/cache/rebuild, and the start of a consolidation *)

\* get_all returns the user's memories.
Rebuilding(h) ==
  [h EXCEPT !.stage = "upsert", !.pc = "loop", !.seen = mem,
            !.todo = Stored(mem)]

BeginRebuild(e) ==
  /\ Begin(e)
  /\ Goto(e, Rebuilding([Idle EXCEPT !.op = "rebuild"]))
  /\ UNCHANGED <<mem, cache, auto, clock, faults>>

UpsertItem(e) ==
  LET h == exec[e] IN
  /\ h.stage = "upsert"
  /\ \E i \in h.todo :
       /\ cache' = [cache EXCEPT ![i] = Upserted(@, h.seen[i])]
       /\ Goto(e, [h EXCEPT !.todo = @ \ {i}])
  /\ UNCHANGED <<mem, auto, clock, faults, disturbed, forgotten>>

\* Rows of memories that get_all did not return are deleted.
KeptByPruneMutant(h) == Ids
KeptByPrune(h) == Stored(h.seen)

Prune(e) ==
  LET h == exec[e] IN
  /\ h.stage = "upsert"
  /\ h.todo = {}
  /\ cache' = [i \in Ids |-> IF i \in KeptByPrune(h) THEN cache[i] ELSE Null]
  /\ Goto(e, IF h.op = "rebuild" THEN Idle
             ELSE [h EXCEPT !.stage = "none", !.pc = "read", !.seen = NoRecords])
  /\ UNCHANGED <<mem, auto, clock, faults, disturbed, forgotten>>

-----------------------------------------------------------------------------
(* Consolidate: a governance job, or POST /v1/consolidate *)

\* Only a request for one user rebuilds the cache first.  A dry run writes
\* nothing but that.
BeginConsolidation(e, scoped, dedupe) ==
  LET h == [Idle EXCEPT !.op = "consolidate", !.scoped = scoped,
                        !.dedupe = dedupe]
  IN
  /\ Begin(e)
  /\ QuietConsolidation => \A f \in Executors : ~Busy(f)
  /\ Goto(e, IF scoped THEN Rebuilding(h) ELSE [h EXCEPT !.pc = "read"])
  /\ UNCHANGED <<mem, cache, auto, clock, faults>>

NoiseRows(s) == {i \in Stored(s) : Canonical[s[i].text] = Null}

\* build_long_term_duplicate_key compares the canonical text, not the status.
SameFactMutant(r, q) == r.text = q.text
SameFact(r, q) == Canonical[r.text] = Canonical[q.text]

IsRewritten(r) == Canonical[r.text] # r.text

\* ORDER: canonical text first, then created_at, then memory_id.
Precedes(s, i, j) ==
  \/ ~IsRewritten(s[i]) /\ IsRewritten(s[j])
  \/ /\ IsRewritten(s[i]) = IsRewritten(s[j])
     /\ \/ s[i].created < s[j].created
        \/ s[i].created = s[j].created /\ i < j

\* All of a group but its first.
DuplicatesAllMutant(s) ==
  {j \in Stored(s) : \E i \in Stored(s) \ {j} : SameFact(s[i], s[j])}
DuplicatesNoneMutant(s) == {}
Duplicates(s) ==
  LET rows == Stored(s) \ NoiseRows(s)
  IN  {j \in rows : \E i \in rows \ {j} : SameFact(s[i], s[j]) /\ Precedes(s, i, j)}

Rewrites(s) ==
  {i \in Stored(s) \ (NoiseRows(s) \cup Duplicates(s)) : IsRewritten(s[i])}

\* The snapshot every deletion and rewrite is decided on.
ReadRows(e) ==
  LET h == exec[e] IN
  /\ h.pc = "read"
  /\ Goto(e, IF h.dedupe
               THEN [h EXCEPT !.stage = "noise", !.pc = "loop", !.seen = cache,
                              !.todo = NoiseRows(cache)]
               ELSE [h EXCEPT !.pc = "select"])
  /\ UNCHANGED <<mem, cache, auto, clock, faults, disturbed, forgotten>>

\* Add the canonical text; the row's status and valid_from are kept.
AddRewritten(e) ==
  LET h == exec[e] IN
  /\ h.pc = "loop" /\ h.stage = "rewrite"
  /\ \E i \in h.todo, j \in FreeIds :
       LET r == [h.seen[i] EXCEPT !.text = Canonical[h.seen[i].text],
                                  !.created = clock] IN
       /\ mem' = [mem EXCEPT ![j] = r]
       /\ Goto(e, [h EXCEPT !.pc = "cacheCopy", !.cur = i, !.copy = j, !.item = r])
  /\ UNCHANGED <<cache, auto, clock, faults, disturbed, forgotten>>

\* All active versions but the newest by valid_from.
OlderActiveMutant(s) == {}
OlderActive(s) ==
  {i \in Active(s) : \E j \in Active(s) :
      s[i].from < s[j].from \/ (s[i].from = s[j].from /\ i < j)}

SelectActive(e) ==
  LET h == exec[e]
      older == IF auto THEN OlderActive(cache) ELSE {}
  IN
  /\ h.pc = "select"
  /\ Goto(e, [h EXCEPT !.stage = "archive", !.pc = "loop", !.seen = cache,
                       !.todo = older])
  /\ UNCHANGED <<mem, cache, auto, clock, faults, disturbed, forgotten>>

-----------------------------------------------------------------------------
(* archive_active_long_term_facts, for a store and for a consolidation *)

\* memory_backend.get: a row whose memory is gone is dropped from the cache.
GetItem(e) ==
  LET h == exec[e] IN
  /\ h.pc = "loop" /\ h.stage = "archive"
  /\ \E i \in h.todo :
       Goto(e, [h EXCEPT !.pc = IF mem[i] = Null THEN "uncache" ELSE "copy",
                         !.cur = i, !.item = mem[i]])
  /\ UNCHANGED <<mem, cache, auto, clock, faults, disturbed, forgotten>>

\* Add a superseded copy of what get returned.
AddArchived(e) ==
  LET h == exec[e]
      r == [h.item EXCEPT !.status = "superseded", !.created = clock]
  IN
  /\ h.pc = "copy"
  /\ \E j \in FreeIds :
       /\ mem' = [mem EXCEPT ![j] = r]
       /\ Goto(e, [h EXCEPT !.pc = "cacheCopy", !.copy = j, !.item = r])
  /\ UNCHANGED <<cache, auto, clock, faults, disturbed, forgotten>>

\* The row of an archived fact keeps the created_at of the row it replaces;
\* that of a rewritten memory is new.
CacheCopy(e) ==
  LET h == exec[e]
      created == IF h.stage = "archive" THEN h.seen[h.cur].created ELSE clock
  IN
  /\ h.pc = "cacheCopy"
  /\ cache' = [cache EXCEPT ![h.copy] =
                 Upserted(@, [h.item EXCEPT !.created = created])]
  /\ Goto(e, [h EXCEPT !.pc = "delete", !.copy = Null, !.item = Null])
  /\ UNCHANGED <<mem, auto, clock, faults, disturbed, forgotten>>

-----------------------------------------------------------------------------
(* Deleting a memory, then its row; loops; failures *)

\* The ids the next memory_backend.delete of a handler may be about.
Targets(h) ==
  IF h.pc = "delete" THEN {h.cur}
  ELSE IF h.pc = "loop" /\ h.stage \in {"noise", "dups", "forget", "rollback"}
         THEN h.todo
         ELSE {}

Delete(e) ==
  LET h == exec[e] IN
  /\ \E i \in Targets(h) :
       /\ mem[i] # Null
       /\ mem' = [mem EXCEPT ![i] = Null]
       /\ Goto(e, [h EXCEPT !.pc = "uncache", !.cur = i])
       /\ forgotten' = IF h.op = "forget" THEN forgotten \cup {Canonical[mem[i].text]}
                                          ELSE forgotten
  /\ UNCHANGED <<cache, auto, clock, faults, disturbed>>

\* delete_cached_memory
Uncache(e) ==
  LET h == exec[e] IN
  /\ h.pc = "uncache"
  /\ cache' = [cache EXCEPT ![h.cur] = Null]
  /\ Goto(e, [h EXCEPT !.pc = "loop", !.todo = @ \ {h.cur}, !.cur = Null,
                       !.item = Null])
  /\ UNCHANGED <<mem, auto, clock, faults, disturbed, forgotten>>

\* Where the handler stands after a call about i has raised: a store whose
\* archiving failed takes its new memory back, a rewrite is skipped and
\* remembered, everything else ends the request.
Raised(h, i) ==
  IF h.op = "store" /\ h.stage = "archive"
    THEN [Idle EXCEPT !.op = "store", !.stage = "rollback", !.pc = "loop",
                      !.todo = {h.new}]
  ELSE IF h.stage = "rewrite"
    THEN [h EXCEPT !.pc = "loop", !.failed = TRUE, !.todo = @ \ {i},
                   !.cur = Null, !.copy = Null, !.item = Null]
  ELSE Idle

\* The backend raises when the memory is no longer there.
DeleteRaises(e) ==
  /\ \E i \in Targets(exec[e]) :
       /\ mem[i] = Null
       /\ Goto(e, Raised(exec[e], i))
  /\ UNCHANGED <<mem, cache, auto, clock, faults, disturbed, forgotten>>

\* The next loop of the consolidation, or the end of the request.  Rewrites
\* that failed end the consolidation before the duplicates are deleted.
AfterLoop(h) ==
  CASE h.stage = "noise"   -> [h EXCEPT !.stage = "rewrite", !.todo = Rewrites(h.seen)]
    [] h.stage = "rewrite" -> IF h.failed THEN Idle
                              ELSE [h EXCEPT !.stage = "dups",
                                             !.todo = Duplicates(h.seen)]
    [] h.stage = "dups"    -> [h EXCEPT !.stage = "none", !.pc = "select",
                                        !.seen = NoRecords]
    [] OTHER               -> Idle

EndLoop(e) ==
  LET h == exec[e] IN
  /\ h.pc = "loop" /\ h.stage # "upsert"
  /\ h.todo = {}
  /\ Goto(e, AfterLoop(h))
  /\ disturbed' = (disturbed /\ ~(/\ h.op = "consolidate" /\ h.stage = "archive"
                                  /\ h.scoped /\ QuietConsolidation))
  /\ UNCHANGED <<mem, cache, auto, clock, faults, forgotten>>

\* A call of the backend or of SQLite raises and has changed nothing.
CallFails(e) ==
  LET h == exec[e] IN
  /\ h.pc \notin {"idle", "read", "select"}
  /\ h.pc = "loop" => h.todo # {} \/ h.stage = "upsert"
  /\ faults < MaxFaults
  /\ faults' = faults + 1
  /\ disturbed' = TRUE
  /\ \E i \in IF h.pc = "loop" /\ h.todo # {} THEN h.todo ELSE {h.cur} :
       Goto(e, Raised(h, i))
  /\ UNCHANGED <<mem, cache, auto, clock, forgotten>>

\* The API process dies between two calls; both stores survive.
Crash ==
  /\ \E e \in Executors : Busy(e)
  /\ faults < MaxFaults
  /\ faults' = faults + 1
  /\ disturbed' = TRUE
  /\ exec' = [e \in Executors |-> Idle]
  /\ UNCHANGED <<mem, cache, auto, clock, forgotten>>

Proceed(e) ==
  \/ AddNew(e)
  \/ CacheNew(e)
  \/ UpsertItem(e)
  \/ Prune(e)
  \/ ReadRows(e)
  \/ AddRewritten(e)
  \/ SelectActive(e)
  \/ GetItem(e)
  \/ AddArchived(e)
  \/ CacheCopy(e)
  \/ Delete(e)
  \/ Uncache(e)
  \/ DeleteRaises(e)
  \/ EndLoop(e)

Next ==
  \/ \E e \in Executors :
       \/ \E t \in Texts : BeginStore(e, t)
       \/ \E i \in Ids : BeginForget(e, i)
       \/ BeginRebuild(e)
       \/ \E r \in Requests : BeginConsolidation(e, r[1], r[2])
       \/ Proceed(e)
       \/ CallFails(e)
  \/ Crash

Spec == Init /\ [][Next]_vars

\* Handlers run to their end.  The timer keeps asking for a consolidation of the
\* user (MEMORY_CONSOLIDATE_USER_ID is set) and the worker gives it its turn.
Fairness ==
  /\ \A e \in Executors : WF_vars(Proceed(e))
  /\ SF_vars(\E e \in Executors : BeginConsolidation(e, TRUE, TRUE))

FairSpec == Spec /\ Fairness

-----------------------------------------------------------------------------
(* Properties *)

\* Records, rows and handlers have the shape the code gives them.
TypeOK ==
  /\ mem \in [Ids -> Record \cup {Null}]
  /\ cache \in [Ids -> Record \cup {Null}]
  /\ exec \in [Executors -> Handler]
  /\ auto \in BOOLEAN
  /\ clock \in 0 .. MaxStores
  /\ faults \in 0 .. MaxFaults
  /\ disturbed \in BOOLEAN
  /\ forgotten \subseteq Texts \cup {Null}

SameContent(r, q) ==
  IF r = Null \/ q = Null THEN r = q
  ELSE r.text = q.text /\ r.status = q.status /\ r.from = q.from

\* The cache says what the backend says, and at most one version of an
\* auto-superseded fact is current.
Agreed == \A i \in Ids : SameContent(mem[i], cache[i])
OneCurrent == auto => Cardinality(Active(mem)) <= 1
Healthy == Agreed /\ OneCurrent

\* While requests come one at a time and succeed, they leave the two stores in
\* agreement and no two current versions of an auto-superseded fact; and one
\* consolidation of the user that has the system to itself restores that,
\* whatever overlapped, failed or crashed before it.
HealthyAtRest ==
  ~disturbed /\ (\A e \in Executors : ~Busy(e)) => Healthy

\* What a consolidation leaves: no noise, no text to rewrite, no text twice.
Tidy ==
  \A i \in Stored(mem) :
    /\ Canonical[mem[i].text] = mem[i].text
    /\ \A j \in Stored(mem) : mem[i].text = mem[j].text => i = j

Completing(e) ==
  /\ exec[e].op = "consolidate" /\ exec[e].stage = "archive"
  /\ exec[e].todo = {} /\ exec'[e] = Idle

\* A consolidation that rebuilt, deduplicated and came to its end leaves the
\* memories tidy, however many duplicates overlapping stores had left.
ConsolidationTidies ==
  [][\A e \in Executors :
       Completing(e) /\ exec[e].scoped /\ exec[e].dedupe
         /\ (\A f \in Executors : ~Busy(f)') => Tidy']_vars

Versions(s) == {Canonical[s[i].text] : i \in Stored(s)} \ {Null}

TakingBack(e) == exec[e].stage = "rollback" /\ Targets(exec[e]) # {}

\* Without a user the consolidation does not rebuild, and a row whose memory is
\* gone may be the one of two duplicates it keeps.
TrustingCache(e) == exec[e].stage = "dups" /\ ~exec[e].scoped

\* Superseding, rewriting and deduplicating never remove the last memory that
\* says something: the other copy is written before one is deleted, also when
\* the handler fails or dies in between.  Only a user who forgets it, a failed
\* store that takes its own memory back, and a consolidation that did not
\* rebuild the cache, may.
NoVersionLost ==
  [][\/ Versions(mem) \subseteq Versions(mem') \cup forgotten'
     \/ \E e \in Executors :
          (TakingBack(e) \/ TrustingCache(e)) /\ exec'[e] # exec[e]]_vars

\* A fact with a current version keeps one until it is forgotten or found to
\* be noise.
KeepsCurrent ==
  [][\/ Active(mem) = {} \/ Active(mem') # {}
     \/ \E e \in Executors :
          exec[e].stage \in {"forget", "noise"} /\ exec'[e] # exec[e]]_vars

\* Once stores and faults stop, the periodic consolidation of the user brings
\* the stores to agreement, with at most one current version and no noise,
\* rewritable text or duplicate left, and they stay so.
Converges == <>[](Healthy /\ Tidy)
=============================================================================
