--------------------------- MODULE CurrentVersion ---------------------------
(***************************************************************************)
(* FactStore with a history variable: what the user was last told of an    *)
(* auto-superseded fact.  A store is answered "stored", or "skipped" as a  *)
(* duplicate of the current version (backend/services.py); either way the  *)
(* version sent should be the current one from then on.                    *)
(*                                                                         *)
(* The variable says nothing (Null) while handlers have overlapped or      *)
(* failed since the last consolidation that had the system to itself,      *)
(* after the user deletes the current version, and after a consolidation   *)
(* that found the version twice: of equal texts it keeps the oldest,       *)
(* current or not (KeepsCurrent of FactStore is about that).               *)
(***************************************************************************)
EXTENDS FactStore

VARIABLE said  \* the version the last answer made current, or Null

cvars == <<vars, said>>

InitCurrent == Init /\ said = Null

\* store_memory_with_governance answers "stored".
Stores(e) ==
  exec[e].op = "store" /\ exec[e].stage = "archive" /\ exec'[e] = Idle

\* delete_memory deletes the current version.
DeletesCurrent(e) ==
  /\ exec[e].op = "forget" /\ exec[e].pc = "loop" /\ exec'[e].pc = "uncache"
  /\ mem[exec'[e].cur].status = "active"

\* run_consolidation_operation decides what it rewrites and deletes.
Dedupes(e) == exec[e].pc = "read" /\ exec'[e].stage = "noise"

Wordings == {i \in Stored(cache) : Canonical[cache[i].text] = Canonical[said]}

AfterDedupe ==
  IF said # Null /\ Cardinality(Wordings) = 1 THEN Canonical[said] ELSE Null

Saying ==
  said' = IF disturbed' THEN Null
          ELSE IF \E e \in Executors : Stores(e)
            THEN exec[CHOOSE e \in Executors : Stores(e)].text
          ELSE IF \E e \in Executors : DeletesCurrent(e) THEN Null
          ELSE IF \E e \in Executors : Dedupes(e) THEN AfterDedupe
          ELSE said

\* store_memory_with_governance answers "skipped": nothing is written.
AnswersDuplicate(t) ==
  /\ \E e \in Executors : ~Busy(e)
  /\ IsDuplicate(t)
  /\ said' = IF disturbed \/ (\E e \in Executors : Busy(e)) THEN said ELSE t
  /\ UNCHANGED vars

NextCurrent ==
  \/ Next /\ Saying
  \/ \E t \in Texts : AnswersDuplicate(t)

CurrentSpec == InitCurrent /\ [][NextCurrent]_cvars

-----------------------------------------------------------------------------
(* Properties *)

\* Between requests that come one at a time and succeed, an auto-superseded fact
\* has exactly one current version, and it is the one the last store was
\* answered "stored" or "skipped" for, as the judge words it: no row that is
\* stale, superseded or left by an earlier failure passes for the current
\* version.
CurrentIsAsSaid ==
  auto /\ said # Null /\ (\A e \in Executors : ~Busy(e)) =>
    /\ {mem[i].text : i \in Active(mem)} = {said}
    /\ Cardinality(Active(mem)) = 1
=============================================================================
