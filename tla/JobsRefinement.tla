--------------------------- MODULE JobsRefinement ---------------------------
(***************************************************************************)
(* The job table and its handlers implement JobQueue: a job's phase is its *)
(* status column, and its holder is the executor that runs it.             *)
(***************************************************************************)
EXTENDS GovernanceJobs

Workers(j) == {e \in Executors : Executing(e) /\ exec[e].job = j}

Holder == [j \in Jobs |-> IF Workers(j) = {} THEN Null
                                             ELSE CHOOSE e \in Workers(j) : TRUE]

Status == [j \in Jobs |-> jobs[j].status]

Queue == INSTANCE JobQueue WITH phase <- Status, holder <- Holder

\* The handlers implement the abstract queue: whatever they interleave, each
\* of their steps submits, starts, ends or loses a job as JobQueue allows, or
\* changes nothing it can see (when executions end within their lease).
ImplementsJobQueue == Queue!Spec
=============================================================================
