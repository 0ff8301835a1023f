-------------------------- MODULE MCTaskLifecycle --------------------------
(* TaskLifecycle on a small instance.                                      *)
EXTENDS TaskLifecycle, TLC

CONSTANTS t1, t2, i1, i2, p1, p2

Homes == (i1 :> p1) @@ (i2 :> p2)

\* The consolidation of the user with everything on, and a cleanup of one
\* project.
Everything == [scoped |-> TRUE, projects |-> Projects,
               archiveNoise |-> TRUE, pruneNoise |-> TRUE,
               archiveBare |-> TRUE, pruneBare |-> TRUE, archiveClosed |-> TRUE]
OfProject == [Everything EXCEPT !.projects = {p2}]

AnyCleanup == {Everything, OfProject}

\* What the system starts with: noise of the first project, t1 before t2, and at
\* most one memory of it, the id of the other being left for the summary.
StartsSmall ==
  /\ \A t \in Tasks : tasks[t] # Null => tasks[t].project = p1
  /\ tasks[t2] # Null => tasks[t1] # Null
  /\ cache[i2] = Null

MCInit == Init /\ StartsSmall

MCSpec == MCInit /\ [][Next]_vars /\ Fairness
=============================================================================
