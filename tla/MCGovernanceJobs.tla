------------------------- MODULE MCGovernanceJobs -------------------------
(* GovernanceJobs on small instances.                                      *)
EXTENDS JobsRefinement, TLC

\* Jobs, keys and executors are interchangeable: sound for the safety runs.
Symmetry == Permutations(Jobs) \cup Permutations(Executors)
=============================================================================
