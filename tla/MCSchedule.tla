----------------------------- MODULE MCSchedule -----------------------------
(* Schedule on a small instance.                                           *)
EXTENDS Schedule

\* max_attempts is an unchecked int in the request: a negative one is clamped.
NegativeOrTwo == {-1, 2}
=============================================================================
