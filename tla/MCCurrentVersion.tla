-------------------------- MODULE MCCurrentVersion --------------------------
(* CurrentVersion on a small instance.                                     *)
EXTENDS CurrentVersion, TLC

CONSTANTS a, b

\* Two versions of the fact.
Judged == (a :> a) @@ (b :> b)

AnyRequest == BOOLEAN \X BOOLEAN

\* Executors are interchangeable, and so are texts that are judged alike.
Symmetry == Permutations(Executors) \cup Permutations({a, b})
=============================================================================
