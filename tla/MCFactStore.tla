---------------------------- MODULE MCFactStore ----------------------------
(* FactStore on small instances.                                           *)
EXTENDS FactStore, TLC

CONSTANTS a, b, alias, chatter

\* Two versions of the fact; another wording of the first, and a text the
\* hot-path judge lets in and the offline judge drops.
Judged == (a :> a) @@ (b :> b)
JudgedAny == Judged @@ (alias :> a) @@ (chatter :> Null)

\* All four consolidation requests.
AnyRequest == BOOLEAN \X BOOLEAN
=============================================================================
