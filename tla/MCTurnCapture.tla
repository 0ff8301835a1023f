--------------------------- MODULE MCTurnCapture ---------------------------
(* TurnCapture on small instances.                                         *)
EXTENDS TurnCapture, TLC

CONSTANTS said, again, noise, fact, note

\* One message holds a keyed fact and another one, one only asks for work, one is
\* noise.
SomeFacts == (said :> {fact, note}) @@ (again :> {}) @@ (noise :> {})
=============================================================================
