\* Two sessions, each with two turns; a report may come twice, a call may fail;
\* every capture goes on.
CONSTANTS
  said = said
  again = again
  noise = noise
  fact = fact
  note = note
  Hosts = {"claude-code", "openclaw"}
  Sessions = {s1, s2}
  Hooks = {h1, h2}
  Messages = {said, noise}
  Noise = {noise}
  Answers = {done}
  Facts = {fact, note}
  Keyed = {fact}
  FactsOf <- SomeFacts
  Null = Null
  MaxTurns = 2
  MaxReports = 1
  MaxFaults = 1
SPECIFICATION FairSpec
CHECK_DEADLOCK FALSE
INVARIANTS MarkedWasDelivered SentOnce FactsKeptOnce CopiesAreSends
PROPERTIES TurnIsCaptured
