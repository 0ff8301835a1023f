\* One session under claude-code, whose user does not wait for the Stop hook.
CONSTANTS
  said = said
  again = again
  noise = noise
  fact = fact
  note = note
  Hosts = {"claude-code"}
  Sessions = {s1}
  Hooks = {h1, h2}
  Messages = {said, again}
  Noise = {}
  Answers = {done}
  Facts = {fact, note}
  Keyed = {fact}
  FactsOf <- SomeFacts
  Null = Null
  MaxTurns = 2
  MaxReports = 0
  MaxFaults = 0
SPECIFICATION Spec
CHECK_DEADLOCK FALSE
INVARIANTS CapturesOwnTurn
