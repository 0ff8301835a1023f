\* One client posts every turn of the instance, another one works beside it.
CONSTANTS
  c1 = c1
  c2 = c2
  Clients = {c1, c2}
  Subjects <- SomeSubjects
  Turns <- SomeTurns
  Judges = {"off", "on"}
  Limit = 1
  MaxTurns <- SomeTaken
SPECIFICATION Spec
CHECK_DEADLOCK FALSE
INVARIANTS TypeOK OnlyWorkWritesTask QuestionsByWordsAreNotKept
  NothingExtractedIsLost TaskIsLostOnlyToAFact
PROPERTIES NamedTaskIsContinued
