\* Two messages that come and go in pages of up to two, one message a turn; three
\* generations of one configuration; two attempts a job; two invocations.
CONSTANTS
  Messages = {m1, m2}
  Workers = {w1, w2}
  NoOne = NoOne
  Dead = Dead
  Human = Human
  Callback = Callback
  MaxAttempts = 2
  TurnLimit = 1
  PageLimit = 2
  BackfillLimit = 1
  MaxMailbox = 3
  MaxGeneration = 3
SPECIFICATION AspectSpec
SYMMETRY Alike
\* A source that failed stays so while people leave it alone.
CHECK_DEADLOCK FALSE
INVARIANTS
  PolledOrGivenUp
  CheckpointAccounts
  HonestCoverage
