SPECIFICATION FairSpec
CONSTANTS
  Jobs = {j1, j2}
  Workers = {w1, w2}
  QueueSize = 1
  MaxRetries = 2
  NoJob = NoJob
  Keys = {k1}
  Key <- MCKey
INVARIANTS
  TypeOK
  CleanStop
  AnswerIsGenuine
  NoJobLost
  ErrorAfterAllRetries
PROPERTIES
  Implements
  EveryRequestReturns
  ProcessEnds
