CONSTANTS
  read = read
  write = write
  graph = graph
  none = none
  Calls <- MCCalls
  Writes <- MCWrites
  Apis <- MCApis
  ApiOf <- MCApiOf
  NoHeader = none
  Asked <- MCAsked
  Retries = 3
  Skew = 2
  MaxRetryDelay = 1
  Lifetimes = {3, 4}
  IssueLatency = 1
  SendLatency = 1
SPECIFICATION FairSpec
INVARIANTS
  TypeOK
  WriteAtMostOnce
  DefiniteAnswers
  GivesUpOnlyWhenExhausted
  NoExpiredBearer
PROPERTIES
  EveryCallEnds
  KeepsPromise
