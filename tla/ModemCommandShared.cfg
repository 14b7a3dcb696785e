SPECIFICATION FairSpec
CONSTANTS
  Callers = {main, eventLoop}
  Kinds = {"+++", "AT+RESET"}
  Ids = {i1, i2}
  NoId = noId
  MaxUnsolicited = 1
  LateAnswers = TRUE
INVARIANTS
  AloneOwnAnswer
PROPERTIES
  CommandReturns
