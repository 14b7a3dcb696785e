SPECIFICATION Spec
CONSTANTS
  Callers = {main}
  Kinds = {"AT", "+++", "AT+RESET"}
  Ids = {i1, i2}
  NoId = noId
  MaxUnsolicited = 0
  LateAnswers = TRUE
INVARIANTS
  OwnAnswer
