SPECIFICATION Spec
CONSTANTS
  Callers = {main}
  Kinds = {"AT", "+++", "ATD", "AT+RESET"}
  Ids = {i1, i2, i3}
  NoId = noId
  MaxUnsolicited = 0
  LateAnswers = FALSE
INVARIANTS
  TypeOK
  NoNullCall
  NoStaleCompletion
PROPERTIES
  ImplementsService
