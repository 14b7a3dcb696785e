SPECIFICATION Spec
CONSTANTS
  Writers = {"w1"}
  OutUrbs = {"u1", "u2"}
  InUrbs = 1
  RingSize = 1
  UrbSize = 1
  LineSize = 3
  MaxOut = 2
  MaxIn = 2
  Failures = TRUE
CHECK_DEADLOCK FALSE
PROPERTIES
  AcceptedIsSent
  ImplementsChannels
