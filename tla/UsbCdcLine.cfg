SPECIFICATION Spec
CONSTANTS
  Writers = {"w1"}
  OutUrbs = {"u1", "u2"}
  InUrbs = 2
  RingSize = 2
  UrbSize = 2
  LineSize = 3
  MaxOut = 0
  MaxIn = 3
  Failures = FALSE
CHECK_DEADLOCK FALSE
INVARIANT LineKeepsBytes
