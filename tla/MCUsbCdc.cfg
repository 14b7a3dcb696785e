SPECIFICATION Spec
CONSTANTS
  w1 = w1
  w2 = w2
  u1 = u1
  u2 = u2
  Writers = {w1, w2}
  OutUrbs = {u1, u2}
  InUrbs = 1
  RingSize = 2
  UrbSize = 2
  LineSize = 3
  MaxOut = 2
  MaxIn = 3
  Failures = TRUE
SYMMETRY Symmetry
CHECK_DEADLOCK FALSE
INVARIANTS
  TypeOK
  UrbsAccounted
  CountersSettle
  ReadFindsItsBytes
  BytesInOrder
