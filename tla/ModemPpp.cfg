SPECIFICATION Spec
CONSTANTS
  DialRetryTimes = 3
  MaxEvents = 3
CHECK_DEADLOCK FALSE
INVARIANTS
  TypeOK
  LinkAttendedUndisturbed
  ConnectBitHonest
  NoTransitionLeft
