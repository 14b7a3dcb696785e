SPECIFICATION Spec
CONSTANTS
  Devices = {"rak", "inv", "salt"}
  Networks = {{"rak", "inv"}, {"rak", "salt"}}
  Values = {0, 1}
  Factory = 1
  Unknown = Unknown
  QueueSize = 2
  MaxEvents = 3
  MaxFaults = 1
  Faults = {"silent"}
CHECK_DEADLOCK FALSE
INVARIANTS
  NeverSendsNothing
