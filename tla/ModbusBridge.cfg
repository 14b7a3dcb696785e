SPECIFICATION Spec
CONSTANTS
  Devices = {"rak", "inv", "salt"}
  Networks = {{"rak", "salt"}, {"inv", "salt"}}
  Values = {0, 1}
  Factory = 1
  Unknown = Unknown
  QueueSize = 2
  MaxEvents = 3
  MaxFaults = 1
  Faults = {"local", "raw", "refused", "silent", "offline"}
CHECK_DEADLOCK FALSE
INVARIANTS
  TypeOK
  CloudObeyed
  CloudInformed
  AnswersPreventPanic
