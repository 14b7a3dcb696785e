SPECIFICATION Spec
CONSTANTS
  LedTasks = {main, loop}
  Timer = timer
  Nobody = nobody
  OtaTasks = {t1, t2}
  Urls = {old, new}
  Factory = factory
  Nothing = nothing
  Blocks = 3
  Requests = {0, 2}
  Quota = 2
  Capacity = 3
  LastTime = 1
  MaxSaves = 4
  Loggers = {a, b}
  Lengths = {0, 1, 2}
  Header = 1
  Reserve = 2
  Size = 8
  Timeouts = 5
  Errors = 1
  Attempts = 3
  MaxBoots = 4
  LongPress = 1
  QueueSize = 2
  MaxRetries = 2
  Jump = 10
  LastUptime = 3
  MaxEvents = 3
  Transfers = 5
  MaxSignals = 2
  MaxPlugs = 2
  XferSize = 2
  LastSeq = 2
  MaxStreams = 2
  SetUpTransfers = 2
  ResumeTransfers = 1
  UvcQueueSize = 2
  MaxCameras = 1
  MaxCalls = 4
  Claimers = {c1, c2}
  Room = 3
  Files = {f1, f2}
  DfuBlocks = 2
  Slot = 3
  NoFile = noFile
  MaxPackets = 4
  Readers = {r1, r2}
  RingSize = 2
  MaxBytes = 3
  MaxInits = 2
CHECK_DEADLOCK FALSE
INVARIANTS
  TypeOK
  LedShowsActive
  RunningIntact
  UpdateTakesEffect
  NothingVanishes
  LogStaysInside
  GentleFirst
  SimSparedPerBoot
  IdleUrbsOwned
  FrameIntact
  StopReleasesAll
  AnswerAwaited
  DeviceSound
  StatusHonest
  PacketsWhole
  ReadsWhole
PROPERTIES
  ProvisioningDeliberate
  FreedUnused
  WorkEnds
