SPECIFICATION mcSpec
CONSTANTS
  Comps = {c1}
  Restartables = {c1}
  Degradables = {c1}
  DegradationLevels = 2
  MaxUsage = 1
  DefaultThreshold = 0
  IncidentLimit = 2
  MaxRestartAttempts = 1
  BackoffInitial = 1
  BackoffMax = 3
  BackoffFactor = 2
  MaxStarted = 2
  MaxDetected = 1
  MaxThreshold = 2
  BreakerConfig <- mcCircuit
  MonComps = {c1}
  MaxReading = 2
  HistoryMaxLen = 2
  MaxReadings = 3
  Resources = {cpu, mem}
  MaxAmount = 2
  HistoryLen = 2
  MaxTime = 3
  Agent = agent
  Remotes = {r1}
  Workers = {w1}
  VEvents = 2
  MaxStarts = 2
  QueueCap = 1
  VBatchCap = 1
  VCount = 2
  Exporters = {e1, e2}
  BatchSize = 3
  CircuitConfig <- mcExportCircuit
  MaxItems = 4
  MaxErrors = 1
  PIDs = {p1, p2}
  Infos = {a, x}
  Excluded = {x}
  NoProcess = none
  ProcessConsumers = {u1}
  EventChannelSize = 1
  MaxScans = 2
  MaxSystem = 2
  MaxRegistrations = 1
INVARIANTS
  StatusFollowsBreaker
  
  
  VortexEventOnce
  ItemsOnce
  ConsumersFollow
PROPERTIES
  GivesUp
CHECK_DEADLOCK FALSE
