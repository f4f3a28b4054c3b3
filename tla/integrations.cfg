SPECIFICATION mcSpec
CONSTANTS
  Paths = {p}
  Features = {f, g}
  g = g
  Plain = plain
  Configs = {{plain, f}, {f, g}}
  AgentFeatures <- mcAgentFeatures
  Absent = absent
  Broken = broken
  MaxFileChanges = 2
  MaxRequests = 2
  Definitions <- mcDefinitions
  MaxExecutions = 2
  MaxLines = 1
  ChannelsCapacity = 1
  x = x
  y = y
  bad = bad
  Hashes = {x, y}
  ParentConfigs <- mcParentConfigs
  Invalid = bad
  Commands = {c}
  QueueLen = 2
  MaxConfigs = 3
  MaxHandled = 4
  MaxRuns = 3
  u = u
  RestartFlags = {reg}
  BasicFlags = {u, b}
  UserFeatures <- mcUserFeatures
  Requests = {r}
  NoHandler = {}
  Delays = {0}
  PollDelay = 2
  MaxToggles = 1
  MaxFailures = 1
INVARIANTS
  FilesFollowed
  LinesHandled
  
  StopStops
  
PROPERTIES
  ExecutionsEnd
  FlagsSettle
CHECK_DEADLOCK FALSE
