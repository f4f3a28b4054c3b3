SPECIFICATION FairSpec
CONSTANTS
  Agent = agent
  Remotes = {r1}
  Local = localFolder
  Sanitized <- Sanitize
  QueueLen = 1
  Faults = {"register", "save", "remove", "process", "period", "restart"}
  Plugins = {p1, p2}
  Integrations = {i1}
  LoopFaults = {"store", "process", "remove", "restart"}
  MaxOutputs = 2
  MaxLoopFaults = 1
  MaxFaults = 2
  r1 = r1
  localFolder = localFolder
  agentFolder = agentFolder
  f1 = f1
INVARIANTS
  SendersRegistered
PROPERTIES
  SavedIsSent
  OrphansGo
  StoredIsSent
  LeftoversSent
