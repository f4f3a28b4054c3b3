SPECIFICATION MCSpec
CONSTANTS
  Agent = agent
  Remotes = {r1}
  Local = localFolder
  Sanitized <- Sanitize
  QueueLen = 1
  Faults = {"period"}
  Plugins = {p1, p2}
  Integrations = {i1}
  LoopFaults = {}
  MaxOutputs = 2
  MaxLoopFaults = 1
  MaxFaults = 0
  r1 = r1
  localFolder = localFolder
  agentFolder = agentFolder
  f1 = f1
PROPERTIES
  ActiveEntitiesStay
