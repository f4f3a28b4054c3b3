SPECIFICATION MCFairSpec
CONSTANTS
  MaxEvents = 4
  Size <- Sizes
  MaxBytes = 3
  MaxCount = 2
  EventCap = 2
  BatchCap = 1
  ListenerCap = 1
  Callers = {c1, c2}
  Identities = {id1, id2}
  Empty = empty
  Listeners = {l1}
INVARIANTS
  EveryEventOnce
  
  ListenersCatchUp
PROPERTIES
  KeepsPromise
  StopEnds
  
  
CHECK_DEADLOCK FALSE
