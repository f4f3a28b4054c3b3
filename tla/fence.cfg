SPECIFICATION MCSpec
CONSTANTS
  Plugins = {p1}
  Entities = {e1}
  Keys = {k1, k2}
  Values = {a, none}
  Absent = none
  NoFile = NoFile
  Torn = Torn
  Faults = {"crash", "post", "forget"}
  MaxID = 3
  MaxPending = 2
  MaxFaults = 2
  MaxSaves = 3
  MaxActive = 1
SYMMETRY Symmetry
INVARIANTS
  IDFence
  ChainInv
PROPERTIES
  PatchFits
  
  ReapedDeltasSurvive
CHECK_DEADLOCK FALSE
