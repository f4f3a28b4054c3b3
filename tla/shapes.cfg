SPECIFICATION MCSpec
CONSTANTS
  Plugins = {p1, p2}
  Entities = {e1, e2}
  Keys = {k1}
  Values = {a, none}
  Absent = none
  NoFile = NoFile
  Torn = Torn
  Faults = {"crash", "post", "rename", "source", "copy", "map"}
  MaxID = 2
  MaxPending = 1
  MaxFaults = 2
  MaxSaves = 3
  MaxActive = 2
SYMMETRY Symmetry
PROPERTIES
  PatchFits
CHECK_DEADLOCK FALSE
