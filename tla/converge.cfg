SPECIFICATION FairSpec
CONSTANTS
  Plugins = {p1}
  Entities = {e1}
  Keys = {k1}
  Values = {a, none}
  Absent = none
  NoFile = NoFile
  Torn = Torn
  Faults = {"post", "rename", "offline", "journal", "open"}
  MaxID = 9
  MaxPending = 9
  MaxFaults = 2
  MaxSaves = 3
  MaxActive = 1
PROPERTIES
  Converges
  JournalsDrain
CHECK_DEADLOCK FALSE
