SPECIFICATION MCSpec
CONSTANTS
  Plugins = {p1, p2}
  Entities = {e1}
  Keys = {k1}
  Values = {a, none}
  Absent = none
  NoFile = NoFile
  Torn = Torn
  Faults = {"journal"}
  MaxID = 2
  MaxPending = 2
  MaxFaults = 3
  MaxSaves = 0
  MaxActive = 2
PROPERTIES
  HealthyJournalsSurvive
CHECK_DEADLOCK FALSE
