SPECIFICATION mcSpec
CONSTANTS
  DurationBits = 8
  MaxBatch = 3
  MaxInterval = 4
  MaxAttempt = 8
  p1 = p1
  p2 = p2
  p3 = p3
  hostA = hostA
  hostB = hostB
  hostLong = hostLong
  ShortNames = {hostA, hostB}
  FullNames = {hostLong}
  Localhost = localhost
  NoName = none
  OverrideFull = none
  Answers <- mcAnswers
  MaxChanges = 2
  MaxForwarders = 2
  MaxTempFiles = 1
  PIDs <- mcPIDs
  Usages <- mcUsages
  MaxProcesses = 2
  CPUWeight = 1
  RSSWeight = 2
  MinScore = 1
  SampleMin = 2
  Scale = 60
  Steady = 3
  CollapseThreshold = 1
  CollapseAbove = 3
  MergeAbove = 2
  CollapseMin = 3
  InitialCapacity = 2
  Top = 99
  Sketches = {s1, s2}
  MinValue = 1
  MaxValue = 12
  Unit = 2
  Values = {0, 1, 2, 4, 9}
  MaxCount = 2
  MaxOps = 5
  Den = 4
SYMMETRY mcSymmetry
INVARIANT
  AccuracyGuaranteed
CHECK_DEADLOCK FALSE
