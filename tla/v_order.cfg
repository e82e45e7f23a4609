SPECIFICATION Spec
CONSTANTS
  k1 = k1  k2 = k2  v1 = v1  v2 = v2
  w1 = w1  w2 = w2  r1 = r1  s1 = s1  s2 = s2
  Tombstone = Tombstone
  NoRecord = NoRecord
  Keys = {k1}
  Values = {v1}
  DeleteKeys = {k1}
  Writers = {w1, w2}
  Readers = {}
  Snapshots = {}
  FlushThreshold = 1
  L0CompactionTrigger = 1
  BaseLevelSize = 1
  LevelSizeMultiplier = 2
  MaxLevels = 3
  IntWidth = 16
  FlushQueueDepth = 1
  MaxSeq = 2
  MaxSessions = 1
  WriteSessions = 1
  Faults = {}
  MaxFaults = 0
CHECK_DEADLOCK FALSE
PROPERTIES
  OnlyWritesChangeStore
