SPECIFICATION HSpec
CONSTANTS
  k1 = k1  k2 = k2  v1 = v1  v2 = v2
  w1 = w1  w2 = w2  r1 = r1  s1 = s1  s2 = s2
  Tombstone = Tombstone
  NoRecord = NoRecord
  Keys = {k1}
  Values = {v1, v2}
  DeleteKeys = {k1}
  Writers = {w1}
  Readers = {}
  Snapshots = {}
  FlushThreshold = 2
  L0CompactionTrigger = 9
  BaseLevelSize = 1
  LevelSizeMultiplier = 2
  MaxLevels = 3
  IntWidth = 16
  FlushQueueDepth = 1
  MaxSeq = 4
  MaxSessions = 3
  WriteSessions = 1
  Faults = {"append", "walOpen", "flushWrite", "flushOpen", "walRemove", "closeWrite", "closeOpen"}
  MaxFaults = 2
CHECK_DEADLOCK FALSE
INVARIANTS
  WALBacksMemory
  LatestIsDurable
PROPERTIES
  ImplementsKVStore
