SPECIFICATION Spec
CONSTANTS
  Tombstone = Tombstone
  NoRecord = NoRecord
  Keys = {1, 2}
  Values = {1, 2}
  MaxLevel = 2
  MaxReasonableLen = 1
  MaxGarbled = 1
  Hash1 <- MCHash1
  Hash2 <- MCHash2
  WordBits = 3
  BitsPerEntry = 3
  NumHash = 2
  DeflatedLen <- MCDeflatedLen
  Compression = TRUE
  Threshold = 2
  Writes <- MCWrites
  MaxSeq = 3
  MaxCrashes = 1
  MaxFaults = 1
  ScanRanges <- MCScanRanges
CHECK_DEADLOCK FALSE
INVARIANTS
  ListIsMap
  AckedAreReplayed
  TablesWellFormed
  TablesAnswer
  ScanExact
PROPERTIES
  TablesKeepVersions
