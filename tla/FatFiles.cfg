SPECIFICATION Spec
CONSTANTS
  SS = 4
  DPS = 2
  MAX_DIR = 64
  MaxNumber = 2
  Checksum <- MCChecksum
  MAX_FAT12 = 4
  MAX_FAT16 = 5
  MAX_FAT32 = 100
  MinTot16 = 8
  MinTot32 = 8
  DWORD = 1073741824
  FSizeMax = 15
  Disks <- MCDisks
  File = {"a", "b"}
  Modes <- MCModes
  Lengths = {3, 9}
  Offsets = {0, 14}
  MaxCalls = 5
INVARIANTS VolumeSound SurvivesPowerLoss
PROPERTIES ImplementsStore SyncEnds
CHECK_DEADLOCK FALSE
