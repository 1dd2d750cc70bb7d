SPECIFICATION Spec
CONSTANTS
  SS = 4
  DPS = 2
  MAX_DIR = 64
  MaxNumber = 2
  Checksum <- MCChecksum
  MAX_FAT12 = 5
  MAX_FAT16 = 6
  MAX_FAT32 = 100
  MinTot16 = 8
  MinTot32 = 8
  DWORD = 1073741824
  FSizeMax = 15
  Disks <- MCDisks
  Paths <- MCPaths
  Moves <- MCMoves
  Buffers = {3, 4, 9}
  MaxDepth = 4
  MaxCalls = 3
INVARIANTS DirectoriesSound ClustersSound SurvivesPowerLoss
 
CHECK_DEADLOCK FALSE
