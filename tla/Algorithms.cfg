SPECIFICATION MCSpec
CONSTANTS
  Size = 5
  W = 2
  SizeT = 16
  Counts <- FittingCounts
  E = 4
  MaxPages = 20
  BODY = 3
  EXT = 1
  CH = 2
  MAX_LFN = 5
  HASH_AFTER = 1
  MAX_NUM = 2
  Hash <- MCHash
  ExCvt <- MCExCvt
  Wupper <- MCWupper
  Names <- MCNames
  MaxFiles = 3
  SS = 4
  DPS = 2
  MAX_DIR = 64
  MAX_FAT12 = 4
  MAX_FAT16 = 5
  MAX_FAT32 = 7
  MinTot16 = 8
  MinTot32 = 8
  DWORD = 32
  Devices <- MCDevices
INVARIANTS  ShortNamesSound ShownAsGiven Unambiguous 
PROPERTY ImplementsBitSet
CHECK_DEADLOCK FALSE
