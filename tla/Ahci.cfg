SPECIFICATION Spec
CONSTANTS
  CPUs = {1, 2}
  NP = 2
  Plugs <- MCPlugs
  Sectors = 3
  Ranges <- MCRanges
  PRD = 2
  COUNT = 4
  MaxCalls = 3
  MaxFails = 1
INVARIANTS TransferRight AllFound
PROPERTY Returns
CHECK_DEADLOCK FALSE
