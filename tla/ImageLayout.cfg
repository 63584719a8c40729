SPECIFICATION Spec
CONSTANTS
  Direct = 2
  SigsPerBlock = 2
  InodesPerBlock = 2
  HeaderSlots = 3
  InodeCounts = {4, 5}
  BlockCounts <- MC_BlockCounts
INVARIANTS
  BlocksPartitioned
  PayloadsReadBack
  SignaturesHold
CHECK_DEADLOCK FALSE
