SPECIFICATION Spec
CONSTANTS
  g = g  a1 = a1  a2 = a2  b1 = b1
  Blocks <- ForkBlocks
  Genesis = g
  NULL = NULL
  pprev <- ForkPrev
  Up <- ForkUp
  nHeight <- ForkHeight
  nChainWork <- ForkWork
  MAX_BLOCKFILE_SIZE = 3
  MIN_BLOCKS_TO_KEEP = 1
  nPruneAfterHeight = 1
  UINT_MAX = 15
  fPruneMode = TRUE
  DEFAULT_CHECKBLOCKS = 2
  MaxFile = 3
  MaxStops = 1
  Failures = {"kill", "power"}
INVARIANTS ChainstateInIndex DataDurable StartsUp PrunedRecorded
PROPERTIES PruneKeepsRecent
