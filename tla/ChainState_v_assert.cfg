SPECIFICATION Spec
CONSTANTS
  g = g  a1 = a1  a2 = a2  b1 = b1  b2 = b2  b3 = b3  c2 = c2
  Blocks <- ForkBlocks
  Genesis = g
  pprev <- ForkPrev
  Up <- ForkUp
  nHeight <- ForkHeight
  nChainWork <- ForkWork
  address <- ForkAddress
  Threads = {t1}
  NoThread = NoThread
  NULL = NULL
  MIN_BLOCKS_TO_KEEP = 2
  MaxSequence = 8
  MaxPrecious = 3
  Scenarios <- OperatorScenarios
INVARIANTS HeaderAssertHolds
