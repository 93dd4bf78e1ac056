SPECIFICATION Spec
CONSTANTS
  g = g  a1 = a1  a2 = a2  b1 = b1  b2 = b2  b3 = b3  c2 = c2
  Blocks <- BranchBlocks
  Genesis = g
  pprev <- BranchPrev
  Up <- BranchUp
  nHeight <- BranchHeight
  nChainWork <- BranchWork
  address <- BranchAddress
  Threads = {t1}
  NoThread = NoThread
  NULL = NULL
  MIN_BLOCKS_TO_KEEP = 1
  MaxSequence = 8
  MaxPrecious = 3
  Scenarios <- OperatorScenarios
INVARIANTS ActiveChainValid CandidatesSound
