SPECIFICATION Spec
CONSTANTS
  Txs = {1, 2, 3, 4, 5, 6}
  cb = cb
  f = f
  CoinBases = {cb}
  Funding = {f}
  vin <- MCvin
  Fee <- MCFee
  Size <- MCSize
  DustFee <- MCDustFee
  nLockTime <- MCnLockTime
  nSequence <- MCnSequence
  OptIn = {2}
  nCoinbaseMaturity = 2
  ancestorLimit = 3
  ancestorSizeLimit = 6
  descendantLimit = 3
  descendantSizeLimit = 6
  maxDescendantsToVisit = 2
  sizelimit = 11
  incrementalRelayFee = 1
  minRelayTxFeeRate = 1
  K = 1
  limitfreerelay = 2
  MaxHeight = 2
  MaxBlockTxs = 2
  FeeDeltas <- MCFeeDeltas
  MaxDelta = 3
  Aged = {3}
  nBlockMaxWeight = 9
  blockMinFeeRate = 1
  MaxPriorityTxs = 1
INVARIANTS PoolConsistent NextBlockReady EvictedStayOut ReloadsWhole TemplateValid
