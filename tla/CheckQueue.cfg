SPECIFICATION FairSpec
CONSTANTS
  Workers = {w1, w2}
  Masters = {m1, m2}
  Checks = {c1, c2, c3}
  nBatchSize = 2
  NoThread = NoThread

INVARIANTS VerdictExact NoCheckOutlivesControl
PROPERTIES WaitReturns
