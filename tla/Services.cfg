SPECIFICATION MCSpec
CONSTANTS
  Servers = {s1, s2}
  f1 = f1
  Tasks = {f1, f2}
  Repeating = {f1}
  deltaSeconds <- Deltas
  NoTask = NoTask
  RpcWorkers = {r1, r2}
  Requests = {q1, q2, q3}
  Polls = {q1, q2}
  Untimed = {q1}
  maxDepth = 1
  MaxBlocks = 1
  NoRequest = NoRequest
  OrphanPeers = {p1, p2}
  Txs = {1, 2, 3, 4, 6}
  Spends <- FamilySpends
  Outs <- FamilyOuts
  InvalidTx = {4}
  Big = {6}
  nMaxOrphanTx = 2
INVARIANTS SchedulerSafe HttpSafe OrphansSafe
PROPERTIES SchedulerLive HttpLive WorkSetDrains
