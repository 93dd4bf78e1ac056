# A verification project for the node

TLA+ models of the parts of the node (`src/src/`) whose correctness depends on
the order in which things happen: threads that share the validation state, calls
that arrive in any order, and a process that may stop between any two writes.
TLC checks the models on small instances. TLAPS proves the central properties of
several of them for every value of their constants (section 5).

All line numbers below are lines of files under `src/src/`. `PROJECT.json` maps
every definition that models code to the lines it stands for.

## 1. The system and its parts

The program is a full node of a Bitcoin 0.14 / Dogecoin 1.14 lineage with
AuxPoW code, a different subsidy and difficulty schedule, and addresses for
ML-DSA-44 keys. Its threads are the message handler, the socket handler,
connection openers, script check workers, HTTP workers that run RPC commands, an
import thread, the scheduler and the Tor controller. Most of the state they share
is guarded by `cs_main`.

| part | main files | model |
|---|---|---|
| script check queue | `checkqueue.h` | `CheckQueue`; proofs in `CheckQueueProofs` |
| unspent output cache | `coins.cpp`, `txdb.cpp` | `CoinsCache`, abstract `CoinsLayers`; proofs in `CoinsCacheProofs` |
| block tree, best chain | `validation.cpp` 1358-1383, 1613-1680, 2277-2876, 3249-3527, 3684-3797 | `ChainState`; proofs in `ChainStateProofs` |
| block files, flushing, pruning, restart | `validation.cpp` 1733-2200, 2878-2933, 3496-3900, 4024-4060, `txdb.cpp` | `ChainDisk`; proofs in `ChainDiskProofs` |
| transaction request tracker | `txrequest.cpp` | `TxRequest`, abstract `TxRequestRules`; proofs in `TxRequestProofs` |
| memory pool, acceptance, replacement, mempool.dat | `txmempool.cpp`, `validation.cpp` 257-472, 575-1090, 2299-2400, 4394-4505, `rgm-fees.cpp` 68-108 | `MemPool` |
| block assembly | `miner.cpp` | `BlockAssembly`, on `MemPool` |
| block download: blocks in flight, header sync, compact blocks | `net_processing.cpp`, `blockencodings.cpp` | `BlockDownload` |
| orphan transactions | `net_processing.cpp` 666-860, 1256-1325, 1981-2124 | `OrphanPool`; proofs in `PeersProofs` |
| connections, node lifetimes | `net.cpp` | `Connections`; proofs in `PeersProofs` |
| scheduler | `scheduler.cpp` | `Scheduler`; proofs in `SchedulerProofs` |
| HTTP work queue, waiting calls, shutdown | `httpserver.cpp`, `rpc/blockchain.cpp`, `init.cpp` | `HttpServer`; proofs in `HttpProofs` |
| wallet: conflicts, key pool, encryption | `wallet/*.cpp` | not modelled |
| validation rules, version bits, Merkle tree | `validation.cpp`, `versionbits.cpp`, `consensus/` | not modelled |
| subsidy, difficulty, wallet fees of this coin | `rgm.cpp`, `rgm-fees.cpp`, `pow.cpp` | not modelled |
| address manager | `addrman.cpp` | not modelled |
| signature cache, Tor control, AuxPoW cache | `cuckoocache.h`, `torcontrol.cpp`, `rpc/auxcache.cpp` | not modelled |
| fee estimator | `policy/fees.cpp` | not modelled |
| script interpreter, signing, keys, encodings | `script/`, `key.cpp`, `pq/`, `base58.cpp` | not modelled |
| RPC commands, REST, GUI, ZeroMQ | `rpc/`, `rest.cpp`, `qt/`, `zmq/` | not modelled |
| vendored libraries | `leveldb/`, `secp256k1/`, `univalue/` | not modelled |

How the modelled parts interact:

- `ProcessNewBlock` puts a block into a file and into the block index
  (`ChainDisk.StoreBlock`, `ChainState.AcceptBlock`). Then `ActivateBestChain`
  chooses a candidate and moves the tip (`ChainState`).
- Connecting a block runs its scripts on the check queue (`CheckQueue`) and its
  spends in a view stacked on `pcoinsTip` (`CoinsCache`, level 2 on level 1).
- After each step `FlushStateToDisk` may write block files, block index and coins
  in that order, and prune files (`ChainDisk`). The flush of the coins is
  `CoinsCache.Flush` of level 1 into level 0.
- The message handler asks the request tracker which transactions to ask a peer
  for and reports what arrives (`TxRequest`). What arrives goes to the memory pool
  (`MemPool`), or waits for its parents (`OrphanPool`). Blocks and headers are asked
  for by `BlockDownload`, which hands blocks to `ProcessNewBlock`.
- Connecting and disconnecting a block changes the memory pool
  (`MemPool.ConnectTip`, `DisconnectTip`); `BlockAssembly` fills a block from it.
- `Connections` says which nodes the message thread may visit, and when it is woken.

`ChainState` and `ChainDisk` model the same functions from two sides. `ChainState`
has every flag and set of the block tree and several threads, and treats disk
reads as given by the flags. `ChainDisk` has what is in memory, in the operating
system and on disk, one thread, and valid blocks only. `BlockDownload` and
`OrphanPool` keep of the chain and the pool only the verdicts their handlers tell
apart.

## 2. The modules

### CheckQueue

`CCheckQueue` and `CCheckQueueControl` as `ConnectBlock` uses them. A master takes
`ControlMutex`, adds checks in pieces, joins the workers in `Loop(true)` and
returns the conjunction of all checks; on an early return of `ConnectBlock` the
destructor of the controller waits instead.

- State: `queue`, `nIdle`, `nTotal`, `fAllOk`, `nTodo` are the fields; `pc`,
  `vChecks`, `fOk` are the locals of each thread in `Loop`; `waiting` is who sleeps
  on a condition variable; `added` and `bad` are the checks of the current block
  and those that evaluate to false.
- Actions: one for each critical section under `mutex`. `cond.wait` splits a
  section in two. A notification only reaches threads that sleep. Spurious
  wake-ups and the interruption of a worker at shutdown are actions of their own.
- Left out: `fQuit`, which nothing sets, and the order of the queue, which the
  code says does not matter.

### CoinsCache and CoinsLayers

Level 0 is `CCoinsViewDB`, levels 1 to N are `CCoinsViewCache` objects stacked on
it. `cache[n][k]` is an entry with its `DIRTY` and `FRESH` flags. `FRESH` lets a
coin that is created and spent between two flushes vanish without ever reaching
the level below, which is right only if the level below never had it.

- Actions: `AccessCoins` (a lookup that caches on the way, at every level it
  passes), `ModifyCoins` (with the entry erased when it ends up pruned and fresh),
  `ModifyNewCoins`, `SetBestBlock`, the lazy read of the best block, `Flush`
  through `BatchWrite` into a cache or into the database, `Uncache`, and creating
  and discarding the top cache.
- Abstraction: a `CCoins` is one value or pruned.
- `CoinsLayers` is the promise: a stack of plain maps. A modification changes the
  top map, a flush copies it down, everything else changes nothing.

### ChainState

The block tree. A block is a model value whose parent, work and verdicts are
constants; `Up[b]` is `b` with its ancestors.

- State: the status bits of `CBlockIndex` as sets (`haveData`, `failedValid`, ...)
  and levels (`valid`), `nSequenceId`, `setBlockIndexCandidates`,
  `mapBlocksUnlinked`, `gFailedBlocks`, the tip, `pindexBestHeader`,
  `pindexBestInvalid`, the sequence counters, and for each thread where it is in
  `ActivateBestChain` or `InvalidateBlock` and its local `pindexMostWork`.
- Actions: `AcceptBlockHeader` and its rejection below a failed block,
  `AcceptBlock` with its early returns, `ReceivedBlockTransactions` inside it, the
  steps of `ActivateBestChain` (`FindMostWorkChain`, dropping a candidate,
  `DisconnectTip`, `ConnectTip`, a block that does not connect, a failing read),
  `InvalidateBlock`, `ResetBlockFailureFlags`, `PreciousBlock`,
  `PruneOneBlockFile`, and a restart, which rebuilds everything that
  `LoadBlockIndexDB` recomputes.
- Threads exclude each other with `cs_main`. `ActivateBestChain` gives it up after
  each step that improved the tip and goes on later with the `pindexMostWork` it
  chose before (2600); this is where interleavings happen.
- A call that fails half way (a block cannot be read, or undo data are missing) is
  remembered in `failedCalls`. No property speaks of the node after that, also where
  the code does not call `AbortNode` and runs on (1676, 2290).
- Abstraction: `mapBlocksUnlinked` is a set. In the code it is a multimap, and
  `FindMostWorkChain` (2444) may enter a pair that is already there; section 9 says what
  that leads to. `nBlockReverseSequenceId` stops at a bound in the guard, not at the
  smallest `int32_t`.

### ChainDisk

What is in memory, what the operating system has, and what is durable.

- State: the block index entries with file and position, `vinfoBlockFile`,
  `nLastBlockFile`, the two dirty sets; the contents of block and undo files with
  what a `FileCommit` has made durable of them; the block index database; the best
  block of the coins database with the values it may have after a power failure.
- A file is a row of slots, one for each block. `MAX_BLOCKFILE_SIZE` counts slots.
- `FlushStateToDisk` is a sequence of steps: decide and prune in memory, commit the
  last file, write the index, unlink pruned files, write the coins. The process
  may be killed, or power may fail, between any two.
- A kill loses the memory. A power failure also loses any of the records that were
  not synced, any number of the last unsynced batches of the coins database, and
  the flag `prunedblockfiles` unless a later synced write followed.
- The start is `LoadBlockIndexDB`, `InitBlockIndex` without a tip, the flush of
  `RewindBlockIndex`, `VerifyDB` at its default level, and pruning.
- LevelDB and the file system are external: a batch is atomic, and durable once it
  or a later one was synced.

### TxRequest and TxRequestRules

`TxRequestTracker` keeps an announcement for each pair of peer and transaction, in
one of five states, and at most one announcement of a transaction selected. The
selection is moved incrementally by looking at one neighbour in an ordered index.

- State: `m_index`; `order[p]`, the order of sequence numbers among the
  announcements of a peer; `call`, the call of `GetRequestable` in progress.
- Actions: every public call that changes the tracker, in any order. Each turn of
  the two loops of `SetTimePoint` is a step. The clock may go backwards.
- `TxRequestRules` is what `txrequest.h` promises: three states, and the peer to ask
  is chosen afresh among all announcements when `GetRequestable` returns.

### MemPool and BlockAssembly

`CTxMemPool` and the functions of `validation.cpp` that change it. All of it runs
under `cs_main`, so an action is a whole handler; a reorganisation is several.

- State: `mempool` has `mapTx` with links and totals for each entry, `mapNextTx`,
  `mapDeltas`, the memory used, the rolling minimum fee and whether it may decay, and
  `dFreeCount` of the limiter of free transactions;
  `chain` is the active chain as a sequence of blocks; `reorg` is the function that has disconnected
  a block and not yet cleaned up; `file` is what is left to load of `mempool.dat`.
- Actions: `Receive` (`AcceptToMemoryPool` with the checks on finality, inputs, fees,
  free transactions, ancestor limits, replacement and maturity, then
  `LimitMempoolSize`),
  `DisconnectTip` (every transaction of the block is accepted again or removed with
  its descendants, then `UpdateTransactionsFromBlock`), `ConnectTip`, the end of a
  reorganisation or of invalidateblock, `Prioritise`, the decay of the minimum fee,
  and a restart that loads `mempool.dat` record by record.
- `AcceptToMemoryPool` takes the two flags its callers set: the limiter works for peers,
  the wallet and `mempool.dat`, not for sendrawtransaction and a disconnected block;
  a disconnected block alone overrides the size limit. `dFreeCount` decays by any
  amount between two uses.
- Abstraction: fee rates are exact quotients as in `CFeeRate`, with `K` for 1000;
  scores are compared as fractions. A transaction is a number that orders its id.
  The checks of a transaction alone are passed by all. Priority is any number, so
  `-relaypriority` may refuse or pass a transaction below the relay fee.
- Left out: deltas of priority, the absurd fee of the wallet, time-based locks.
- `BlockAssembly` is `CreateNewBlock` as a function of pool and chain: the set of all
  runs of the package loop, because ties and the priority phase leave a choice.

### BlockDownload

What is being downloaded from whom. One thread serves the peers in turn:
`ProcessMessages`, then `SendMessages`.

- State: `table` is `mapBlocksInFlight` with the lists, counters and timers of each
  peer; `nodes` is the rest of `CNodeState`; `totals` are `nPreferredDownload` and
  `nSyncStarted`; `source` is `mapBlockSource`. `owed` and `announced` are the peers'
  side. Timers are kept as what `SendMessages` asks of them: never, recent, overdue.
- Actions: one for each message (version, inv, headers, block, cmpctblock, blocktxn),
  `SendMessages` with its three time-outs, connection, disconnection and
  `FinalizeNode`. A loop that requests several blocks takes one block in a step.
- The peers are external. A slow peer may leave requests unanswered and send a compact
  block that does not fit; the others answer.
- `Misbehaving` for a bad block marks the peer at once. The code adds up a score and
  bans at `-banscore` (775), which a score of 100 reaches unless the option is raised.
- Left out: compact announcing mode, counts of unconnecting headers, witness flags,
  one-shot and light clients, pruning, and a failing TRY_LOCK in `SendMessages`.

### OrphanPool

`mapOrphanTransactions`, the index by prevout, `orphan_work_set` of each peer and
`recentRejects`. Actions: the TX message, the work at the start of `ProcessMessages`,
a transaction from RPC or wallet, a block, peers that come and go. `Verdict` is what
the handlers tell apart of `AcceptToMemoryPool`. A transaction too big to be an orphan
is not stored, but the sweep of expired orphans before it runs.

### Connections

The life of a `CNode` between `ThreadOpenConnections`, `ThreadSocketHandler`,
`ThreadMessageHandler` and `Stop`. A node is the place of an object: free, constructed,
free again. A section under a lock is a step, and so is each access to an atomic flag
that another thread can see change. Messages are counted, not read. The outbound
semaphore, `fPauseRecv`, `fPauseSend`, `fMsgProcWake` and the reference counts are
the code's. What `select()` was asked for is not kept: a node that may be read is read
whatever its send buffer, which allows more than the code does (1223). Nodes of
`-connect` (1723), added and one-shot connections, which have no grant or one of
another semaphore, are left out.

### Scheduler and HttpServer

`Scheduler` is `CScheduler` with any number of serving threads. `schedule` and `stop`
notify after they have unlocked, in a step of its own; waits may end spuriously;
times are relative so that the clock needs no bound.

`HttpServer` has the event thread, the workers of `WorkQueue`, the calls that wait
on `cond_blockchange`, and the main thread in `Interrupt` and `Shutdown`. Testing the
condition of a wait and falling asleep are two steps, because `g_rpc_running` and
the notification in `OnRPCStopped` do not take `cs_blockchange`.

`MCServices` runs `Scheduler`, `HttpServer` and `OrphanPool` side by side: they share
no state, so in each behaviour one of them moves.

Modules named `MC...` give the constants for TLC. Definitions with a comment that
starts with "Mutant" are faulty variants of the definition that follows; replacing
the definition by the variant must make TLC report a violation (section 6).

## 3. What each run checks

| run | instance | checks |
|---|---|---|
| `checkqueue` | 2 masters, 2 workers, 3 checks | the verdict of `Wait` is that of exactly the checks this controller added; nothing of one controller is left for the next; `Wait` returns |
| `coins` | 3 caches, 1 key, 2 values, 1 block | the stack implements `CoinsLayers`, so no flag loses or revives a coin; every call has exactly its abstract effect |
| `chain_peers` | fork of 2 and 3 blocks; either one block fails `ContextualCheckBlock`, one fails `ConnectBlock`, with preciousblock and restarts; or all blocks are valid and data is pruned | the conditions of `CheckBlockIndex` on status, `nChainTx`, candidates and unlinked blocks; no better chain is left behind; candidates never change their sort key |
| `chain_operator` | tree that branches above genesis; invalidateblock, reconsiderblock | the active chain is valid; no candidate is incomplete or worse than the tip |
| `chain_threads` | the fork, 2 threads, one block that does not connect, preciousblock | the active chain stays valid, `ActivateBestChain` returns |
| `disk` | fork of 2 and 1 blocks, 2 blocks to a file, 4 files, pruning, one stop of any kind | after any crash the databases refer to nothing that is missing; the coins belong to known blocks; the node starts after a kill; pruning is recorded and keeps recent blocks |
| `txrequest` | 3 peers announce one transaction, one of them a second; 2 times | the selection is sane inside every loop; the tracker implements `TxRequestRules`, so nothing is asked twice; the loops end |
| `mempool` | 6 transactions: a parent, two children and a grandchild of both, a rival that replaces, one with locks that spends a coinbase; chains of up to 2 blocks | what `CTxMemPool::check` demands, in the middle of a reorganisation too; totals exact; every entry can be mined next; what was evicted stays out; `mempool.dat` restores the pool but for old and free transactions; templates are valid and their package totals exact |
| `blockdownload` | 2 peers, one slow and on an invalid branch; 4 blocks; window 2 | the table, the lists and all counters agree; timers run exactly for peers that owe; only senders of a bad block are punished; the tip of the prompt peer is reached |
| `connections` | one outbound, one inbound node that talks | no thread touches a deleted node; references and semaphore exact; no received message sleeps; a node paused is one with a full queue; none is left after `Stop`; a disconnected node is deleted |
| `services` | 2 serving threads and 2 tasks; 2 workers, 3 requests, queue of 1; 2 peers, 5 transactions, one of them too big for an orphan, 2 orphans at most | scheduler: tasks run once, one thread never runs one early, a draining stop leaves nothing, threads end. HTTP: each request answered once, no counted worker at deletion, shutdown ends unless a waiter was missed. Orphans: index exact, the sender of an invalid one punished, children retried |
| `chain_v_assert` | the fork; invalidateblock, reconsiderblock | see section 8 |

Several properties are conjunctions whose parts have names and comments of their own
in the module: `WaitingExact` (`CandidatesExact`, `UnlinkedExact`), `NodesSafe`,
`MessagesMove`, `SchedulerSafe`, `SchedulerLive`, `HttpSafe`, `HttpLive`,
`OrphansSafe`. `StatusConsistent`, `DataDurable`, `PoolConsistent` and
`InFlightExact` include the type invariant of their module.

Deadlock is checked in every run. `ChainDisk` has a stuttering step in the state
"corrupt", where the node asks for `-reindex` and waits for its operator.

Bounds, and why they are enough for what is asked:

- Three checks for up to three threads give a check that is left for a second round,
  and two masters a block that follows another. With so few checks every batch is of
  one check (the queue is divided by the number of threads); the proofs cover batches
  of any size.
- Keys of the coins cache do not interact (no operation reads two entries), so one
  key shows every behaviour of the flags; three caches give a cache between two
  others. The proofs cover any number of either.
- `connections` has one slot, which the outbound node takes and gives back, so a slot
  lost or given back twice shows at once. The proofs cover any number of nodes and
  slots.
- `MaxSequence` and `MaxPrecious` stop the two counters of `ChainState`. There
  is a sequence number for each of the five blocks of the fork and some more for
  blocks that are pruned and received again; two or three calls of preciousblock
  give calls that compete.
- `Scenarios` of `ChainState` lists the environments of a run: the operator's commands
  and the blocks that fail. Each behaviour has one of them from its beginning.
- `MIN_BLOCKS_TO_KEEP` of 1 or 2 takes the place of 1440 so that pruning and
  "too far ahead" occur on chains of three blocks.
- `MAX_BLOCKFILE_SIZE = 3` admits two blocks to a file, so that a file holds blocks
  of different heights and a block may be connected after its file was left.
  `MaxFile = 3` leaves room for each block once and for a record written twice.
  `UINT_MAX = 15` keeps the wrap-around of unsigned heights.
- `MaxStops = 1`: one shutdown, kill or power failure anywhere. The proofs cover any
  number.
- Two times and three peers in `TxRequest` give an expired, a current and a future
  request, and a choice between a preferred peer and two others.
- Two blocks and blocks of two transactions in `MemPool` give reorganisations that
  return part of a family whose rest is in the pool. `sizelimit`, `limitfreerelay` and
  the limits on packages are chosen so that each of them refuses something. The
  grandchild is beyond the limits of acceptance next to both its parents, so that only
  a reorganisation builds the whole family.
- A window of 2 on a chain of 3 in `BlockDownload` lets one block hold up the others;
  one unrequested announcement for each peer gives direct fetch and compact blocks.
- A queue of 1 in `HttpServer` and a limit of 2 orphans give a full and an overfull
  queue; `maxDepth`, `nMaxOrphanTx` and `nReceiveFloodSize` are those limits.

## 4. Fairness

- `CheckQueue`: weak fairness of every thread's own steps. A thread that holds no
  lock and is not asleep is scheduled eventually; critical sections are short.
  Nothing is assumed of spurious wake-ups, of callers, or of interruption.
- `ChainState`: weak fairness of the steps of a thread inside `ActivateBestChain`,
  and strong fairness of taking `cs_main` there. The mutex is contended by other
  threads that keep releasing it, and the operating system lets no waiter starve.
  Arrivals and operator commands have no fairness.
- `TxRequest`: weak fairness of the loops of `SetTimePoint`, which run under
  `cs_main` in one thread.
- `BlockDownload`: the handler thread passes over the peers for ever; a peer that is not
  slow connects; the time given to a slow one runs out; the socket thread removes a
  peer that is marked. `CatchesUp` needs all of these and nothing of the slow peer.
- `Connections`: weak fairness of the three threads and of a shutdown that has begun.
- `Scheduler`: serving threads run, a call that has begun sends its notification,
  time passes. `HttpServer`: workers and event thread run, a wait with a timeout times
  out, shutdown goes on. `OrphanPool`: the message thread comes back to each peer.
  Spurious wake-ups, blocks, requests and commands are never counted on.
- `CoinsCache`, `ChainDisk` and `MemPool` claim safety only and assume nothing.

## 5. What is proved

Every proof is for all values of the constants that satisfy the named assumptions
of the module, which TLC evaluates in the runs.

**CoinsCacheProofs** (assumptions: the special values are distinct, `N > 0`).
`Invariance`, `TypeCorrect`, `FreshSound`, `CleanSound`, `FreshApplied`,
`Refinement`, `Exactness`. The meaning of `FRESH` refers to the view one level down,
which is a lookup through all levels, so a change at one level disturbs the meaning
of flags above it. The inductive invariant therefore states both flags at once:
an entry without `DIRTY` repeats the view below, one with `FRESH` has nothing below,
and levels above the top are empty. Lemmas on `Lookup` say what a change at a level
does to the lookups above it; the rest is one lemma for each call. `Refinement`
shows that every step is a step of `CoinsLayers` or changes no view. `FreshApplied`
shows that the `logic_error` "FRESH flag misapplied" (`coins.cpp`) is unreachable.

**CheckQueueProofs** (assumptions: finite disjoint sets of threads, finitely many checks,
`nBatchSize > 0`). `Invariance`, `TypeCorrect`, `VerdictCorrect`,
`NothingOutlives`, `CountsCorrect`. A verdict is right because `fAllOk` speaks for
exactly the checks that have left the queue and all batches, and because `nTodo`
counts those that have not. The invariant says so (`Verdict`, `Todo`), that no check
is in two places (`Batches`), that only the owner of `ControlMutex` is inside
(`Placed`), and what a batch's local result may already say (`Locals`).

**SchedulerProofs** (assumptions: finitely many threads, delays are natural
numbers). `SchedulerIsSafe` (`SchedulerSafe`). The invariant says where a task is: in the
queue at one place or with one thread, until it is over (`TaskPlaces`). Lemmas on
`Inserted` and `Tail` say, entry by entry, what an insertion or a removal does to the
queue. A thread takes whatever is first when its wait ends, not what it waited for; a
thread that is alone still takes none early, because insertions only bring the first task
nearer and nobody else removes it (`Timely`). A drained scheduler leaves nothing because
no thread leaves before `stop()` (`Stopping`) and the thread of a task that schedules
itself again looks at the queue once more before it can leave.

**ChainDiskProofs** (assumptions: the block tree is a tree rooted in genesis with
increasing heights and work, sizes are natural numbers). All of it holds for any number
of kills and power failures.

- `Invariance`, `ChainstateSafe`, `PruningRecorded`. What a flush makes durable was
  gathered in memory before. The invariant says of the memory what the two properties
  say of the disk, that an entry differs from the one in the database only while it is
  dirty, and that nothing is dirty between the write of the index and the write of the
  coins.
- `DataIsDurable` (`DataDurable`). A record is safe because nothing is written below the
  sizes kept for its file. The invariant (`FInv`) says that every entry, in memory and
  in the database, points below the sizes (`Placed`) at its own block (`Stored`), that
  a file that was left is committed (`Committed`), and that a restart sets sizes back
  only to those of the database, unless the file was pruned and is behind the last one
  (`Sizes`: `Grown` or `Gone`). A position of undo data is inside the file because each
  record of undo data belongs to a block stored in the file (`Counted`), which is an
  argument about cardinalities.
- `StartsAgain` (`StartsUp`). `VerifyDB` wants undo data for each block it looks at.
  A block of the chain on disk had it when it was connected. It could lose it only by
  being pruned and received again, and a flush that prunes writes the coins, after which
  the chain on disk has left no such block (`Back`, `Left`).
- `PruningKeepsRecent` (`PruneKeepsRecent`), from the hypothesis
  `MIN_BLOCKS_TO_KEEP <= nPruneAfterHeight`. Without it the unsigned subtraction wraps
  (section 8); the instance of the run satisfies it.

**TxRequestProofs** (assumptions: there is a peer, the salted low bits of two
peers differ for each transaction, times are integers).
`Invariance`, `TypeCorrect`, `Sanity`, `RequestedOnce`, `Refinement`. The tracker
compares an announcement only with its neighbour in the index `ByTxHash`; the lemmas
of its first half show, for each operation and one transaction at a time, that
the neighbour is the best of all others, because at most one announcement is selected
and keys order the states before the priorities. `SanityCheck` is then preserved
transaction by transaction (`OneTx`). The refinement also needs that nothing is left
of announcements that are over (`Typed`), and that after the first loop of
`SetTimePoint` nothing waits for a time that is past (`NothingDue`): only then is the
`CANDIDATE_BEST` of a transaction the best among those whose time has come
(`BestIsRequestable`). Promotions and demotions change nothing that the rules see.

**PeersProofs, connections** (assumptions: outbound and inbound nodes are finite
disjoint sets, limits are natural numbers). `Invariance`, `NodesAreSafe`, `SlotsExact`,
`MessagesAreMoved`. A thread deletes a node when it finds the reference count zero. That
is safe because the count is exact between any two steps, and this rests on where each
loop holds its copy of the list: `Held` says that outside its loop a thread holds no
copy, and that a node being opened is known to the opening thread alone. `Fresh` says
that a node that is not connected has no message. `Attended` says that a message of a
node which the message thread has passed keeps that thread from sleeping, or is a
message it may leave.

**PeersProofs, orphan transactions** (assumptions: transactions are numbered, the limit on
orphans is a natural number). `OrphansAreSafe` (`OrphansSafe`). That an orphan which can be judged waits in a work
set is not inductive: the parent that makes it so may come from the memory pool, from a
block or from another orphan. The invariant says of every orphan that was not stranded
that it is in a work set or that some parent of it has no coins (`Awaited`), and that the
peer of an invalid orphan is one that sent one (`Blamed`). An orphan leaves a work set only
when it is judged or still lacks a parent.

**HttpProofs** (assumptions: finitely many workers, a positive depth).
`HttpIsSafe` (`HttpSafe`). A request is answered once because until then it is in one
place: with the event thread, in the queue, or with one worker (`Apart`, `Accounted`).
The queue is deleted without a worker in it because `numThreads` counts the threads that
are inside `Run()` (`Crew`), and a deleted queue stays empty (`Closed`).

**ChainStateProofs** (assumptions: a finite block tree, rooted
in genesis, in which work increases; addresses of blocks are distinct numbers).
The theorems hold for every tree, any number of threads, and every scenario that
satisfies the hypothesis named.

- `BaseInvariance`: types, exclusion by `cs_main`, and the bookkeeping of headers,
  stored and linked blocks (`Base`), in every scenario. A block is linked when all its
  ancestors are; the loop of `ReceivedBlockTransactions` is shown to reach a set closed
  under parents by taking a block that breaks the claim and whose parent does not.
- `ActiveChain` (`ActiveChainValid`) where `InvalidateBlock` does not meet a second
  thread (`OneThreadInvalidates`; section 9 has what happens otherwise). The invariant
  `Sound` adds that what has failed on the way to a thread's `pindexMostWork` is a block
  that `ConnectBlock` rejects: the thread keeps that block while `cs_main` is released,
  and another thread may mark it failed meanwhile.
- `CandidatesAreSound` (`CandidatesSound`) with the same hypothesis on a node that keeps
  its block files (`NeverPrunes`). `NotWorse` says that no candidate is worse than the
  tip inside critical sections too.
- `CandidateKeys` (`CandidateKeyStable`) on a node that keeps its block files. A pruned
  block that is received again gets a new `nSequenceId`; that it is not a candidate at
  that moment is model-checked.
- `Status` (`StatusConsistent`) where the operator overrides no verdict
  (`NeverOverrides`) and a pruning node is not restarted (`PrunesOrRestarts`:
  `LoadBlockIndexDB` cannot tell the blocks that were linked from those that only have
  `nTx`). The invariant says that script validation is recorded from the root up
  (`ScriptsUp`), that a failed block descends from one that failed by itself
  (`Explained`), and that a stored block is linked as soon as its parent is
  (`Complete`).

Only model-checked: liveness (`WaitReturns`, `ActivationTerminates`, `Returns`,
`CatchesUp`, `DisconnectedDeleted`, `SchedulerLive`, `HttpLive`, `WorkSetDrains`), which
is beyond the prover; `MemPool` and `BlockAssembly`, whose totals are sums over
recursively defined sets; `BlockDownload` (`InFlightExact`, `TimersExact`,
`OnlySendersPunished`), for which no proof is kept: the inductive invariant ties the lists
of all peers, the table of blocks in flight, the timers and the messages still owed
together, every handler disturbs all of it, and the proof is several times as long as the
model;
of `ChainState` the properties `BestChainActivated` and `WaitingExact`. These two say that
no block is left out, and hold between critical sections. Inside a reorganisation that
meets an invalid block the tip is lower than before while the blocks of the old chain are
not yet candidates again, so their inductive form would have to describe each
intermediate state.

## 6. Mutants

For every property of every passing run, `PROJECT.json` names a definition and a
faulty variant of it, such as a dropped guard, a missing reset or a wrong order. With the
variant in place TLC reports that property violated. This shows that the property
depends on the code it is about and that the instance is large enough to notice.

## 7. Reading a counterexample

`tlc -config ChainState_v_assert.cfg MCChainState` prints the steps by the names of
the actions, which are those of the functions of `validation.cpp`.

## 8. Where the code and its own statements disagree

- `chain_v_assert`: `assert(failedit->nStatus & BLOCK_FAILED_VALID)`
  (`validation.cpp:3288`). `ResetBlockFailureFlags` does not erase the block from
  `gFailedBlocks`, so after invalidateblock and reconsiderblock a header on top of the
  block meets the assertion.

Further disagreements met while modelling. Each is excluded from the property named
in brackets by its hypothesis or by the instance; no run is kept for it.

- "The result is either failure or an activated best chain" (`validation.cpp:2573`).
  With two threads, one may resume towards the `pindexMostWork` it chose before it gave
  up `cs_main` (2600) and leave the tip on a chain that another thread had already
  improved on. The next call repairs it. [`BestChainActivated`: one thread]
- "First make sure all block and undo data is flushed to disk" (`validation.cpp:2152`).
  Only the files numbered `nLastBlockFile` are committed (1737); the undo data of a
  block that was stored in an earlier file goes to the earlier undo file.
  [`DataDurable`: undo data after a kill, block data after a power failure]
- "Block files containing a block-height within MIN_BLOCKS_TO_KEEP of
  chainActive.Tip() will not be pruned" (`validation.h:211`). The subtraction at 3580
  is unsigned and wraps on a chain shorter than `MIN_BLOCKS_TO_KEEP`, which
  `nPruneAfterHeight = 1000` does not exclude. [`PruneKeepsRecent`: the instance has
  `nPruneAfterHeight` large enough]
- "This way, we don't allow txn to enter mempool with feerate equal to txn which were
  removed with no block in between" (`txmempool.cpp:1122`). The rate is that of the
  package, while a transaction is placed by the better of its own rate and that of its
  package (`CompareTxMemPoolEntryByDescendantScore`). Where descendants are shared,
  a transaction with a better rate than its package may be the first to go, and what
  is left as minimum does not keep it out. Nor does an increment that is lost when a
  rate is rounded to a fee. [`EvictedStayOut`: `ShutsOut`]
- `CheckBlockIndex` asserts that `nChainTx` is zero exactly for blocks whose chain was
  never processed (`validation.cpp:4255`). A block received before its parent and
  pruned before the parent arrives has transactions counted and no `nChainTx`.
  [`StatusConsistent`: `FirstMissing`]
- "updating the feerate of a transaction with its not-yet-selected ancestors as we go"
  (`miner.cpp:439`). `update_for_parent_inclusion` subtracts `GetFee()` where the total
  was built from `GetModifiedFee()`. [`TemplateValid`: totals while no
  delta is in force]
- "Returns the current block on timeout or exit" (help of waitfornewblock). A call
  without timeout that tested `IsRPCRunning` before `InterruptRPC` and falls asleep
  after `OnRPCStopped` has notified, which it does without `cs_blockchange`, sleeps on;
  `StopHTTPServer` then waits for the worker. [`HttpLive`: `Missed`]
- "Call func at/after time t" (`scheduler.h`). With two or more serving threads a
  timed wait for one task may end up running another that is not due. The node
  starts one thread. [`SchedulerSafe`: the threads that serve]
- "Precondition: worker threads have all stopped (call WaitExit)" (`httpserver.cpp:102`,
  the destructor of `WorkQueue`). A worker counts itself in `Run`; one that has not
  begun yet, or the event thread, may come to the queue after `WaitExit` has found no
  thread. [`HttpSafe`: workers that were counted]

## 9. Observations without a run

Met while modelling; no document or assertion states the opposite, or the condition
is only checked in tests with `-checkblockindex`.

- `InvalidateBlock` between two steps of another thread's `ActivateBestChain` lets
  `ConnectTip` connect a block that was just marked failed, because the marks are
  read only in `FindMostWorkChain` (2419).
- A block received on a failed parent is not put into `mapBlocksUnlinked` (2871);
  after reconsiderblock it is not linked until a restart.
- reconsiderblock clears ancestors of the block, but makes only the block and its
  descendants candidates (2784).
- `AcceptBlock` marks a block that fails `ContextualCheckBlock` (3376) without
  entering it into `gFailedBlocks`.
- `FindMostWorkChain` sets `BLOCK_FAILED_CHILD` without marking the entry dirty (2439).
- After a restart all sequence numbers are zero, so ties between chains of equal work
  are decided by addresses in memory.
- After a crash between the unlinking of pruned files and the write of the coins, the
  restarted node may be on a tip whose block is pruned; a reorganisation then ends
  in `AbortNode` (`ChainDisk.ReadFails` is reached this way).
- When the undo data of a block are missing, `DisconnectTip` fails without `AbortNode`
  (1676, 2290), and the node runs on with the tip it had reached on the way.
- With pruning and a block that fails to connect, a reorganisation given up half way
  can leave a tip of equal work but later sequence while a rival is pruned; then the
  tip is not among the candidates. The scenario with pruning has no such block.
- A transaction received again while it is already known enters `recentRejects`
  although nothing rejected it. The set `setMisbehaving` of `ProcessOrphanTx` is
  new in every call that can return to it, so its test never succeeds.
- A work set goes with its peer, and a parent that comes with a block or from RPC wakes
  no orphan; both leave orphans until they expire or are sent again
  (`OrphanPool.stranded`).
- A TX message that fills `orphan_work_set` does not set `fMoreWork`; the rest is tried
  at the next wake-up, at most 100 ms later.
- A free transaction that entered by sendrawtransaction or from a disconnected block
  meets the limiter when `mempool.dat` is loaded (4433). With `-limitfreerelay` at its
  default of 0 it is refused there, and its descendants with it.
- `mapBlocksUnlinked` may hold a block twice, when two candidates above the same pruned
  block share an ancestor, or a candidate is dropped for it a second time. The walk in
  `ReceivedBlockTransactions` (2850) then numbers the block twice. If it became a
  candidate the first time, its key changes while it is in `setBlockIndexCandidates`,
  and siblings numbered in between are out of order. `ChainState` has a set here, and
  `CandidateKeyStable` does not show this.
- An entry whose relative lock is zero and whose input is in the pool is dropped by
  `removeForReorg` at a lower tip.
- A package that fails by way of `mapModifiedTx` and is entered again starts from the
  totals of the pool, which count ancestors already in the block.
- Each start before the genesis block is connected and flushed stores another copy of
  the genesis block.

## 10. What is not modelled, and why

- Within the modelled parts: failing writes (`FlushStateToDisk` empties the dirty sets
  before it tries `WriteBatchSync`, 2168), `-reindex`, `-loadblock` and rewinding,
  checkpoints and header rules (a header that fails changes nothing), time-based
  relative locks, warnings and notifications, and what section 2 lists as left out.
- Wallet: two hazards, its conflicts and its key pool, have no property yet; they would
  be the next module.
- Validation rules, subsidy and difficulty: functions of one block and its ancestors
  without interleaving; unit tests with vectors reach them well.
- Script interpreter, signing, keys, post-quantum wrappers and encodings: sequential
  functions on bytes; a model would repeat the code.
- Address manager: hashing decides every step, and its contents are advice only.
- Signature cache: its safety rests on the memory order of single bits.
- Fee estimator: floating-point statistics.
- RPC, REST, GUI, ZeroMQ: parsing and output around operations of other parts.
- LevelDB, secp256k1, univalue: external; `ChainDisk` states what it takes from LevelDB.

`PROJECT.json` lists every part with its status, and every hazard with the property
that watches it or the reason why none does.
