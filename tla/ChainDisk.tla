------------------------------ MODULE ChainDisk ------------------------------
(***************************************************************************)
(* What the node keeps on disk and in which order it writes it             *)
(* (validation.cpp, txdb.cpp, init.cpp): block and undo files, the block   *)
(* index database and the chainstate database.  The process may be killed  *)
(* between any two writes, and the machine may lose power.                 *)
(*                                                                         *)
(* Every function here runs under cs_main, so there is one thread of       *)
(* control; what interleaves with it is the crash.  FlushStateToDisk is    *)
(* several steps, one for each write that can be the last.                 *)
(*                                                                         *)
(* A block takes one slot of a file, and its undo record one slot of the   *)
(* undo file with the same number.  The coins are represented by the block *)
(* they belong to (CoinsCache has their contents), and every block is      *)
(* valid (ChainState has the others).  A killed process loses its memory;  *)
(* a power failure also loses any part of what was written and not synced. *)
(***************************************************************************)
EXTENDS Integers, FiniteSets

CONSTANTS
    Blocks, Genesis, NULL,
    pprev,      \* pprev[b]: the parent of b
    Up,         \* Up[b]: b and its ancestors
    nHeight, nChainWork,
    MAX_BLOCKFILE_SIZE, \* in slots
    MIN_BLOCKS_TO_KEEP,
    nPruneAfterHeight,
    UINT_MAX,   \* the largest unsigned int
    fPruneMode,
    DEFAULT_CHECKBLOCKS,
    MaxFile,    \* bound: the number of the last block file
    MaxStops,   \* bound: how often the node stops
    Failures    \* how: a subset of {"kill", "power"}

ASSUME TreeAssumption ==
    /\ Genesis \in Blocks /\ NULL \notin Blocks
    /\ pprev \in [Blocks \ {Genesis} -> Blocks]
    /\ Up \in [Blocks -> SUBSET Blocks]
    /\ nHeight \in [Blocks -> Nat] /\ nChainWork \in [Blocks -> Nat]
    /\ Up[Genesis] = {Genesis} /\ nHeight[Genesis] = 0 /\ \A b \in Blocks : Genesis \in Up[b]
    /\ \A b \in Blocks \ {Genesis} :
          /\ Up[b] = Up[pprev[b]] \cup {b}
          /\ nHeight[b] = nHeight[pprev[b]] + 1
          /\ nChainWork[b] > nChainWork[pprev[b]]

ASSUME SizesAssumption ==
    /\ MAX_BLOCKFILE_SIZE \in Nat \ {0, 1} /\ MIN_BLOCKS_TO_KEEP \in Nat \ {0}
    /\ MaxFile \in Nat /\ MaxStops \in Nat /\ nPruneAfterHeight \in Nat
    /\ UINT_MAX \in Nat /\ \A b \in Blocks : nHeight[b] < UINT_MAX
    /\ fPruneMode \in BOOLEAN

VARIABLES
    \* memory
    index,            \* mapBlockIndex
    vinfoBlockFile, nLastBlockFile,
    setDirtyBlockIndex, setDirtyFileInfo,
    fHavePruned,
    tip,              \* chainActive.Tip()
    coins,            \* pcoinsTip->GetBestBlock()
    pc, flush,        \* where the thread is, and FlushStateToDisk's locals
    \* disk
    blk, rev,         \* what a read of the block and undo files returns
    blkSynced, revSynced, \* what FileCommit has made durable of it
    blocktree,        \* the block index database
    flagSynced,       \* whether its flag "prunedblockfiles" is durable
    chainstate,       \* DB_BEST_BLOCK of the coins database
    chainstateMaybe,  \* what it may be after a power failure
    stops, powerLost  \* how often it stopped; whether by a power failure

memory == <<index, vinfoBlockFile, nLastBlockFile, setDirtyBlockIndex,
            setDirtyFileInfo, fHavePruned>>
files == <<blk, rev, blkSynced, revSynced>>
databases == <<blocktree, flagSynced, chainstate, chainstateMaybe>>
history == <<stops, powerLost>>
vars == <<memory, tip, coins, pc, flush, files, databases, history>>

Files == 0 .. MaxFile
Slots == 0 .. MAX_BLOCKFILE_SIZE - 2
NoSlot == -1

(***************************************************************************)
(* A CBlockIndex: is the header known; nFile, nDataPos and nUndoPos, where *)
(* NoSlot is the absence of BLOCK_HAVE_DATA or BLOCK_HAVE_UNDO; nTx # 0.   *)
(***************************************************************************)
Entry == [known : BOOLEAN, nFile : Files, data : Slots \cup {NoSlot},
          undo : Slots \cup {NoSlot}, received : BOOLEAN]
Unknown == [known |-> FALSE, nFile |-> 0, data |-> NoSlot, undo |-> NoSlot,
            received |-> FALSE]
FileInfo == [nSize : 0 .. MAX_BLOCKFILE_SIZE - 1, nUndoSize : 0 .. MAX_BLOCKFILE_SIZE - 1,
             nHeightLast : 0 .. UINT_MAX]
NullInfo == [nSize |-> 0, nUndoSize |-> 0, nHeightLast |-> 0]
Empty == [f \in Files |-> [s \in Slots |-> NULL]]

(***************************************************************************)
(* A call of FlushStateToDisk: its mode, fCheckForPruning when it is made, *)
(* nManualPruneHeight, the tip its caller sets after it, and where the     *)
(* caller goes then; the locals fDoFullFlush and setFilesToPrune.          *)
(***************************************************************************)
Call(mode, check, manual, next, then) ==
    [mode |-> mode, check |-> check, manual |-> manual, next |-> next,
     then |-> then, full |-> FALSE, prune |-> {}]
NoFlush == Call("NONE", FALSE, 0, NULL, "down")
Modes == {"NONE", "IF_NEEDED", "PERIODIC", "ALWAYS"}
PCs == {"down", "idle", "flush", "commit", "index", "unlink", "coins", "done",
        "init", "verify", "corrupt"}

HaveData(e) == e.data # NoSlot
HaveUndo(e) == e.undo # NoSlot

\* The blocks of the chain that ends in b, and its work.
Chain(b) == IF b = NULL THEN {} ELSE Up[b]
Work(b) == IF b = NULL THEN 0 ELSE nChainWork[b]

\* ReadBlockFromDisk finds the block its entry e points at.
ReadBlockFromDisk(b, e) == HaveData(e) /\ blk[e.nFile][e.data] = b

\* UndoReadFromDisk finds the undo data of b, its checksum included.
UndoReadFromDisk(b, e) == HaveUndo(e) /\ rev[e.nFile][e.undo] = b

Init ==
    /\ index = [b \in Blocks |-> Unknown]
    /\ vinfoBlockFile = [f \in Files |-> NullInfo] /\ nLastBlockFile = 0
    /\ setDirtyBlockIndex = {} /\ setDirtyFileInfo = {}
    /\ fHavePruned = FALSE
    /\ tip = NULL /\ coins = NULL
    /\ pc = "down" /\ flush = NoFlush
    /\ blk = Empty /\ rev = Empty /\ blkSynced = Empty /\ revSynced = Empty
    /\ blocktree = [index |-> [b \in Blocks |-> Unknown],
                    info |-> [f \in Files |-> NullInfo],
                    last |-> 0, prunedblockfiles |-> FALSE]
    /\ flagSynced = FALSE
    /\ chainstate = NULL /\ chainstateMaybe = {NULL}
    /\ stops = 0 /\ powerLost = FALSE

-----------------------------------------------------------------------------
(***************************************************************************)
(* Block files                                                             *)
(***************************************************************************)

\* The first n slots of a file.
Truncated(file, n) == [s \in Slots |-> IF s < n THEN file[s] ELSE NULL]

\* FlushBlockFile's two FileCommits, on file f.
FileCommit(f) ==
    /\ blkSynced' = [blkSynced EXCEPT ![f] = blk'[f]]
    /\ revSynced' = [revSynced EXCEPT ![f] = rev'[f]]

\* FindBlockPos: the file the next block goes to.
FindBlockPos ==
    CHOOSE f \in nLastBlockFile .. MaxFile + 1 :
        /\ f \in Files => vinfoBlockFile[f].nSize + 1 < MAX_BLOCKFILE_SIZE
        /\ \A h \in nLastBlockFile .. f - 1 :
              vinfoBlockFile[h].nSize + 1 >= MAX_BLOCKFILE_SIZE

Maximum(a, b) == IF a > b THEN a ELSE b

\* Mutant: the height of the block that came last.
AddBlockLast(info, height) ==
    [info EXCEPT !.nSize = info.nSize + 1, !.nHeightLast = height]

\* CBlockFileInfo::AddBlock, and the size.
AddBlock(info, height) ==
    [info EXCEPT !.nSize = info.nSize + 1, !.nHeightLast = Maximum(info.nHeightLast, height)]

(***************************************************************************)
(* FindBlockPos, WriteBlockToDisk and ReceivedBlockTransactions for b.  A  *)
(* file that is left is truncated to its size and committed.               *)
(***************************************************************************)
StoreBlock(b) ==
    LET f == FindBlockPos
        old == nLastBlockFile
        info == vinfoBlockFile[f]
        left == f # old
    IN  /\ f \in Files
        /\ nLastBlockFile' = f
        /\ vinfoBlockFile' = [vinfoBlockFile EXCEPT ![f] = AddBlock(info, nHeight[b])]
        /\ setDirtyFileInfo' = setDirtyFileInfo \cup {f}
        /\ blk' = [blk EXCEPT
               ![old] = IF left THEN Truncated(blk[old], vinfoBlockFile[old].nSize) ELSE @,
               ![f][info.nSize] = b]
        /\ rev' = [rev EXCEPT
               ![old] = IF left THEN Truncated(rev[old], vinfoBlockFile[old].nUndoSize) ELSE @]
        /\ IF left THEN FileCommit(old) ELSE UNCHANGED <<blkSynced, revSynced>>
        /\ index' = [c \in Blocks |->
               IF c = b THEN [known |-> TRUE, nFile |-> f, data |-> info.nSize,
                              undo |-> NoSlot, received |-> TRUE]
               ELSE [index[c] EXCEPT !.known = @ \/ c \in Up[b]]]
        /\ setDirtyBlockIndex' =
               setDirtyBlockIndex \cup {b} \cup {c \in Up[b] : ~index[c].known}

(***************************************************************************)
(* AcceptBlock of a block that was asked for, which blocks of the active   *)
(* chain are not.  The headers of its ancestors arrived before it; they    *)
(* enter the index here.  Whether the write allocates a new chunk, which   *)
(* calls for pruning, depends on sizes left out here.                      *)
(***************************************************************************)
AcceptBlock(b) ==
    /\ pc = "idle"
    /\ index[Genesis].known /\ ~HaveData(index[b]) /\ b \notin Chain(tip)
    /\ StoreBlock(b)
    /\ \/ UNCHANGED <<pc, flush>>
       \/ /\ fPruneMode
          /\ pc' = "flush"
          /\ flush' = Call("NONE", TRUE, 0, tip, "idle")
    /\ UNCHANGED <<fHavePruned, tip, coins, databases, history>>

-----------------------------------------------------------------------------
(***************************************************************************)
(* The active chain                                                        *)
(***************************************************************************)
\* The candidates FindMostWorkChain can return.
Usable(b) ==
    /\ \A c \in Up[b] : index[c].received
    /\ \A c \in Up[b] \ Chain(tip) : HaveData(index[c])
    /\ nChainWork[b] > Work(tip)

\* FindMostWorkChain; ChainState has the order of candidates of equal work.
FindMostWorkChain ==
    LET best == {b \in Blocks : Usable(b) /\ \A c \in Blocks : Usable(c) => nChainWork[c] <= nChainWork[b]}
    IN  IF best = {} THEN NULL ELSE CHOOSE b \in best : TRUE

\* AbortNode: shut down, which flushes.
AbortNode ==
    /\ pc' = "flush"
    /\ flush' = Call("ALWAYS", FALSE, 0, tip, "down")

\* Mutant: ConnectBlock does not mark the block dirty.
WriteUndoBlockClean(b, f) ==
    /\ rev' = [rev EXCEPT ![f][vinfoBlockFile[f].nUndoSize] = b]
    /\ vinfoBlockFile' = [vinfoBlockFile EXCEPT ![f].nUndoSize = @ + 1]
    /\ setDirtyFileInfo' = setDirtyFileInfo \cup {f}
    /\ index' = [index EXCEPT ![b].undo = vinfoBlockFile[f].nUndoSize]
    /\ UNCHANGED <<setDirtyBlockIndex, nLastBlockFile, fHavePruned, blk, blkSynced, revSynced>>

\* ConnectBlock's FindUndoPos and UndoWriteToDisk, into file f.
WriteUndo(b, f) ==
    /\ rev' = [rev EXCEPT ![f][vinfoBlockFile[f].nUndoSize] = b]
    /\ vinfoBlockFile' = [vinfoBlockFile EXCEPT ![f].nUndoSize = @ + 1]
    /\ setDirtyFileInfo' = setDirtyFileInfo \cup {f}
    /\ index' = [index EXCEPT ![b].undo = vinfoBlockFile[f].nUndoSize]
    /\ setDirtyBlockIndex' = setDirtyBlockIndex \cup {b}
    /\ UNCHANGED <<nLastBlockFile, fHavePruned, blk, blkSynced, revSynced>>

(***************************************************************************)
(* ConnectTip of the next block on the way to the best candidate: write    *)
(* the undo data unless there is some, move the coins, flush if needed;    *)
(* UpdateTip follows the flush.  A new chunk of undo file calls for        *)
(* pruning.                                                                *)
(***************************************************************************)
ConnectTip(b) ==
    LET NeedsUndo == b # Genesis /\ ~HaveUndo(index[b])
    IN  /\ pc = "idle"
        /\ FindMostWorkChain # NULL
        /\ b \in Up[FindMostWorkChain] \ Chain(tip)
        /\ Chain(tip) \cup {b} = Up[b]
        /\ ReadBlockFromDisk(b, index[b])
        /\ IF NeedsUndo THEN WriteUndo(b, index[b].nFile) ELSE UNCHANGED <<memory, files>>
        /\ coins' = b
        /\ pc' = "flush"
        /\ \E alloc \in BOOLEAN :
              /\ alloc => fPruneMode /\ NeedsUndo
              /\ flush' = Call("IF_NEEDED", alloc, 0, b, "idle")
        /\ UNCHANGED <<tip, databases, history>>

\* The tip is not on the way to the best candidate.
MustDisconnect ==
    /\ pc = "idle" /\ tip # NULL
    /\ FindMostWorkChain # NULL /\ tip \notin Up[FindMostWorkChain]

\* DisconnectTip: the coins move back, then a flush if needed, then UpdateTip.
DisconnectTip ==
    /\ MustDisconnect
    /\ ReadBlockFromDisk(tip, index[tip]) /\ UndoReadFromDisk(tip, index[tip])
    /\ coins' = pprev[tip]
    /\ pc' = "flush" /\ flush' = Call("IF_NEEDED", FALSE, 0, pprev[tip], "idle")
    /\ UNCHANGED <<memory, tip, files, databases, history>>

\* The block that the next step of ActivateBestChainStep reads.
ToRead ==
    IF MustDisconnect THEN tip
    ELSE CHOOSE b \in Up[FindMostWorkChain] \ Chain(tip) : Chain(tip) \cup {b} = Up[b]

\* DisconnectTip or ConnectTip cannot read the block.
ReadFails ==
    /\ pc = "idle" /\ FindMostWorkChain # NULL
    /\ ~ReadBlockFromDisk(ToRead, index[ToRead])
    /\ AbortNode
    /\ UNCHANGED <<memory, tip, coins, files, databases, history>>

-----------------------------------------------------------------------------
(***************************************************************************)
(* FlushStateToDisk                                                        *)
(***************************************************************************)
Minimum(a, b) == IF a < b THEN a ELSE b

\* chainActive.Height() - MIN_BLOCKS_TO_KEEP, an unsigned int.
LastBlockWeCanPrune == (nHeight[tip] - MIN_BLOCKS_TO_KEEP) % (UINT_MAX + 1)

\* The files that may go if no block above height last may.
Prunable(last) ==
    {f \in 0 .. nLastBlockFile - 1 :
        vinfoBlockFile[f].nSize # 0 /\ vinfoBlockFile[f].nHeightLast <= last}

(***************************************************************************)
(* FindFilesToPrune: from the first file on, until usage is below          *)
(* nPruneTarget; where that is depends on sizes left out here.             *)
(***************************************************************************)
FindFilesToPrune ==
    IF tip = NULL THEN {{}}
    ELSE IF nHeight[tip] <= nPruneAfterHeight THEN {{}}
    ELSE {{f \in Prunable(LastBlockWeCanPrune) : f < n} : n \in Files}

\* FindFilesToPruneManual.
FindFilesToPruneManual(nManualPruneHeight) ==
    IF tip = NULL THEN {}
    ELSE Prunable(Minimum(nManualPruneHeight, LastBlockWeCanPrune))

\* setFilesToPrune, by the arguments of the call.
FilesToPrune ==
    IF fPruneMode /\ flush.manual > 0 THEN {FindFilesToPruneManual(flush.manual)}
    ELSE IF fPruneMode /\ flush.check THEN FindFilesToPrune
    ELSE {{}}

\* PruneOneBlockFile, for each file of S.
PruneBlockFiles(S) ==
    LET gone == {b \in Blocks : index[b].known /\ index[b].nFile \in S}
    IN  /\ index' = [b \in Blocks |->
               IF b \in gone
               THEN [index[b] EXCEPT !.nFile = 0, !.data = NoSlot, !.undo = NoSlot]
               ELSE index[b]]
        /\ setDirtyBlockIndex' = setDirtyBlockIndex \cup gone
        /\ vinfoBlockFile' = [f \in Files |-> IF f \in S THEN NullInfo ELSE vinfoBlockFile[f]]
        /\ setDirtyFileInfo' = setDirtyFileInfo \cup S

\* fDoFullFlush and fPeriodicWrite: what the clock and the cache size allow.
FullFlush(mode) ==
    CASE mode = "ALWAYS" -> {TRUE} [] mode = "NONE" -> {FALSE} [] OTHER -> BOOLEAN
PeriodicWrite(mode) == IF mode = "PERIODIC" THEN BOOLEAN ELSE {FALSE}

\* Mutant: the flag is only kept in memory.
WriteFlagNot(prune) ==
    /\ fHavePruned' = (fHavePruned \/ prune # {})
    /\ UNCHANGED blocktree

\* The first time files are pruned, the database says so.
WriteFlag(prune) ==
    /\ fHavePruned' = (fHavePruned \/ prune # {})
    /\ blocktree' = [blocktree EXCEPT !.prunedblockfiles =
                         @ \/ (prune # {} /\ ~fHavePruned)]

\* Mutant: a full cache is written alone.
FirstWriteCoins(full, write, prune) ==
    IF prune # {} \/ write THEN "commit" ELSE IF full THEN "coins" ELSE "done"

\* The first write that follows the decision.
FirstWrite(full, write, prune) == IF full \/ write \/ prune # {} THEN "commit" ELSE "done"

\* FlushStateToDisk up to the decision what to write.
FlushStateToDisk ==
    /\ pc = "flush"
    /\ \E prune \in FilesToPrune, full \in FullFlush(flush.mode), write \in PeriodicWrite(flush.mode) :
          /\ PruneBlockFiles(prune)
          /\ WriteFlag(prune)
          /\ flush' = [Call("NONE", FALSE, 0, flush.next, flush.then) EXCEPT
                 !.prune = prune, !.full = full \/ prune # {}]
          /\ pc' = FirstWrite(full, write, prune)
    /\ UNCHANGED <<nLastBlockFile, tip, coins, files, flagSynced, chainstate,
                   chainstateMaybe, history>>

\* Mutant: the files are closed without a sync.
FlushBlockFileNot ==
    /\ pc = "commit"
    /\ pc' = "index"
    /\ UNCHANGED <<memory, tip, coins, flush, files, databases, history>>

\* FlushBlockFile.
FlushBlockFile ==
    /\ pc = "commit"
    /\ pc' = "index"
    /\ UNCHANGED <<blk, rev>> /\ FileCommit(nLastBlockFile)
    /\ UNCHANGED <<memory, tip, coins, flush, databases, history>>

\* WriteBatchSync of what is dirty; it syncs the flag written before it.
WriteBatchSync ==
    /\ pc = "index"
    /\ pc' = IF flush.prune # {} THEN "unlink" ELSE IF flush.full THEN "coins" ELSE "done"
    /\ blocktree' = [blocktree EXCEPT
           !.index = [b \in Blocks |-> IF b \in setDirtyBlockIndex THEN index[b] ELSE @[b]],
           !.info = [f \in Files |-> IF f \in setDirtyFileInfo THEN vinfoBlockFile[f] ELSE @[f]],
           !.last = nLastBlockFile]
    /\ flagSynced' = blocktree.prunedblockfiles
    /\ setDirtyBlockIndex' = {} /\ setDirtyFileInfo' = {}
    /\ UNCHANGED <<index, vinfoBlockFile, nLastBlockFile, fHavePruned, tip, coins, flush,
                   files, chainstate, chainstateMaybe, history>>

\* UnlinkPrunedFiles.
UnlinkPrunedFiles ==
    /\ pc = "unlink"
    /\ pc' = "coins"
    /\ blk' = [f \in Files |-> IF f \in flush.prune THEN Empty[f] ELSE blk[f]]
    /\ rev' = [f \in Files |-> IF f \in flush.prune THEN Empty[f] ELSE rev[f]]
    /\ blkSynced' = [f \in Files |-> IF f \in flush.prune THEN Empty[f] ELSE blkSynced[f]]
    /\ revSynced' = [f \in Files |-> IF f \in flush.prune THEN Empty[f] ELSE revSynced[f]]
    /\ UNCHANGED <<memory, tip, coins, flush, databases, history>>

\* pcoinsTip->Flush(): one batch, not synced; without a best block before genesis.
FlushCoins ==
    /\ pc = "coins"
    /\ pc' = "done"
    /\ chainstate' = IF coins = NULL THEN chainstate ELSE coins
    /\ chainstateMaybe' = chainstateMaybe \cup {chainstate'}
    /\ UNCHANGED <<memory, tip, coins, flush, files, blocktree, flagSynced, history>>

\* The process is gone.
MemoryLost ==
    /\ index' = [b \in Blocks |-> Unknown]
    /\ vinfoBlockFile' = [f \in Files |-> NullInfo] /\ nLastBlockFile' = 0
    /\ setDirtyBlockIndex' = {} /\ setDirtyFileInfo' = {}
    /\ fHavePruned' = FALSE
    /\ tip' = NULL /\ coins' = NULL
    /\ pc' = "down" /\ flush' = NoFlush

\* The caller goes on: UpdateTip after ConnectTip and DisconnectTip.
FlushDone ==
    /\ pc = "done" /\ flush.then # "down"
    /\ pc' = flush.then
    /\ tip' = flush.next
    /\ flush' = NoFlush
    /\ UNCHANGED <<memory, coins, files, databases, history>>

\* The end of Shutdown.
Exit ==
    /\ pc = "done" /\ flush.then = "down"
    /\ MemoryLost
    /\ UNCHANGED <<files, databases, history>>

\* FlushStateToDisk(PERIODIC) at the end of ActivateBestChain and elsewhere.
FlushPeriodically ==
    /\ pc = "idle"
    /\ pc' = "flush" /\ flush' = Call("PERIODIC", FALSE, 0, tip, "idle")
    /\ UNCHANGED <<memory, tip, coins, files, databases, history>>

\* The RPC pruneblockchain, with its unsigned arithmetic.
pruneblockchain(height) ==
    /\ pc = "idle" /\ fPruneMode /\ tip # NULL
    /\ nHeight[tip] >= nPruneAfterHeight /\ height <= nHeight[tip]
    /\ pc' = "flush"
    /\ flush' = Call("NONE", FALSE, Minimum(height, LastBlockWeCanPrune), tip, "idle")
    /\ UNCHANGED <<memory, tip, coins, files, databases, history>>

\* Shutdown.
Shutdown ==
    /\ pc = "idle" /\ stops < MaxStops
    /\ stops' = stops + 1
    /\ AbortNode
    /\ UNCHANGED <<memory, tip, coins, files, databases, powerLost>>

-----------------------------------------------------------------------------
(***************************************************************************)
(* Crashes and restarts                                                    *)
(***************************************************************************)

\* The process is killed: what it wrote is with the operating system.
Kill ==
    /\ "kill" \in Failures /\ pc \notin {"down", "corrupt"} /\ stops < MaxStops
    /\ MemoryLost
    /\ stops' = stops + 1
    /\ UNCHANGED <<files, databases, powerLost>>

\* The records that are written but not synced.
Unsynced(now, safe) == {p \in Files \X Slots : now[p[1]][p[2]] # safe[p[1]][p[2]]}
Without(now, safe, lost) ==
    [f \in Files |-> [s \in Slots |-> IF <<f, s>> \in lost THEN safe[f][s] ELSE now[f][s]]]

(***************************************************************************)
(* Power fails: of the records not synced any may be lost, and of the      *)
(* batches of the coins database any number of the last ones.              *)
(***************************************************************************)
PowerFailure ==
    /\ "power" \in Failures /\ pc # "corrupt" /\ stops < MaxStops
    /\ MemoryLost
    /\ stops' = stops + 1 /\ powerLost' = TRUE
    /\ \E lost \in SUBSET Unsynced(blk, blkSynced) : blk' = Without(blk, blkSynced, lost)
    /\ \E lost \in SUBSET Unsynced(rev, revSynced) : rev' = Without(rev, revSynced, lost)
    /\ blkSynced' = blk' /\ revSynced' = rev'
    /\ chainstate' \in chainstateMaybe
    /\ chainstateMaybe' = {chainstate'}
    /\ \E flag \in {flagSynced, blocktree.prunedblockfiles} :
          /\ blocktree' = [blocktree EXCEPT !.prunedblockfiles = flag]
          /\ flagSynced' = flag

\* Every block file that the index refers to can be opened.
BlockFilesPresent ==
    \A b \in Blocks : HaveData(blocktree.index[b]) =>
        \E s \in Slots : blk[blocktree.index[b].nFile][s] # NULL

(***************************************************************************)
(* LoadBlockIndexDB.  Opening the coins database settles its log.  With a  *)
(* tip RewindBlockIndex follows, which has nothing to rewind but flushes;  *)
(* without one InitBlockIndex.                                             *)
(***************************************************************************)
LoadBlockIndexDB ==
    LET best == IF chainstate = NULL THEN NULL
                ELSE IF blocktree.index[chainstate].known THEN chainstate ELSE NULL
    IN  /\ pc = "down"
        /\ index' = blocktree.index /\ vinfoBlockFile' = blocktree.info
        /\ nLastBlockFile' = blocktree.last
        /\ fHavePruned' = blocktree.prunedblockfiles
        /\ coins' = chainstate /\ chainstateMaybe' = {chainstate}
        /\ tip' = best
        /\ pc' = IF ~BlockFilesPresent THEN "corrupt" ELSE IF best = NULL THEN "init" ELSE "flush"
        /\ flush' = Call("ALWAYS", FALSE, 0, best, "verify")
        /\ UNCHANGED <<setDirtyBlockIndex, setDirtyFileInfo, files, blocktree, flagSynced,
                       chainstate, history>>

\* InitBlockIndex without a tip: store the genesis block, and flush.
InitBlockIndex ==
    /\ pc = "init"
    /\ StoreBlock(Genesis)
    /\ pc' = "flush"
    /\ UNCHANGED <<fHavePruned, tip, coins, flush, databases, history>>

\* The blocks VerifyDB looks at: the last ones, in prune mode while there is data.
Verified ==
    {b \in Chain(tip) \ {Genesis} :
        /\ nHeight[b] >= nHeight[tip] - DEFAULT_CHECKBLOCKS
        /\ \A c \in Chain(tip) : nHeight[c] >= nHeight[b] /\ fPruneMode => HaveData(index[c])}

(***************************************************************************)
(* VerifyDB at its default level 3: blocks and undo data can be read, and  *)
(* disconnecting them needs undo data.  Then PruneAndFlush.                *)
(***************************************************************************)
VerifyDB ==
    /\ pc = "verify"
    /\ pc' = IF \A b \in Verified :
                   ReadBlockFromDisk(b, index[b]) /\ UndoReadFromDisk(b, index[b])
             THEN "flush" ELSE "corrupt"
    /\ flush' = Call("NONE", fPruneMode, 0, tip, "idle")
    /\ UNCHANGED <<memory, tip, coins, files, databases, history>>

\* "Please restart with -reindex": rebuilding the databases is not modelled.
Stuck == pc = "corrupt" /\ UNCHANGED vars

-----------------------------------------------------------------------------
Startup == LoadBlockIndexDB \/ InitBlockIndex \/ VerifyDB
Flushing ==
    \/ FlushStateToDisk \/ FlushBlockFile \/ WriteBatchSync \/ UnlinkPrunedFiles
    \/ FlushCoins \/ FlushDone \/ Exit
Activating == (\E b \in Blocks : ConnectTip(b)) \/ DisconnectTip \/ ReadFails
Calls ==
    \/ \E b \in Blocks : AcceptBlock(b)
    \/ FlushPeriodically
    \/ \E height \in 1 .. UINT_MAX : pruneblockchain(height)
    \/ Shutdown
Next == Startup \/ Flushing \/ Activating \/ Calls \/ Kill \/ PowerFailure \/ Stuck

Spec == Init /\ [][Next]_vars

-----------------------------------------------------------------------------
\* The state of the program and of its disk has its type.
TypeOK ==
    /\ index \in [Blocks -> Entry]
    /\ vinfoBlockFile \in [Files -> FileInfo] /\ nLastBlockFile \in Files
    /\ setDirtyBlockIndex \subseteq Blocks /\ setDirtyFileInfo \subseteq Files
    /\ fHavePruned \in BOOLEAN
    /\ tip \in Blocks \cup {NULL} /\ coins \in Blocks \cup {NULL}
    /\ pc \in PCs
    /\ flush \in [mode : Modes, check : BOOLEAN, manual : 0 .. UINT_MAX,
                  next : Blocks \cup {NULL}, then : PCs, full : BOOLEAN, prune : SUBSET Files]
    /\ {blk, rev, blkSynced, revSynced} \subseteq [Files -> [Slots -> Blocks \cup {NULL}]]
    /\ blocktree \in [index : [Blocks -> Entry], info : [Files -> FileInfo],
                      last : Files, prunedblockfiles : BOOLEAN]
    /\ flagSynced \in BOOLEAN
    /\ chainstate \in chainstateMaybe /\ chainstateMaybe \subseteq Blocks \cup {NULL}
    /\ stops \in 0 .. MaxStops /\ powerLost \in BOOLEAN

(***************************************************************************)
(* Whatever crash comes next, the chainstate that is found afterwards      *)
(* belongs to a block in the block index database, which has all its       *)
(* ancestors too, all of them received: FlushStateToDisk writes the index  *)
(* before the coins.                                                       *)
(***************************************************************************)
ChainstateInIndex ==
    \A c \in chainstateMaybe \ {NULL} : \A b \in Up[c] :
        blocktree.index[b].known /\ blocktree.index[b].received

(***************************************************************************)
(* Whatever crash comes next, a block for which the block index database   *)
(* says BLOCK_HAVE_DATA is where it says: files are committed before the   *)
(* index refers to them, not removed while it does, and a record it refers *)
(* to is not overwritten after the sizes were set back by a crash.  While  *)
(* only the process was killed the same is true of BLOCK_HAVE_UNDO, in the *)
(* database and in memory, so that DisconnectBlock can read what it needs. *)
(***************************************************************************)
DataDurable ==
    /\ TypeOK
    /\ \A b \in Blocks : HaveData(blocktree.index[b]) =>
          /\ blkSynced[blocktree.index[b].nFile][blocktree.index[b].data] = b
          /\ ReadBlockFromDisk(b, blocktree.index[b])
    /\ powerLost \/ \A b \in Blocks : \A e \in {index[b], blocktree.index[b]} :
                        HaveUndo(e) => UndoReadFromDisk(b, e)

(***************************************************************************)
(* A node that was only ever shut down or killed starts again:             *)
(* LoadBlockIndexDB finds its files, and VerifyDB the blocks and the undo  *)
(* data of the chain the coins belong to.                                  *)
(***************************************************************************)
StartsUp == pc = "corrupt" => powerLost

(***************************************************************************)
(* The database never holds a block whose data was pruned without the      *)
(* durable flag "prunedblockfiles", by which a later start without -prune  *)
(* is refused.                                                             *)
(***************************************************************************)
PrunedRecorded ==
    (\E b \in Blocks : blocktree.index[b].received /\ ~HaveData(blocktree.index[b])) => flagSynced

(***************************************************************************)
(* No pruning removes a block within MIN_BLOCKS_TO_KEEP of the tip, on     *)
(* whatever branch, in whatever order the blocks of a file arrived.        *)
(***************************************************************************)
PruneKeepsRecent ==
    [][pc = "flush" /\ pc' # "down" => \A b \in Blocks :
          HaveData(index[b]) /\ ~HaveData(index'[b])
              => nHeight[b] <= nHeight[tip] - MIN_BLOCKS_TO_KEEP]_vars
=============================================================================
