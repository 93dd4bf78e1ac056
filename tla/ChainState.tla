----------------------------- MODULE ChainState -----------------------------
(***************************************************************************)
(* The block tree and the activation of the best chain (validation.cpp):   *)
(* headers and blocks arrive, ActivateBestChain moves chainActive towards  *)
(* the best candidate, and the operator may invalidate, reconsider or      *)
(* prefer a block.  Threads (the message handler, RPC workers, the import  *)
(* thread) run the same functions and exclude each other with cs_main.     *)
(*                                                                         *)
(* ActivateBestChain gives up cs_main after every step that improved the   *)
(* tip and goes on with the pindexMostWork it chose before.  The loops     *)
(* inside a critical section are several steps here; they hold cs_main, so *)
(* no other thread sees the states between them.                           *)
(*                                                                         *)
(* A block is a model value: its parent, its work and whether it passes    *)
(* the checks are constants.  A header that fails its checks changes       *)
(* nothing and is left out, as are warnings and notifications.             *)
(***************************************************************************)
EXTENDS Integers, FiniteSets

CONSTANTS
    Blocks, Genesis,
    pprev,      \* pprev[b]: the parent of b
    Up,         \* Up[b]: b and its ancestors, what GetAncestor can return
    nHeight, nChainWork,
    address,    \* the pointer order, last resort of the comparator
    Threads, NoThread, NULL,
    MIN_BLOCKS_TO_KEEP,
    MaxSequence, MaxPrecious, \* bounds on the two sequence counters
    Scenarios   \* [commands, BadCheck, BadConnect]: what the operator may do
                \* ("invalidate", "reconsider", "precious", "prune", "restart"),
                \* and the blocks that ContextualCheckBlock, ConnectBlock reject

ASSUME TreeAssumption ==
    /\ IsFiniteSet(Blocks) /\ Genesis \in Blocks /\ NULL \notin Blocks
    /\ pprev \in [Blocks \ {Genesis} -> Blocks]
    /\ Up \in [Blocks -> SUBSET Blocks]
    /\ nHeight \in [Blocks -> Nat] /\ nChainWork \in [Blocks -> Nat]
    /\ Up[Genesis] = {Genesis} /\ nHeight[Genesis] = 0
    /\ \A b \in Blocks \ {Genesis} :
          /\ Up[b] = Up[pprev[b]] \cup {b}
          /\ nHeight[b] = nHeight[pprev[b]] + 1
          /\ nChainWork[b] > nChainWork[pprev[b]]
    /\ address \in [Blocks -> Nat]
    /\ \A b, c \in Blocks : address[b] = address[c] => b = c
    /\ \A s \in Scenarios : Genesis \notin s.BadCheck \cup s.BadConnect

ASSUME ThreadsAssumption == NoThread \notin Threads

VARIABLES
    mapBlockIndex,           \* the headers known
    valid,                   \* nStatus & BLOCK_VALID_MASK
    haveData, haveUndo,      \* blocks with BLOCK_HAVE_DATA, BLOCK_HAVE_UNDO
    failedValid, failedChild,\* blocks with BLOCK_FAILED_VALID, _CHILD
    received,                \* blocks with nTx # 0
    linked,                  \* blocks with nChainTx # 0
    nSequenceId,
    setBlockIndexCandidates,
    mapBlocksUnlinked,       \* the B of the pairs <<pprev[B], B>>
    gFailedBlocks,
    tip,                     \* chainActive.Tip()
    pindexBestHeader, pindexBestInvalid,
    nBlockSequenceId, nBlockReverseSequenceId, nLastPreciousChainwork,
    cs_main,                 \* the thread that holds it
    pc,                      \* where each thread is
    pindexMostWork,          \* ActivateBestChain's local; InvalidateBlock's pindex
    pindexOldTip,            \* the tip at the start of the critical section
    failedCalls,             \* threads a call of which failed half way
    scenario                 \* which of Scenarios this behaviour is about

index == <<mapBlockIndex, valid, haveData, haveUndo, failedValid, failedChild,
           received, linked, nSequenceId>>
sets == <<setBlockIndexCandidates, mapBlocksUnlinked, gFailedBlocks>>
best == <<pindexBestHeader, pindexBestInvalid>>
counters == <<nBlockSequenceId, nBlockReverseSequenceId, nLastPreciousChainwork>>
threads == <<cs_main, pc, pindexMostWork, pindexOldTip, failedCalls>>
vars == <<index, sets, tip, best, counters, threads>>

(***************************************************************************)
(* "idle": not in validation     "loop": at the top of ActivateBestChain   *)
(* "find": in FindMostWorkChain  "step": in ActivateBestChainStep          *)
(* "inval": in InvalidateBlock   ("find", "step", "inval" hold cs_main)    *)
(***************************************************************************)
PCs == {"idle", "loop", "find", "step", "inval"}
TREE == 2
TRANSACTIONS == 3
SCRIPTS == 5

-----------------------------------------------------------------------------
BadCheck == scenario.BadCheck
BadConnect == scenario.BadConnect

Failed == failedValid \cup failedChild

\* CBlockIndex::IsValid(nUpTo).
IsValid(b, nUpTo) == b \notin Failed /\ valid[b] >= nUpTo

\* Mutant: validation in ConnectBlock is not recorded.
RaiseValidityNotScripts(b, nUpTo) ==
    IF b \in Failed \/ valid[b] >= nUpTo \/ nUpTo = SCRIPTS THEN valid[b] ELSE nUpTo

\* CBlockIndex::RaiseValidity(nUpTo): the new level of b.
RaiseValidity(b, nUpTo) == IF b \in Failed \/ valid[b] >= nUpTo THEN valid[b] ELSE nUpTo

\* CBlockIndexWorkComparator: a sorts before b, given the sequence numbers.
Worse(seq, a, b) ==
    \/ nChainWork[a] < nChainWork[b]
    \/ nChainWork[a] = nChainWork[b] /\ seq[a] > seq[b]
    \/ nChainWork[a] = nChainWork[b] /\ seq[a] = seq[b] /\ address[a] > address[b]

\* Mutant: the tie between equal amounts of work is not broken by the sequence.
BestByWork(seq, S) == CHOOSE b \in S : \A c \in S : nChainWork[c] <= nChainWork[b]

\* setBlockIndexCandidates.rbegin().
Best(seq, S) == CHOOSE b \in S : \A c \in S \ {b} : Worse(seq, c, b)

Highest(S) == CHOOSE b \in S : \A c \in S : nHeight[c] <= nHeight[b]

\* chainActive.Contains(b).
Active(b) == b \in Up[tip]

\* InvalidChainFound(b).
InvalidChainFound(b) ==
    pindexBestInvalid' =
        IF pindexBestInvalid = NULL \/ nChainWork[b] > nChainWork[pindexBestInvalid]
        THEN b ELSE pindexBestInvalid

\* Mutant: the tip goes too.
PruneTipToo(seq, S, t) == {b \in S : Worse(seq, t, b)}

\* PruneBlockIndexCandidates on candidates S with tip t.
PruneBlockIndexCandidates(seq, S, t) == {b \in S : ~Worse(seq, b, t)}

Init ==
    /\ mapBlockIndex = {Genesis}
    /\ valid = [b \in Blocks |-> IF b = Genesis THEN TRANSACTIONS ELSE 0]
    /\ haveData = {Genesis} /\ haveUndo = {}
    /\ failedValid = {} /\ failedChild = {}
    /\ received = {Genesis} /\ linked = {Genesis}
    /\ nSequenceId = [b \in Blocks |-> IF b = Genesis THEN 1 ELSE 0]
    /\ setBlockIndexCandidates = {Genesis}
    /\ mapBlocksUnlinked = {} /\ gFailedBlocks = {}
    /\ tip = Genesis
    /\ pindexBestHeader = Genesis /\ pindexBestInvalid = NULL
    /\ nBlockSequenceId = 2 /\ nBlockReverseSequenceId = -1
    /\ nLastPreciousChainwork = 0
    /\ cs_main = NoThread
    /\ pc = [t \in Threads |-> "idle"]
    /\ pindexMostWork = [t \in Threads |-> NULL]
    /\ pindexOldTip = [t \in Threads |-> NULL]
    /\ failedCalls = {} /\ scenario \in Scenarios

\* A thread that is idle takes cs_main, does its work and releases it ...
Idle(t) == pc[t] = "idle" /\ cs_main = NoThread

\* ... and either is done, or calls ActivateBestChain next.
ThenActivate(t) ==
    /\ pc' = [pc EXCEPT ![t] = "loop"]
    /\ UNCHANGED <<cs_main, pindexMostWork, pindexOldTip, failedCalls>>

-----------------------------------------------------------------------------
(* Headers and blocks.                                                      *)

\* The failed blocks an unknown header b on a known parent descends from, as
\* far as AcceptBlockHeader looks.
FailedAncestors(b) ==
    IF IsValid(pprev[b], SCRIPTS) THEN {} ELSE gFailedBlocks \cap Up[pprev[b]]

\* The header of b would enter the index.
NewHeader(b) ==
    /\ b \notin mapBlockIndex /\ pprev[b] \in mapBlockIndex
    /\ pprev[b] \notin Failed
    /\ FailedAncestors(b) = {}

\* AddToBlockIndex(b), where valid' may rise further in the same step.
AddToBlockIndex(b) ==
    /\ mapBlockIndex' = mapBlockIndex \cup {b}
    /\ pindexBestHeader' =
          IF nChainWork[pindexBestHeader] < nChainWork[b] THEN b ELSE pindexBestHeader

\* AcceptBlockHeader adds a new header ...
AcceptBlockHeader(t, b) ==
    /\ Idle(t) /\ NewHeader(b)
    /\ AddToBlockIndex(b)
    /\ valid' = [valid EXCEPT ![b] = RaiseValidity(b, TREE)]
    /\ UNCHANGED <<haveData, haveUndo, failedValid, failedChild, received, linked,
                   nSequenceId, sets, tip, pindexBestInvalid, counters, threads>>

\* ... or finds it descends from a failed block f (any, gFailedBlocks being
\* ordered by address), and marks the blocks between.  Called for a header or
\* for a whole block alike.  Its assert(failedit->nStatus & BLOCK_FAILED_VALID)
\* is HeaderAssertHolds below.
RejectHeader(t, b) ==
    /\ Idle(t)
    /\ b \notin mapBlockIndex /\ pprev[b] \in mapBlockIndex
    /\ pprev[b] \notin Failed
    /\ \E f \in FailedAncestors(b) \cap failedValid :
          failedChild' = failedChild \cup (Up[pprev[b]] \ Up[f])
    /\ UNCHANGED <<mapBlockIndex, valid, haveData, haveUndo, failedValid, received,
                   linked, nSequenceId, sets, tip, best, counters, threads>>

\* Mutant: descendants that wait for b are not looked at.
LinkableAlone(b) == {b}

\* The blocks that ReceivedBlockTransactions(b) links: b, and what hangs on it
\* in mapBlocksUnlinked.
Linkable(b) ==
    {d \in mapBlocksUnlinked \cup {b} :
        b \in Up[d] /\ Up[d] \ Up[b] \subseteq mapBlocksUnlinked}

\* Sequence numbers for the blocks of L in the order of a breadth-first walk.
Numberings(L) ==
    {f \in [L -> nBlockSequenceId .. nBlockSequenceId + Cardinality(L) - 1] :
        \A c, d \in L : (c # d => f[c] # f[d])
                        /\ (nHeight[c] < nHeight[d] => f[c] < f[d])}

\* ReceivedBlockTransactions(b).  mapBlocksUnlinked is a multimap, which may hold
\* a block twice once FindMostWorkChain has put it back: the walk then numbers it
\* again, among the blocks of its height.  Here it is a set, and a block gets its
\* last number only.
ReceivedBlockTransactions(b) ==
    /\ received' = received \cup {b}
    /\ haveData' = haveData \cup {b}
    /\ IF b = Genesis \/ pprev[b] \in linked
       THEN \E f \in Numberings(Linkable(b)) :
              LET L == Linkable(b)
                  seq == [c \in Blocks |-> IF c \in L THEN f[c] ELSE nSequenceId[c]]
              IN  /\ linked' = linked \cup L
                  /\ nSequenceId' = seq
                  /\ nBlockSequenceId' = nBlockSequenceId + Cardinality(L)
                  /\ nBlockSequenceId' <= MaxSequence
                  /\ setBlockIndexCandidates' = setBlockIndexCandidates
                        \cup {c \in L : ~Worse(seq, c, tip)}
                  /\ mapBlocksUnlinked' = mapBlocksUnlinked \ L
       ELSE /\ linked' = linked \ {b}
            /\ mapBlocksUnlinked' = mapBlocksUnlinked \cup
                  (IF IsValid(pprev[b], TREE) THEN {b} ELSE {})
            /\ UNCHANGED <<nSequenceId, nBlockSequenceId, setBlockIndexCandidates>>

\* Mutant: a block that is already stored is processed again.
UnwantedNew(b, fRequested) ==
    /\ ~fRequested
    /\ \/ b \in received
       \/ nChainWork[b] <= nChainWork[tip]
       \/ nHeight[b] > nHeight[tip] + MIN_BLOCKS_TO_KEEP

\* AcceptBlock's early returns for a block nobody asked for.
Unwanted(b, fRequested) ==
    \/ b \in haveData
    \/ /\ ~fRequested
       /\ \/ b \in received
          \/ nChainWork[b] <= nChainWork[tip]
          \/ nHeight[b] > nHeight[tip] + MIN_BLOCKS_TO_KEEP

\* ProcessNewBlock of a block whose header is known and not failed, or new.
Acceptable(b) ==
    \/ b = Genesis
    \/ b \in mapBlockIndex /\ b \notin Failed
    \/ NewHeader(b)

\* AcceptBlock returns early: only the header may be news.
AcceptBlockUnwanted(t, b, fRequested) ==
    /\ Idle(t) /\ Acceptable(b) /\ Unwanted(b, fRequested)
    /\ AddToBlockIndex(b)
    /\ valid' = [valid EXCEPT ![b] = RaiseValidity(b, TREE)]
    /\ ThenActivate(t)
    /\ UNCHANGED <<haveData, haveUndo, failedValid, failedChild, received, linked,
                   nSequenceId, sets, tip, pindexBestInvalid, counters>>

\* The block fails its own checks: it is marked, unless it may be corrupted.
AcceptBlockInvalid(t, b, fRequested, corrupted) ==
    /\ Idle(t) /\ Acceptable(b) /\ ~Unwanted(b, fRequested)
    /\ corrupted \/ b \in BadCheck
    /\ AddToBlockIndex(b)
    /\ valid' = [valid EXCEPT ![b] = RaiseValidity(b, TREE)]
    /\ failedValid' = IF corrupted THEN failedValid ELSE failedValid \cup {b}
    /\ UNCHANGED <<haveData, haveUndo, failedChild, received, linked, nSequenceId,
                   sets, tip, pindexBestInvalid, counters, threads>>

AcceptBlock(t, b, fRequested) ==
    /\ Idle(t) /\ Acceptable(b) /\ ~Unwanted(b, fRequested)
    /\ b \notin BadCheck
    /\ AddToBlockIndex(b)
    /\ ReceivedBlockTransactions(b)
    /\ valid' = [valid EXCEPT ![b] = RaiseValidity(b, TRANSACTIONS)]
    /\ ThenActivate(t)
    /\ UNCHANGED <<haveUndo, failedValid, failedChild, gFailedBlocks, tip,
                   pindexBestInvalid, nBlockReverseSequenceId, nLastPreciousChainwork>>

-----------------------------------------------------------------------------
(* ActivateBestChain.                                                       *)

\* The critical section is over and the thread leaves ActivateBestChain, or
\* goes round its loop with mw as pindexMostWork.
Leave(t) ==
    /\ cs_main' = NoThread
    /\ pc' = [pc EXCEPT ![t] = "idle"]
    /\ pindexMostWork' = [pindexMostWork EXCEPT ![t] = NULL]
    /\ pindexOldTip' = [pindexOldTip EXCEPT ![t] = NULL]
    /\ UNCHANGED failedCalls

Again(t, mw) ==
    /\ cs_main' = NoThread
    /\ pc' = [pc EXCEPT ![t] = "loop"]
    /\ pindexMostWork' = [pindexMostWork EXCEPT ![t] = mw]
    /\ pindexOldTip' = [pindexOldTip EXCEPT ![t] = NULL]
    /\ UNCHANGED failedCalls

\* The top of the loop: what was chosen in an earlier round is kept.
Lock(t) ==
    /\ pc[t] = "loop" /\ cs_main = NoThread
    /\ IF pindexMostWork[t] = tip THEN Leave(t)
       ELSE /\ cs_main' = t
            /\ pc' = [pc EXCEPT ![t] = IF pindexMostWork[t] = NULL THEN "find" ELSE "step"]
            /\ pindexOldTip' = [pindexOldTip EXCEPT ![t] = tip]
            /\ UNCHANGED <<pindexMostWork, failedCalls>>
    /\ UNCHANGED <<index, sets, tip, best, counters>>

\* Mutant: only missing data rules a candidate out.
UnusableMissing(c) == {b \in Up[c] \ Up[tip] : b \notin haveData}

\* The blocks between c and the active chain that rule c out.
Unusable(c) == {b \in Up[c] \ Up[tip] : b \in Failed \/ b \notin haveData}

\* FindMostWorkChain: the best candidate is usable (with none at all it
\* returns NULL, which ends the call just as finding the tip does) ...
FindMostWorkChain(t) ==
    LET c == IF setBlockIndexCandidates = {} THEN tip
             ELSE Best(nSequenceId, setBlockIndexCandidates)
    IN  /\ pc[t] = "find"
        /\ Unusable(c) = {}
        /\ IF c = tip THEN Leave(t)
           ELSE /\ pc' = [pc EXCEPT ![t] = "step"]
                /\ pindexMostWork' = [pindexMostWork EXCEPT ![t] = c]
                /\ UNCHANGED <<cs_main, pindexOldTip, failedCalls>>
        /\ UNCHANGED <<index, sets, tip, best, counters>>

\* Blocks above missing data wait for it in mapBlocksUnlinked.
Unlink(above) == mapBlocksUnlinked \cup above

\* ... or it is dropped with everything above the culprit, and the next best
\* is tried.
DropCandidate(t) ==
    LET c == Best(nSequenceId, setBlockIndexCandidates)
        pindexTest == Highest(Unusable(c))
        above == Up[c] \ Up[pindexTest]
        fFailedChain == pindexTest \in Failed
    IN  /\ pc[t] = "find" /\ setBlockIndexCandidates # {}
        /\ Unusable(c) # {}
        /\ IF fFailedChain
           THEN /\ failedChild' = failedChild \cup above
                /\ InvalidChainFound(c)
                /\ UNCHANGED mapBlocksUnlinked
           ELSE /\ mapBlocksUnlinked' = Unlink(above)
                /\ UNCHANGED <<failedChild, pindexBestInvalid>>
        /\ setBlockIndexCandidates' = setBlockIndexCandidates \ (above \cup {pindexTest})
        /\ UNCHANGED <<mapBlockIndex, valid, haveData, haveUndo, failedValid, received,
                       linked, nSequenceId, gFailedBlocks, tip, pindexBestHeader,
                       counters, threads>>

\* DisconnectTip reads the block and its undo data.
CanDisconnect == tip \in haveData \cap haveUndo

\* ActivateBestChainStep first disconnects what is not on the way.
DisconnectTip(t) ==
    LET mw == pindexMostWork[t]
    IN  /\ pc[t] = "step" /\ tip \notin Up[mw] /\ CanDisconnect
        /\ tip' = pprev[tip]
        /\ IF tip' = mw THEN Leave(t) ELSE UNCHANGED threads
        /\ UNCHANGED <<index, sets, best, counters>>

\* The next block on the way from the tip to pindexMostWork.
pindexConnect(t) ==
    CHOOSE b \in Up[pindexMostWork[t]] : nHeight[b] = nHeight[tip] + 1

\* ConnectTip succeeds: ConnectBlock has written undo data and raised the
\* validity of the block.  cs_main is released once the tip is better than
\* it was.  (At most 32 blocks are looked up at a time, which changes nothing.)
ConnectTip(t) ==
    LET mw == pindexMostWork[t]
        b == pindexConnect(t)
    IN  /\ pc[t] = "step" /\ tip \in Up[mw]
        /\ b \in haveData /\ b \notin BadConnect
        /\ tip' = b
        /\ haveUndo' = haveUndo \cup {b}
        /\ valid' = [valid EXCEPT ![b] = RaiseValidity(b, SCRIPTS)]
        /\ setBlockIndexCandidates' =
              PruneBlockIndexCandidates(nSequenceId, setBlockIndexCandidates, b)
        /\ IF b = mw THEN Leave(t)
           ELSE IF nChainWork[b] > nChainWork[pindexOldTip[t]] THEN Again(t, mw)
           ELSE UNCHANGED threads
        /\ UNCHANGED <<mapBlockIndex, haveData, failedValid, failedChild, received, linked,
                       nSequenceId, mapBlocksUnlinked, gFailedBlocks, best, counters>>

\* Mutant: the rejected block stays unmarked and a candidate.
ConnectTipUnmarked(t) ==
    /\ pc[t] = "step" /\ tip \in Up[pindexMostWork[t]]
    /\ pindexConnect(t) \in haveData \cap BadConnect
    /\ Again(t, NULL)
    /\ UNCHANGED <<index, sets, tip, best, counters>>

\* ConnectBlock rejects the block: InvalidBlockFound, and another round with
\* pindexMostWork wiped.
ConnectTipInvalid(t) ==
    LET b == pindexConnect(t)
    IN  /\ pc[t] = "step" /\ tip \in Up[pindexMostWork[t]]
        /\ b \in haveData /\ b \in BadConnect
        /\ failedValid' = failedValid \cup {b}
        /\ gFailedBlocks' = gFailedBlocks \cup {b}
        /\ setBlockIndexCandidates' = setBlockIndexCandidates \ {b}
        /\ InvalidChainFound(b)
        /\ Again(t, NULL)
        /\ UNCHANGED <<mapBlockIndex, valid, haveData, haveUndo, failedChild, received,
                       linked, nSequenceId, mapBlocksUnlinked, tip, pindexBestHeader,
                       counters>>

\* The call fails half way: a block cannot be read (AbortNode), or its undo data
\* are not there (DisconnectBlock reports an error and the node runs on).
ReadFails(t) ==
    /\ pc[t] \in {"step", "inval"}
    /\ pc[t] = "inval" => Active(pindexMostWork[t])
    /\ IF pc[t] = "step" /\ tip \in Up[pindexMostWork[t]]
       THEN pindexConnect(t) \notin haveData ELSE ~CanDisconnect
    /\ failedCalls' = failedCalls \cup {t}
    /\ cs_main' = NoThread
    /\ pc' = [pc EXCEPT ![t] = "idle"]
    /\ pindexMostWork' = [pindexMostWork EXCEPT ![t] = NULL]
    /\ pindexOldTip' = [pindexOldTip EXCEPT ![t] = NULL]
    /\ UNCHANGED <<index, sets, tip, best, counters>>

-----------------------------------------------------------------------------
(* The operator's commands.                                                 *)

\* InvalidateBlock(b), holding cs_main throughout ...
InvalidateBlock(t, b) ==
    /\ "invalidate" \in scenario.commands
    /\ Idle(t) /\ b \in mapBlockIndex
    /\ cs_main' = t
    /\ pc' = [pc EXCEPT ![t] = "inval"]
    /\ pindexMostWork' = [pindexMostWork EXCEPT ![t] = b]
    /\ pindexOldTip' = [pindexOldTip EXCEPT ![t] = tip]
    /\ UNCHANGED <<index, sets, tip, best, counters, failedCalls>>

\* ... first disconnects the block ...
InvalidateDisconnect(t) ==
    /\ pc[t] = "inval" /\ Active(pindexMostWork[t]) /\ CanDisconnect
    /\ tip' = pprev[tip]
    /\ UNCHANGED <<index, sets, best, counters, threads>>

\* Mutant: blocks with an incomplete chain are not left out.
AsGoodAsTipIncomplete(marked) ==
    {b \in mapBlockIndex : /\ b \notin Failed \cup marked /\ valid[b] >= TRANSACTIONS
                           /\ ~Worse(nSequenceId, b, tip)}

\* The blocks that are as good as the tip, once those of marked have failed.
AsGoodAsTip(marked) ==
    {b \in linked : /\ b \notin Failed \cup marked /\ valid[b] >= TRANSACTIONS
                    /\ ~Worse(nSequenceId, b, tip)}

\* ... then marks it and what was disconnected on top of it, and makes
\* candidates of the blocks that are now as good as the tip.
InvalidateMark(t) ==
    LET pindex == pindexMostWork[t]
        walked == IF pindex \in Up[pindexOldTip[t]]
                  THEN Up[pindexOldTip[t]] \ Up[pindex] ELSE {}
        back == AsGoodAsTip(walked \cup {pindex})
    IN  /\ pc[t] = "inval" /\ ~Active(pindex)
        /\ failedChild' = failedChild \cup walked
        /\ failedValid' = failedValid \cup {pindex}
        /\ setBlockIndexCandidates' =
              (setBlockIndexCandidates \ (walked \cup {pindex})) \cup back
        /\ gFailedBlocks' = (gFailedBlocks \cup {pindex}) \ back
        /\ InvalidChainFound(pindex)
        /\ Again(t, NULL)
        /\ UNCHANGED <<mapBlockIndex, valid, haveData, haveUndo, received, linked,
                       nSequenceId, mapBlocksUnlinked, tip, pindexBestHeader, counters>>

\* ResetBlockFailureFlags(b): b, its descendants and its ancestors are cleared;
\* b and its descendants may become candidates.
ReconsiderBlock(t, b) ==
    LET cleared == {d \in mapBlockIndex : b \in Up[d] /\ ~IsValid(d, TRANSACTIONS)}
    IN  /\ "reconsider" \in scenario.commands
        /\ Idle(t) /\ b \in mapBlockIndex
        /\ failedValid' = failedValid \ (cleared \cup Up[b])
        /\ failedChild' = failedChild \ (cleared \cup Up[b])
        /\ setBlockIndexCandidates' = setBlockIndexCandidates \cup
              {d \in cleared \cap linked :
                 valid[d] >= TRANSACTIONS /\ Worse(nSequenceId, tip, d)}
        /\ pindexBestInvalid' =
              IF pindexBestInvalid \in cleared THEN NULL ELSE pindexBestInvalid
        /\ ThenActivate(t)
        /\ UNCHANGED <<mapBlockIndex, valid, haveData, haveUndo, received, linked,
                       nSequenceId, mapBlocksUnlinked, gFailedBlocks, tip,
                       pindexBestHeader, counters>>

\* The counter after id was handed out.
NextReverse(id) == id - 1

\* PreciousBlock(b): b is sorted as if it had been received first.  The counter
\* stops at the smallest int32_t in the code, at -MaxPrecious here.
PreciousBlock(t, b) ==
    LET id == IF nChainWork[tip] > nLastPreciousChainwork THEN -1
              ELSE nBlockReverseSequenceId
        seq == [nSequenceId EXCEPT ![b] = id]
        others == setBlockIndexCandidates \ {b}
    IN  /\ "precious" \in scenario.commands
        /\ Idle(t) /\ b \in mapBlockIndex
        /\ nChainWork[b] >= nChainWork[tip]
        /\ id > -MaxPrecious
        /\ nLastPreciousChainwork' = nChainWork[tip]
        /\ nSequenceId' = seq
        /\ nBlockReverseSequenceId' = NextReverse(id)
        /\ setBlockIndexCandidates' =
              IF IsValid(b, TRANSACTIONS) /\ b \in linked
              THEN PruneBlockIndexCandidates(seq, others \cup {b}, tip) ELSE others
        /\ ThenActivate(t)
        /\ UNCHANGED <<mapBlockIndex, valid, haveData, haveUndo, failedValid, failedChild,
                       received, linked, mapBlocksUnlinked, gFailedBlocks, tip, best,
                       nBlockSequenceId>>

\* FlushStateToDisk deletes old block files (one block each here); it is
\* called with cs_main held, also inside ConnectTip and DisconnectTip.
PruneOneBlockFile(b) ==
    /\ "prune" \in scenario.commands
    /\ \A t \in Threads : pc[t] # "find"
    /\ b \in haveData /\ nHeight[b] + MIN_BLOCKS_TO_KEEP <= nHeight[tip]
    /\ haveData' = haveData \ {b}
    /\ haveUndo' = haveUndo \ {b}
    /\ mapBlocksUnlinked' = mapBlocksUnlinked \ {b}
    /\ UNCHANGED <<mapBlockIndex, valid, failedValid, failedChild, received, linked,
                   nSequenceId, setBlockIndexCandidates, gFailedBlocks, tip, best,
                   counters, threads>>

\* What a restart after a clean shutdown finds in the block index database:
\* LoadBlockIndexDB recomputes everything that is not stored.
LoadedChild ==
    {b \in received \ Failed : \E f \in Failed \cap Up[b] : Up[b] \ Up[f] \subseteq received}

LoadedInvalid(F) ==
    IF F = {} THEN NULL
    ELSE CHOOSE b \in F : \A c \in F \ {b} :
            \/ nChainWork[c] < nChainWork[b]
            \/ /\ nChainWork[c] = nChainWork[b]
               /\ \/ nHeight[b] < nHeight[c]
                  \/ nHeight[b] = nHeight[c] /\ address[b] < address[c]

Restart(t) ==
    LET zero == [b \in Blocks |-> 0]
        failed == Failed \cup LoadedChild
        link == {b \in received : Up[b] \subseteq received}
    IN  /\ "restart" \in scenario.commands
        /\ cs_main = NoThread /\ \A u \in Threads : pc[u] = "idle"
        /\ failedChild' = failedChild \cup LoadedChild
        /\ linked' = link
        /\ nSequenceId' = zero
        /\ setBlockIndexCandidates' =
              PruneBlockIndexCandidates(zero,
                  {b \in link \ failed : valid[b] >= TRANSACTIONS}, tip)
        /\ mapBlocksUnlinked' =
              {b \in received \ {Genesis} : pprev[b] \notin link}
        /\ gFailedBlocks' = {}
        /\ pindexBestHeader' = Best(zero, {b \in mapBlockIndex \ failed : valid[b] >= TREE})
        /\ pindexBestInvalid' = LoadedInvalid(failed)
        /\ nBlockSequenceId' = 1 /\ nBlockReverseSequenceId' = -1
        /\ nLastPreciousChainwork' = 0
        /\ ThenActivate(t)
        /\ UNCHANGED <<mapBlockIndex, valid, haveData, haveUndo, failedValid, received, tip>>

-----------------------------------------------------------------------------
Activate(t) ==
    \/ Lock(t) \/ FindMostWorkChain(t) \/ DropCandidate(t)
    \/ DisconnectTip(t) \/ ConnectTip(t) \/ ConnectTipInvalid(t) \/ ReadFails(t)
    \/ InvalidateDisconnect(t) \/ InvalidateMark(t)

Peer(t, b) ==
    \/ AcceptBlockHeader(t, b) \/ RejectHeader(t, b)
    \/ \E fRequested \in BOOLEAN :
          \/ AcceptBlock(t, b, fRequested) \/ AcceptBlockUnwanted(t, b, fRequested)
          \/ \E corrupted \in BOOLEAN : AcceptBlockInvalid(t, b, fRequested, corrupted)

Operator(t, b) ==
    InvalidateBlock(t, b) \/ ReconsiderBlock(t, b) \/ PreciousBlock(t, b)

Next ==
    /\ \/ \E t \in Threads : Activate(t) \/ Restart(t)
       \/ \E t \in Threads, b \in Blocks : Peer(t, b)
       \/ \E t \in Threads, b \in Blocks \ {Genesis} : Operator(t, b)
       \/ \E b \in Blocks : PruneOneBlockFile(b)
    /\ UNCHANGED scenario

Spec == Init /\ [][Next]_<<vars, scenario>>

\* A thread in ActivateBestChain keeps running and gets cs_main eventually,
\* however often others take it.
FairSpec == Spec /\ \A t \in Threads : WF_vars(Activate(t)) /\ SF_vars(Lock(t))

-----------------------------------------------------------------------------
TypeOK ==
    /\ mapBlockIndex \in SUBSET Blocks
    /\ valid \in [Blocks -> {0, TREE, TRANSACTIONS, SCRIPTS}]
    /\ haveData \in SUBSET Blocks /\ haveUndo \in SUBSET Blocks
    /\ failedValid \in SUBSET Blocks /\ failedChild \in SUBSET Blocks
    /\ received \in SUBSET Blocks /\ linked \in SUBSET Blocks
    /\ nSequenceId \in [Blocks -> Int]
    /\ setBlockIndexCandidates \in SUBSET Blocks
    /\ mapBlocksUnlinked \in SUBSET Blocks /\ gFailedBlocks \in SUBSET Blocks
    /\ tip \in Blocks
    /\ pindexBestHeader \in Blocks /\ pindexBestInvalid \in Blocks \cup {NULL}
    /\ nBlockSequenceId \in Nat /\ nBlockReverseSequenceId \in Int /\ nBlockReverseSequenceId < 0
    /\ nLastPreciousChainwork \in Nat
    /\ cs_main \in Threads \cup {NoThread}
    /\ pc \in [Threads -> PCs]
    /\ pindexMostWork \in [Threads -> Blocks \cup {NULL}]
    /\ pindexOldTip \in [Threads -> Blocks \cup {NULL}]
    /\ failedCalls \in SUBSET Threads

\* A thread may take cs_main and call CheckBlockIndex now.  A call that failed
\* half way has left the tip somewhere between two chains; nothing is claimed of
\* the node after that, whether it shuts down (AbortNode) or runs on.
Unlocked == cs_main = NoThread /\ failedCalls = {} /\ \E t \in Threads : pc[t] = "idle"
FirstInvalid(b) == Up[b] \cap failedValid # {}
NeverProcessed(b) == ~(Up[b] \subseteq received)
FirstMissing(b) == ~(Up[b] \subseteq haveData)
fHavePruned == "prune" \in scenario.commands

\* CheckBlockIndex, status and nChainTx: the flags of a block agree with each
\* other and with those of its ancestors, and a chain whose blocks are all there
\* is recognised as complete ("nChainTx != 0 is used to signal that all parent
\* blocks have been processed"), whatever order headers and blocks came in and
\* whatever was pruned and fetched again.
StatusConsistent ==
    TypeOK /\ (Unlocked => \A b \in mapBlockIndex :
        /\ b \notin linked => nSequenceId[b] <= 0
        /\ b \in haveData => b \in received
        /\ ~fHavePruned => (b \in received => b \in haveData)
        /\ b \in haveUndo => b \in haveData
        /\ valid[b] >= TRANSACTIONS <=> b \in received
        /\ b \in linked => ~NeverProcessed(b)
        /\ b \in linked \/ FirstMissing(b)
        /\ valid[b] >= SCRIPTS =>
              \A a \in Up[b] \ {Genesis} : valid[a] >= SCRIPTS
        /\ b \in Failed => FirstInvalid(b))

\* CheckBlockIndex, candidates: setBlockIndexCandidates holds every block that
\* is as good as the tip, not invalid and complete, and nothing that is worse
\* than the tip or incomplete.  A block left out is never activated.
CandidatesExact ==
    Unlocked => \A b \in mapBlockIndex :
        IF ~Worse(nSequenceId, b, tip) /\ ~NeverProcessed(b)
        THEN ~FirstInvalid(b) /\ (~FirstMissing(b) \/ b = tip)
                => b \in setBlockIndexCandidates
        ELSE b \notin setBlockIndexCandidates

\* CheckBlockIndex, mapBlocksUnlinked: a block that waits for an ancestor is
\* found there when the ancestor arrives, and nothing else is.
UnlinkedExact ==
    Unlocked => \A b \in mapBlockIndex \ {Genesis} :
        /\ b \in haveData /\ NeverProcessed(b) /\ ~FirstInvalid(b)
              => b \in mapBlocksUnlinked
        /\ b \notin haveData \/ ~FirstMissing(b) => b \notin mapBlocksUnlinked
        /\ (/\ b \in haveData /\ ~NeverProcessed(b) /\ FirstMissing(b)
            /\ ~Worse(nSequenceId, b, tip) /\ b \notin setBlockIndexCandidates
            /\ ~FirstInvalid(b)) => b \in mapBlocksUnlinked

\* Every stored block is where it will be found: among the candidates, or among
\* the blocks that wait.
WaitingExact == CandidatesExact /\ UnlinkedExact

\* Half of CandidatesExact, which also survives the operator's commands: no
\* candidate is incomplete or worse than the tip, however blocks were failed and
\* cleared, so FindMostWorkChain never moves to a worse chain.
CandidatesSound ==
    Unlocked => \A b \in setBlockIndexCandidates :
        /\ b \in linked /\ valid[b] >= TRANSACTIONS
        /\ ~Worse(nSequenceId, b, tip)

\* "we know all blocks in it are valid already" (FindMostWorkChain): no block
\* of the active chain is marked failed, and all passed script validation.
ActiveChainValid ==
    Unlocked => \A b \in Up[tip] : b \notin Failed /\ (b # Genesis => valid[b] >= SCRIPTS)

\* A block ActivateBestChain could make the tip: complete and really valid.
Activatable(b) ==
    /\ b \in linked /\ Up[b] \subseteq haveData
    /\ Up[b] \cap (Failed \cup BadConnect) = {}

\* "The result is either failure or an activated best chain": when no thread
\* is left in ActivateBestChain no better chain is known.
BestChainActivated ==
    (failedCalls = {} /\ \A t \in Threads : pc[t] = "idle") =>
        \A b \in mapBlockIndex : Activatable(b) => ~Worse(nSequenceId, tip, b)

\* AcceptBlockHeader's assert(failedit->nStatus & BLOCK_FAILED_VALID) holds
\* for every header that may arrive next.
HeaderAssertHolds ==
    Unlocked => \A b \in Blocks \ mapBlockIndex :
        pprev[b] \in mapBlockIndex /\ pprev[b] \notin Failed
            => FailedAncestors(b) \subseteq failedValid

\* The sort key of a candidate does not change under the ordered set: a block
\* that arrives again or is linked late is numbered before it is inserted, never
\* while it is in (ReceivedBlockTransactions, for blocks that mapBlocksUnlinked
\* holds once).  PreciousBlock and a restart, whose keys are not positive, erase
\* it first.
CandidateKeyStable ==
    [][\A b \in setBlockIndexCandidates :
          nSequenceId'[b] # nSequenceId[b] => nSequenceId'[b] <= 0]_vars

\* Activation terminates: no pair of candidates keeps the loop going.
ActivationTerminates == \A t \in Threads : pc[t] = "loop" ~> pc[t] = "idle"
=============================================================================
