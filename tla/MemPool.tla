------------------------------- MODULE MemPool -------------------------------
(***************************************************************************)
(* The memory pool (txmempool.cpp) and what validation.cpp does to it:     *)
(* AcceptToMemoryPool with replacement and the size limit, the way a block *)
(* that is connected or disconnected changes the pool, the reorganisation's*)
(* clean-up, fee deltas, and mempool.dat.                                  *)
(*                                                                         *)
(* Everything here runs under cs_main, so an action is a whole handler.    *)
(* A reorganisation is several: the pool is looked at by nobody between    *)
(* two of them, but each starts from what the one before has left.         *)
(*                                                                         *)
(* A transaction is a number; the order of the numbers is the order of the *)
(* transaction ids, and says nothing of who spends whom.  A block is the   *)
(* sequence of its transactions, and is identified by the chain that ends  *)
(* with it.  A coinbase is in its block's sequence only if it is in        *)
(* CoinBases: the others are never spent.  Checks of a transaction alone   *)
(* (standardness, signature operations, scripts, -maxtxfee) are passed.  A *)
(* priority, which depends on the age and value of coins, is any: where    *)
(* one decides, both outcomes are possible.  Deltas are deltas of fees.    *)
(* Relative locks are by height.  An entry's memory is its size.           *)
(***************************************************************************)
EXTENDS Integers, FiniteSets, Sequences, SequencesExt

CONSTANTS
    Txs,            \* the transactions, a set of integers
    CoinBases,      \* coinbases that a transaction spends
    Funding,        \* transactions confirmed from the beginning
    vin,            \* vin[t]: the outputs t spends, a sequence of <<tx, n>>
    Fee, Size,      \* of a transaction
    DustFee,        \* what GetRGMDustFee asks for its outputs
    nLockTime,      \* a height, or 0
    nSequence,      \* the relative lock of all of t's inputs; -1: disabled
    OptIn,          \* the transactions that signal replaceability
    nCoinbaseMaturity,
    ancestorLimit, ancestorSizeLimit,     \* -limitancestorcount, -limitancestorsize
    descendantLimit, descendantSizeLimit,
    maxDescendantsToVisit,
    sizelimit,      \* -maxmempool
    incrementalRelayFee, minRelayTxFeeRate, K,  \* a fee rate is a fee for K bytes
    limitfreerelay, \* -limitfreerelay, in bytes: dFreeCount stays below it
    MaxHeight,      \* bound: the height of the chain
    MaxBlockTxs,    \* bound: the transactions of a block
    FeeDeltas,      \* bound: the arguments <<t, delta>> of PrioritiseTransaction
    MaxDelta,       \* bound: on the delta they add up to
    Aged            \* bound: the transactions that may grow older than -mempoolexpiry

ASSUME MemPoolAssumption ==
    /\ Txs \subseteq Nat /\ CoinBases \cap Txs = {}
    /\ \A t \in Txs :
          /\ vin[t] # <<>>
          /\ \A i \in DOMAIN vin[t] : vin[t][i][1] \in (Txs \ {t}) \cup CoinBases \cup Funding
          /\ Size[t] \in Nat \ {0} /\ Fee[t] \in Nat /\ DustFee[t] \in Nat
          /\ nLockTime[t] \in Nat /\ nSequence[t] \in Nat \cup {-1}
    /\ K \in Nat \ {0} /\ incrementalRelayFee \in Nat /\ minRelayTxFeeRate \in Nat
    /\ limitfreerelay \in Nat

VARIABLES
    mempool,   \* the fields of CTxMemPool, and AcceptToMemoryPoolWorker's dFreeCount
    chain,     \* chainActive, without its genesis block
    reorg,     \* the function that has disconnected a block and not finished
    file       \* what is left to load of mempool.dat

vars == <<mempool, chain, reorg, file>>

Prevouts == [t \in Txs |-> ToSet(vin[t])]
Sum(f(_), S) == FoldSet(LAMBDA x, n : f(x) + n, 0, S)

(***************************************************************************)
(* Fee rates.  Divisions truncate.                                         *)
(***************************************************************************)
Quotient(a, b) == IF a < 0 THEN -((-a) \div b) ELSE a \div b

CFeeRate(nFeePaid, nSize) == IF nSize > 0 THEN Quotient(nFeePaid * K, nSize) ELSE 0

GetFee(rate, nSize) ==
    LET nFee == Quotient(rate * nSize, K)
    IN  IF nFee = 0 /\ nSize # 0 /\ rate # 0 THEN (IF rate > 0 THEN 1 ELSE -1) ELSE nFee

(***************************************************************************)
(* The chain and its coins.                                                *)
(***************************************************************************)
Confirmed(c) == UNION {ToSet(c[i]) : i \in DOMAIN c}
HeightOf(c, s) == IF s \in Funding THEN 0 ELSE CHOOSE i \in DOMAIN c : s \in ToSet(c[i])
Spent(c) == UNION {Prevouts[t] : t \in Confirmed(c) \cap Txs}

\* An unspent output in the coins of chain c.
IsAvailable(c, o) == o[1] \in Confirmed(c) \cup Funding /\ o \notin Spent(c)
\* The outputs of t that anyone may spend are those a transaction of Txs spends.
Outputs == [t \in Txs \cup CoinBases \cup Funding |->
               {o \in UNION {Prevouts[s] : s \in Txs} : o[1] = t}]
HaveCoins(c, t) == /\ t \in Confirmed(c) \cup Funding
                   /\ Outputs[t] = {} \/ \E o \in Outputs[t] : IsAvailable(c, o)

CheckFinalTx(height, t) == nLockTime[t] < height

\* Whether coins of coinbases that t spends are mature at the height.
Mature(c, t, height) ==
    \A o \in Prevouts[t] : o[1] \in CoinBases => height - HeightOf(c, o[1]) >= nCoinbaseMaturity

\* The lock points of t: coins of chain c and pool p, below a tip active.
CalculateLockPoints(p, c, active, t) ==
    LET next == Len(active) + 1
        prevheight(o) == CASE nSequence[t] = -1 -> 0
                           [] o[1] \in DOMAIN p.mapTx -> next
                           [] OTHER -> HeightOf(c, o[1])
        heights == {prevheight(o) : o \in Prevouts[t]}
    IN  [height |-> IF nSequence[t] = -1 THEN -1 ELSE Max(heights) + nSequence[t] - 1,
         maxInputBlock |-> SubSeq(active, 1, Max({0} \cup (heights \ {next})))]

\* Mutant: compares heights instead of blocks.
TestLockPointHeight(lp, active) == Len(lp.maxInputBlock) <= Len(active)

TestLockPointValidity(lp, active) == IsPrefix(lp.maxInputBlock, active)
EvaluateSequenceLocks(lp, active) == lp.height < Len(active) + 1

(***************************************************************************)
(* Entries: their own figures, and the totals they keep of their in-pool   *)
(* ancestors and descendants, themselves included.                         *)
(***************************************************************************)
ModifiedFee(p, t) == Fee[t] + p.mapTx[t].feeDelta

\* The figures of the entries of S, summed.
TotalOf(p, S) == [count |-> Cardinality(S), size |-> Sum(LAMBDA t : Size[t], S),
                  fees |-> Sum(LAMBDA t : ModifiedFee(p, t), S)]
Plus(x, y) == [count |-> x.count + y.count, size |-> x.size + y.size, fees |-> x.fees + y.fees]
Minus(x, y) == [count |-> x.count - y.count, size |-> x.size - y.size, fees |-> x.fees - y.fees]

RECURSIVE Reach(_, _)
Reach(next, S) == LET T == S \cup UNION {next[s] : s \in S} IN IF T = S THEN S ELSE Reach(next, T)

\* S and what mapLinks makes its descendants, its ancestors.
CalculateDescendants(p, S) == Reach([s \in DOMAIN p.mapTx |-> p.mapTx[s].children], S)
LinkedAncestors(p, S) == Reach([s \in DOMAIN p.mapTx |-> p.mapTx[s].parents], S)

Parents(p, t) == {s \in DOMAIN p.mapTx : \E o \in Prevouts[t] : o[1] = s}
\* CalculateMemPoolAncestors of a transaction that is not in the pool.
Ancestors(p, t) == LinkedAncestors(p, Parents(p, t))
WithinLimits(p, t) ==
    LET A == Ancestors(p, t)
    IN  /\ Cardinality(A) + 1 <= ancestorLimit \/ A = {}
        /\ Sum(LAMBDA a : Size[a], A) + Size[t] <= ancestorSizeLimit \/ A = {}
        /\ \A a \in A : /\ p.mapTx[a].desc.size + Size[t] <= descendantSizeLimit
                        /\ p.mapTx[a].desc.count + 1 <= descendantLimit

\* The entries that spend an output of t, from mapNextTx.
SpendersIn(p, t) == {p.mapNextTx[o] : o \in {x \in DOMAIN p.mapNextTx : x[1] = t}}

Delta(p, t) == IF t \in DOMAIN p.mapDeltas THEN p.mapDeltas[t] ELSE 0
Links(p) == {<<s, t>> \in (DOMAIN p.mapTx) \X (DOMAIN p.mapTx) : t \in p.mapTx[s].children}

(***************************************************************************)
(* Entering and leaving the pool.                                          *)
(***************************************************************************)
\* addUnchecked: children that are in the pool already are not looked for.
addUnchecked(p, t, lp, setAncestors) ==
    LET own == [count |-> 1, size |-> Size[t], fees |-> Fee[t] + Delta(p, t)]
        parents == Parents(p, t)
        entry == [parents |-> parents, children |-> {}, feeDelta |-> Delta(p, t), lp |-> lp,
                  anc |-> Plus(own, TotalOf(p, setAncestors)), desc |-> own]
        updated(s) ==
            [p.mapTx[s] EXCEPT !.children = IF s \in parents THEN @ \cup {t} ELSE @,
                               !.desc = IF s \in setAncestors THEN Plus(@, own) ELSE @]
    IN  [p EXCEPT !.mapTx = [s \in DOMAIN @ \cup {t} |-> IF s = t THEN entry ELSE updated(s)],
                  !.mapNextTx = @ @@ [o \in Prevouts[t] |-> t],
                  !.cachedInnerUsage = @ + Size[t] + 2 * Cardinality(parents)]

\* RemoveStaged: the totals of the ancestors, and with updateDescendants those
\* of the descendants, are corrected along mapLinks; then the links are cut.
RemoveStaged(p, stage, updateDescendants) ==
    LET below == [t \in stage |-> CalculateDescendants(p, {t}) \ {t}]
        above == [t \in stage |-> LinkedAncestors(p, {t}) \ {t}]
        updated(s) ==
            [p.mapTx[s] EXCEPT !.parents = @ \ stage, !.children = @ \ stage,
               !.desc = Minus(@, TotalOf(p, {t \in stage : s \in above[t]})),
               !.anc = IF updateDescendants THEN Minus(@, TotalOf(p, {t \in stage : s \in below[t]})) ELSE @]
        cut == {l \in Links(p) : l[1] \in stage \/ l[2] \in stage}
    IN  [p EXCEPT !.mapTx = [s \in DOMAIN @ \ stage |-> updated(s)],
                  !.mapNextTx = Restrict(@, DOMAIN @ \ UNION {Prevouts[t] : t \in stage}),
                  !.cachedInnerUsage = @ - Sum(LAMBDA t : Size[t], stage) - 2 * Cardinality(cut)]

ClearPrioritisation(p, t) == [p EXCEPT !.mapDeltas = Restrict(@, DOMAIN @ \ {t})]

\* If t is not in the pool, the transactions that spend its outputs are removed.
removeRecursive(p, t) ==
    LET txToRemove == IF t \in DOMAIN p.mapTx THEN {t} ELSE SpendersIn(p, t)
    IN  RemoveStaged(p, CalculateDescendants(p, txToRemove), FALSE)

removeConflicts(p, t) ==
    LET removeConflict(q, o) ==
            IF o \in DOMAIN q.mapNextTx /\ q.mapNextTx[o] # t
            THEN removeRecursive(ClearPrioritisation(q, q.mapNextTx[o]), q.mapNextTx[o])
            ELSE q
    IN  FoldLeft(removeConflict, p, IF t \in CoinBases THEN <<>> ELSE vin[t])

\* A block was connected.
removeForBlock(p, vtx) ==
    LET removeTx(q, t) ==
            LET r == IF t \in DOMAIN q.mapTx THEN RemoveStaged(q, {t}, TRUE) ELSE q
            IN  ClearPrioritisation(removeConflicts(r, t), t)
    IN  [FoldLeft(removeTx, p, vtx) EXCEPT !.blockSinceLastRollingFeeBump = TRUE, !.shutOut = {}]

SpendsCoinbase(t) == \E o \in Prevouts[t] : o[1] \in CoinBases

\* The block below a disconnected block is the tip: c has both the coins and the tip.
removeForReorg(p, c) ==
    LET missing(t) == \E o \in Prevouts[t] : o[1] \notin DOMAIN p.mapTx /\ ~HaveCoins(c, o[1])
        validLP(t) == TestLockPointValidity(p.mapTx[t].lp, c)
        lp(t) == IF validLP(t) \/ missing(t) THEN p.mapTx[t].lp ELSE CalculateLockPoints(p, c, c, t)
        txToRemove == {t \in DOMAIN p.mapTx :
                          \/ ~CheckFinalTx(Len(c) + 1, t)
                          \/ ~validLP(t) /\ missing(t)
                          \/ ~EvaluateSequenceLocks(lp(t), c)
                          \/ SpendsCoinbase(t) /\ (missing(t) \/ ~Mature(c, t, Len(c) + 1))}
        updated == [p EXCEPT !.mapTx = [t \in DOMAIN @ |-> [@[t] EXCEPT !.lp = lp(t)]]]
    IN  RemoveStaged(updated, CalculateDescendants(p, txToRemove), FALSE)

\* Mutant: sets the links and leaves the totals.
LinkTransactionsFromBlock(p, vHashesToUpdate) ==
    [p EXCEPT
       !.mapTx = [s \in DOMAIN @ |-> [@[s] EXCEPT !.parents = Parents(p, s), !.children = SpendersIn(p, s)]],
       !.cachedInnerUsage = Sum(LAMBDA t : Size[t] + 2 * Cardinality(Parents(p, t)), DOMAIN p.mapTx)]

\* Transactions of a disconnected block are back in the pool: link them to the
\* children that were there before, and correct the totals.  (The cache of
\* descendants that the code keeps from one transaction to the next is left out.)
UpdateTransactionsFromBlock(p, vHashesToUpdate) ==
    LET block == ToSet(vHashesToUpdate)
        update(t, q) ==
            LET children == SpendersIn(q, t) \ block
                fresh == children \ q.mapTx[t].children
                linked == [q EXCEPT
                    !.mapTx = [s \in DOMAIN @ |->
                                 [@[s] EXCEPT !.parents = IF s \in children THEN @ \cup {t} ELSE @,
                                              !.children = IF s = t THEN @ \cup children ELSE @]],
                    !.cachedInnerUsage = @ + 2 * Cardinality(fresh)]
                below == CalculateDescendants(linked, {t}) \ (block \cup {t})
            IN  [linked EXCEPT !.mapTx = [s \in DOMAIN @ |->
                   [@[s] EXCEPT !.anc = IF s \in below THEN Plus(@, TotalOf(linked, {t})) ELSE @,
                                !.desc = IF s = t THEN Plus(@, TotalOf(linked, below)) ELSE @]]]
    IN  FoldRight(update, vHashesToUpdate, p)

\* Also takes t from the history shutOut.
PrioritiseTransaction(p, t, nFeeDelta) ==
    LET q == [p EXCEPT !.mapDeltas = (t :> Delta(p, t) + nFeeDelta) @@ @, !.shutOut = @ \ {t}]
        above == LinkedAncestors(p, {t})
        below == CalculateDescendants(p, {t})
        updated(s) ==
            [p.mapTx[s] EXCEPT !.feeDelta = IF s = t THEN q.mapDeltas[t] ELSE @,
                               !.desc.fees = IF s \in above THEN @ + nFeeDelta ELSE @,
                               !.anc.fees = IF s \in below THEN @ + nFeeDelta ELSE @]
    IN  IF t \in DOMAIN p.mapTx THEN [q EXCEPT !.mapTx = [s \in DOMAIN @ |-> updated(s)]] ELSE q

(***************************************************************************)
(* The size limit and the minimum fee it leads to.                         *)
(***************************************************************************)
\* An entry's place in the index of descendant scores: the better of its own
\* rate and that of it and its descendants, as <<fees, size>>.
DescendantScore(p, t) ==
    LET e == p.mapTx[t]
    IN  IF e.desc.fees * Size[t] > ModifiedFee(p, t) * e.desc.size
        THEN <<e.desc.fees, e.desc.size>> ELSE <<ModifiedFee(p, t), Size[t]>>
Worse(x, y) == x[1] * y[2] < x[2] * y[1]

\* Any of several entries with the lowest score: what orders them is the entry time.
LowestScores(p) == {t \in DOMAIN p.mapTx :
                      \A s \in DOMAIN p.mapTx : ~Worse(DescendantScore(p, s), DescendantScore(p, t))}

trackPackageRemoved(p, rate) ==
    IF rate > p.rollingMinimumFeeRate
    THEN [p EXCEPT !.rollingMinimumFeeRate = rate, !.blockSinceLastRollingFeeBump = FALSE]
    ELSE p

\* History: shutOut has the entries removed since the last block whose package
\* pays at least the rate they pay themselves, if a minimum fee that does not decay
\* was left, and the increment is not lost in its rounding.
ShutsOut(p, q, t) ==
    /\ ~q.blockSinceLastRollingFeeBump /\ q.rollingMinimumFeeRate > 0
    /\ ~Worse(<<p.mapTx[t].desc.fees, p.mapTx[t].desc.size>>, <<ModifiedFee(p, t), Size[t]>>)
    /\ K <= (incrementalRelayFee - 1) * Size[t] + 1

\* The package of t is removed, for which the pool keeps the rate.
RemovePackage(p, t, rate) ==
    LET q == trackPackageRemoved(p, rate)
    IN  [RemoveStaged(q, CalculateDescendants(p, {t}), FALSE) EXCEPT
           !.shutOut = IF ShutsOut(p, q, t) THEN @ \cup {t} ELSE @]

\* Mutant: does not add the incremental fee to the rate of what it removes.
EvictWithoutIncrement(p, t) ==
    RemovePackage(p, t, CFeeRate(p.mapTx[t].desc.fees, p.mapTx[t].desc.size))

Evict(p, t) ==
    RemovePackage(p, t, CFeeRate(p.mapTx[t].desc.fees, p.mapTx[t].desc.size) + incrementalRelayFee)

RECURSIVE TrimToSize(_)
TrimToSize(p) ==
    IF DOMAIN p.mapTx # {} /\ p.cachedInnerUsage > sizelimit
    THEN UNION {TrimToSize(Evict(p, t)) : t \in LowestScores(p)}
    ELSE {p}

\* The entries older than the limit, and their descendants, are removed.
Expire(p, old) == RemoveStaged(p, CalculateDescendants(p, old), FALSE)

LimitMempoolSize(p) ==
    UNION {TrimToSize(Expire(p, old)) : old \in SUBSET (Aged \cap DOMAIN p.mapTx)}

\* What GetMinFee returns if no time has passed since it was last called.
GetMinFee(p) ==
    IF ~p.blockSinceLastRollingFeeBump \/ p.rollingMinimumFeeRate = 0
    THEN p.rollingMinimumFeeRate
    ELSE Max({p.rollingMinimumFeeRate, incrementalRelayFee})

(***************************************************************************)
(* AcceptToMemoryPool.  c has the coins of pcoinsTip and active is         *)
(* chainActive: they differ while DisconnectTip runs.                      *)
(***************************************************************************)
Conflicts(p, t) == {p.mapNextTx[o] : o \in Prevouts[t] \cap DOMAIN p.mapNextTx}

InputsAcceptable(p, c, active, t) ==
    /\ CheckFinalTx(Len(active) + 1, t)
    /\ t \notin DOMAIN p.mapTx /\ ~HaveCoins(c, t)
    /\ Conflicts(p, t) \subseteq OptIn
    /\ \A o \in Prevouts[t] : o[1] \in DOMAIN p.mapTx \/ IsAvailable(c, o)
    /\ EvaluateSequenceLocks(CalculateLockPoints(p, c, active, t), active)

PaysMinFee(p, t) ==
    LET mempoolRejectFee == GetFee(GetMinFee(p), Size[t])
    IN  mempoolRejectFee > 0 => Fee[t] + Delta(p, t) >= mempoolRejectFee

\* Less than the fee for its size: -relaypriority asks for priority instead.
NeedsPriority(p, t) == Fee[t] + Delta(p, t) < GetFee(minRelayTxFeeRate, Size[t])

GetRGMMinRelayFee(p, t) ==
    IF Delta(p, t) > 0 THEN 0 ELSE GetFee(minRelayTxFeeRate, Size[t]) + DustFee[t]
IsFree(p, t) == Fee[t] + Delta(p, t) < GetRGMMinRelayFee(p, t)

MayReplace(p, t) ==
    LET setConflicts == Conflicts(p, t)
        allConflicting == CalculateDescendants(p, setConflicts)
        nConflictingFees == TotalOf(p, allConflicting).fees
        nModifiedFees == Fee[t] + Delta(p, t)
        setConflictsParents == {o[1] : o \in UNION {Prevouts[s] : s \in setConflicts}}
    IN  setConflicts # {} =>
          /\ setConflicts \cap Ancestors(p, t) = {}
          /\ \A s \in setConflicts : CFeeRate(nModifiedFees, Size[t]) > CFeeRate(ModifiedFee(p, s), Size[s])
          /\ Sum(LAMBDA s : p.mapTx[s].desc.count, setConflicts) <= maxDescendantsToVisit
          /\ \A o \in Prevouts[t] : o[1] \in DOMAIN p.mapTx => o[1] \in setConflictsParents
          /\ nModifiedFees - nConflictingFees >= Max({0, GetFee(incrementalRelayFee, Size[t])})

\* What follows the checks of the fee.
AddToMemoryPool(p, c, active, t, fOverrideMempoolLimit) ==
    LET allConflicting == CalculateDescendants(p, Conflicts(p, t))
        added == addUnchecked(RemoveStaged(p, allConflicting, FALSE), t,
                              CalculateLockPoints(p, c, active, t), Ancestors(p, t))
    IN  CASE ~(WithinLimits(p, t) /\ MayReplace(p, t) /\ Mature(c, t, Len(c) + 1)) -> {p}
          [] fOverrideMempoolLimit -> {added}
          [] OTHER -> LimitMempoolSize(added)

\* The limiter of free transactions: dFreeCount has decayed by any amount since it
\* was last used.  A transaction counts also if it is refused later on.
AcceptToMemoryPool(p, c, active, t, fLimitFree, fOverrideMempoolLimit) ==
    LET limited == fLimitFree /\ IsFree(p, t)
        decayed == IF limited THEN 0 .. p.dFreeCount ELSE {p.dFreeCount}
        after(n) ==
            CASE ~limited -> AddToMemoryPool(p, c, active, t, fOverrideMempoolLimit)
              [] limited /\ n + Size[t] >= limitfreerelay -> {[p EXCEPT !.dFreeCount = n]}
              [] OTHER -> AddToMemoryPool([p EXCEPT !.dFreeCount = n + Size[t]], c, active, t,
                                          fOverrideMempoolLimit)
    IN  IF InputsAcceptable(p, c, active, t) /\ PaysMinFee(p, t)
        THEN UNION {after(n) : n \in decayed} \cup (IF NeedsPriority(p, t) THEN {p} ELSE {})
        ELSE {p}

(***************************************************************************)
(* Blocks that ConnectBlock accepts on top of chain c.                     *)
(***************************************************************************)
\* Whether t may follow the transactions vtx in such a block.
ValidNext(c, vtx, t) ==
    LET height == Len(c) + 1
        before == Append(c, vtx)
    IN  /\ t \notin Confirmed(before)
        /\ t \in CoinBases => vtx = <<>>
        /\ t \in Txs =>
              /\ CheckFinalTx(height, t)
              /\ \A o \in Prevouts[t] : IsAvailable(before, o)
              /\ nSequence[t] # -1 =>
                    \A o \in Prevouts[t] : HeightOf(before, o[1]) + nSequence[t] - 1 < height
              /\ Mature(before, t, height)

ValidBlock(c, vtx) == \A i \in DOMAIN vtx : ValidNext(c, SubSeq(vtx, 1, i - 1), vtx[i])

Blocks == {vtx \in BoundedSeq(Txs \cup CoinBases, MaxBlockTxs) : IsInjective(vtx)}

\* The blocks that are valid on c, those of n + 1 transactions from those of n.
ValidBlocks(c) ==
    LET longer(B) == UNION {{Append(vtx, t) : t \in {s \in Txs \cup CoinBases : ValidNext(c, vtx, s)}} :
                               vtx \in {v \in B : Len(v) < MaxBlockTxs}}
    IN  FoldSet(LAMBDA n, B : B \cup longer(B), {<<>>}, 1 .. MaxBlockTxs)

(***************************************************************************)
(* The handlers.                                                           *)
(***************************************************************************)
EmptyPool ==
    [mapTx |-> <<>>, mapNextTx |-> <<>>, mapDeltas |-> <<>>, cachedInnerUsage |-> 0,
     rollingMinimumFeeRate |-> 0, blockSinceLastRollingFeeBump |-> FALSE, shutOut |-> {},
     dFreeCount |-> 0]
NoFile == [txs |-> <<>>, mapDeltas |-> <<>>]

Init ==
    /\ mempool = EmptyPool /\ chain = <<>>
    /\ reorg = "none" /\ file = NoFile

\* A transaction from a peer or the wallet (fLimitFree), or from sendrawtransaction.
Receive(t) ==
    /\ reorg = "none"
    /\ \E fLimitFree \in BOOLEAN :
          mempool' \in AcceptToMemoryPool(mempool, chain, chain, t, fLimitFree, FALSE)
    /\ UNCHANGED <<chain, reorg, file>>

\* ActivateBestChainStep ("step") or InvalidateBlock ("invalidate") takes the tip
\* away.  The coins are those below it, chainActive still ends with it.
DisconnectTip(why) ==
    /\ chain # <<>>
    /\ reorg \in {"none", why} /\ reorg' = why
    /\ LET vtx == Last(chain)
           coins == Front(chain)
           accept(p, t) == IF t \in CoinBases THEN {p}
                           ELSE AcceptToMemoryPool(p, coins, chain, t, FALSE, TRUE)
           resurrect(P, t) == {IF t \in DOMAIN q.mapTx THEN q ELSE removeRecursive(q, t) :
                                  q \in UNION {accept(p, t) : p \in P}}
           vHashUpdate(p) == SelectSeq(vtx, LAMBDA t : t \in DOMAIN p.mapTx)
       IN  /\ mempool' \in {UpdateTransactionsFromBlock(p, vHashUpdate(p)) :
                                p \in FoldLeft(resurrect, {mempool}, vtx)}
           /\ chain' = coins
    /\ UNCHANGED file

ConnectTip ==
    /\ reorg \in {"none", "step"}
    /\ Len(chain) < MaxHeight
    /\ \E vtx \in ValidBlocks(chain) :
          /\ mempool' = removeForBlock(mempool, vtx)
          /\ chain' = Append(chain, vtx)
    /\ UNCHANGED <<reorg, file>>

\* The end of ActivateBestChainStep, when it has disconnected a block.
EndStep ==
    /\ reorg = "step" /\ reorg' = "none"
    /\ mempool' \in LimitMempoolSize(removeForReorg(mempool, chain))
    /\ UNCHANGED <<chain, file>>

\* The end of InvalidateBlock: the same two calls in the other order.
EndInvalidate ==
    /\ reorg = "invalidate" /\ reorg' = "none"
    /\ mempool' \in {removeForReorg(p, chain) : p \in LimitMempoolSize(mempool)}
    /\ UNCHANGED <<chain, file>>

\* The fee delta of t in what is left of the file.
DeltaInFile(t) ==
    Delta(file, t) + Sum(LAMBDA i : IF file.txs[i].tx = t THEN file.txs[i].nFeeDelta ELSE 0,
                         DOMAIN file.txs)

Prioritise(t, nFeeDelta) ==
    /\ reorg = "none"
    /\ Delta(mempool, t) + nFeeDelta \in -MaxDelta .. MaxDelta
    /\ Delta(mempool, t) + nFeeDelta + DeltaInFile(t) \in -MaxDelta .. MaxDelta
    /\ mempool' = PrioritiseTransaction(mempool, t, nFeeDelta)
    /\ UNCHANGED <<chain, reorg, file>>

\* GetMinFee, some time after its last call: the rate has decayed by any amount.
Decay ==
    /\ reorg = "none"
    /\ mempool.blockSinceLastRollingFeeBump
    /\ \E rate \in 0 .. mempool.rollingMinimumFeeRate - 1 :
          mempool' = [mempool EXCEPT !.rollingMinimumFeeRate =
                        IF 2 * rate < incrementalRelayFee THEN 0 ELSE rate]
    /\ UNCHANGED <<chain, reorg, file>>

\* CompareTxMemPoolEntryByScore and DepthAndScoreComparator.
ByScore(p, s, t) ==
    LET f1 == ModifiedFee(p, s) * Size[t]
        f2 == ModifiedFee(p, t) * Size[s]
    IN  f1 > f2 \/ (f1 = f2 /\ t < s)
\* Mutant: leaves out the depth.
ByScoreOnly(p, s, t) == ByScore(p, s, t)

ByDepthAndScore(p, s, t) ==
    \/ p.mapTx[s].anc.count < p.mapTx[t].anc.count
    \/ p.mapTx[s].anc.count = p.mapTx[t].anc.count /\ ByScore(p, s, t)
GetSortedDepthAndScore(p) == SetToSortSeq(DOMAIN p.mapTx, LAMBDA s, t : ByDepthAndScore(p, s, t))

\* What DumpMempool writes: the entries with their deltas, and the other deltas.
DumpMempool(p) ==
    LET vinfo == GetSortedDepthAndScore(p)
    IN  [txs |-> [i \in DOMAIN vinfo |-> [tx |-> vinfo[i], nFeeDelta |-> p.mapTx[vinfo[i]].feeDelta]],
         mapDeltas |-> Restrict(p.mapDeltas, DOMAIN p.mapDeltas \ DOMAIN p.mapTx)]

\* The node stops and starts again.
Restart ==
    /\ reorg = "none" /\ file = NoFile
    /\ file' = DumpMempool(mempool)
    /\ mempool' = EmptyPool
    /\ UNCHANGED <<chain, reorg>>

\* LoadMempool's treatment of one record of the file; it may be too old.
LoadRecord(p, c, record) ==
    LET q == IF record.nFeeDelta = 0 THEN p ELSE PrioritiseTransaction(p, record.tx, record.nFeeDelta)
    IN  AcceptToMemoryPool(q, c, c, record.tx, TRUE, FALSE) \cup (IF record.tx \in Aged THEN {q} ELSE {})

LoadDeltas(p, mapDeltas) ==
    FoldSet(LAMBDA t, q : PrioritiseTransaction(q, t, mapDeltas[t]), p, DOMAIN mapDeltas)

\* Other handlers run between two records.
LoadMempool ==
    /\ reorg = "none" /\ file # NoFile
    /\ \/ /\ file.txs # <<>>
          /\ mempool' \in LoadRecord(mempool, chain, Head(file.txs))
          /\ file' = [file EXCEPT !.txs = Tail(@)]
       \/ /\ file.txs = <<>>
          /\ mempool' = LoadDeltas(mempool, file.mapDeltas)
          /\ file' = NoFile
    /\ UNCHANGED <<chain, reorg>>

Next ==
    \/ \E t \in Txs : Receive(t)
    \/ \E why \in {"step", "invalidate"} : DisconnectTip(why)
    \/ ConnectTip
    \/ EndStep
    \/ EndInvalidate
    \/ \E d \in FeeDeltas : Prioritise(d[1], d[2])
    \/ Decay
    \/ Restart
    \/ LoadMempool

Spec == Init /\ [][Next]_vars

-----------------------------------------------------------------------------
(***************************************************************************)
(* Properties.                                                             *)
(***************************************************************************)
Totals == [count : Nat \ {0}, size : Nat \ {0}, fees : Int]

\* Every field has its type; the asserts of UpdateAncestorState and
\* UpdateDescendantState hold: counts and sizes stay positive.
TypeOK ==
    /\ DOMAIN mempool.mapTx \subseteq Txs
    /\ \A t \in DOMAIN mempool.mapTx :
          LET e == mempool.mapTx[t]
          IN  /\ e.parents \cup e.children \subseteq DOMAIN mempool.mapTx
              /\ e.anc \in Totals /\ e.desc \in Totals /\ e.feeDelta \in Int
    /\ \A o \in DOMAIN mempool.mapNextTx : mempool.mapNextTx[o] \in DOMAIN mempool.mapTx
    /\ DOMAIN mempool.mapDeltas \subseteq Txs
    /\ mempool.cachedInnerUsage \in Nat /\ mempool.rollingMinimumFeeRate \in Nat
    /\ mempool.dFreeCount \in 0 .. limitfreerelay
    /\ chain \in Seq(Blocks) /\ reorg \in {"none", "step", "invalidate"}

\* Who spends whom, from the inputs alone.
SpentIn(p) == [t \in DOMAIN p.mapTx |-> Parents(p, t)]
SpentBy(p) == [t \in DOMAIN p.mapTx |-> {s \in DOMAIN p.mapTx : t \in Parents(p, s)}]

\* CTxMemPool::check, txmempool.cpp:642: the links are those of the inputs, each
\* spent output is recorded with its one spender, each input is a coin or an
\* output of the pool, and cachedInnerUsage adds up.  The running totals, which
\* addUnchecked, RemoveStaged, PrioritiseTransaction and
\* UpdateTransactionsFromBlock correct step by step, are the sums over the
\* ancestors and over the descendants, with the fee deltas now in force.  It
\* holds after every handler, in the middle of a reorganisation too.
PoolConsistent ==
    LET p == mempool
        up == SpentIn(p)
        down == SpentBy(p)
    IN  /\ TypeOK
        /\ \A t \in DOMAIN p.mapTx :
              /\ p.mapTx[t].parents = up[t] /\ p.mapTx[t].children = down[t]
              /\ \A o \in Prevouts[t] :
                    /\ o \in DOMAIN p.mapNextTx /\ p.mapNextTx[o] = t
                    /\ o[1] \in DOMAIN p.mapTx \/ IsAvailable(chain, o)
              /\ p.mapTx[t].anc = TotalOf(p, Reach(up, {t}))
              /\ p.mapTx[t].desc = TotalOf(p, Reach(down, {t}))
              /\ p.mapTx[t].feeDelta = Delta(p, t)
        /\ DOMAIN p.mapNextTx = UNION {Prevouts[t] : t \in DOMAIN p.mapTx}
        /\ DOMAIN p.mapTx \cap Confirmed(chain) = {}
        /\ p.cachedInnerUsage =
              Sum(LAMBDA t : Size[t], DOMAIN p.mapTx) + 2 * Sum(LAMBDA t : Cardinality(up[t]), DOMAIN p.mapTx)

\* Between handlers every entry may be mined in the next block, its ancestors
\* first: it is final, its relative locks have passed and the coinbases it
\* spends are mature, whatever reorganisations have moved below it
\* (removeForReorg, txmempool.cpp:536, with lock points cached at entry).
NextBlockReady ==
    reorg = "none" =>
      \A t \in DOMAIN mempool.mapTx :
         /\ CheckFinalTx(Len(chain) + 1, t)
         /\ EvaluateSequenceLocks(CalculateLockPoints(mempool, chain, chain, t), chain)
         /\ Mature(chain, t, Len(chain) + 1)

\* What the rolling minimum fee is for (TrimToSize, txmempool.cpp:1122): an entry
\* removed with its descendants to make room does not enter again before the next
\* block, and so neither do they, unless a delta was added to its fee, or it paid a
\* higher rate than its package.
EvictedStayOut == mempool.shutOut \cap DOMAIN mempool.mapTx = {}

RECURSIVE LoadAll(_, _, _)
LoadAll(P, c, txs) ==
    IF txs = <<>> THEN P ELSE LoadAll(UNION {LoadRecord(p, c, Head(txs)) : p \in P}, c, Tail(txs))

\* What a pool holds of the entries of S, without lock points.
Entries(p, S) ==
    [t \in S |-> [f \in {"parents", "children", "feeDelta", "anc", "desc"} |-> p.mapTx[t][f]]]

\* Loading mempool.dat right after writing it (DumpMempool, LoadMempool) gives back
\* every entry, with its links, totals and delta, and every other delta, except for
\* those that are too old or that the limits on free transactions refuse, and their
\* descendants.  A pool that a reorganisation has left beyond the limits of
\* acceptance is not spoken of.
ReloadsWhole ==
    LET p == mempool
        whole == /\ p.cachedInnerUsage <= sizelimit
                 /\ \A t \in DOMAIN p.mapTx :
                       /\ p.mapTx[t].anc.count <= ancestorLimit /\ p.mapTx[t].anc.size <= ancestorSizeLimit
                       /\ p.mapTx[t].desc.count <= descendantLimit /\ p.mapTx[t].desc.size <= descendantSizeLimit
        refusable == {t \in DOMAIN p.mapTx : t \in Aged \/ NeedsPriority(p, t) \/ IsFree(p, t)}
        dump == DumpMempool(p)
    IN  reorg = "none" /\ whole =>
          \A q \in LoadAll({EmptyPool}, chain, dump.txs) :
             LET lost == DOMAIN p.mapTx \ DOMAIN q.mapTx
             IN  /\ lost \subseteq CalculateDescendants(p, refusable \cap lost)
                 /\ Entries(q, DOMAIN q.mapTx) = Entries(RemoveStaged(p, lost, FALSE), DOMAIN q.mapTx)
                 /\ \A t \in Txs : Delta(LoadDeltas(q, dump.mapDeltas), t) = Delta(p, t)
=============================================================================
