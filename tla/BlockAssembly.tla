---------------------------- MODULE BlockAssembly ----------------------------
(***************************************************************************)
(* BlockAssembler (miner.cpp): how a block template is chosen from the     *)
(* memory pool.  CreateNewBlock holds cs_main and the pool's lock, so it   *)
(* sees one state of MemPool; it is a function of that state, except for   *)
(* addPriorityTxs, whose order depends on the age of coins: any order.     *)
(*                                                                         *)
(* The weight of a transaction is its size (no witnesses, no signature     *)
(* operations), and the limit is what the coinbase leaves.                 *)
(***************************************************************************)
EXTENDS MemPool

CONSTANTS
    nBlockMaxWeight,
    blockMinFeeRate,
    MaxPriorityTxs   \* bound: how many transactions -blockprioritysize has room for

BlockWeight(vtx) == Sum(LAMBDA i : Size[vtx[i]], DOMAIN vtx)

(***************************************************************************)
(* addPriorityTxs: each transaction after its parents, while it fits.      *)
(***************************************************************************)
isStillDependent(p, inBlock, t) == ~(p.mapTx[t].parents \subseteq inBlock)

TestForBlock(vtx, height, t) ==
    BlockWeight(vtx) + Size[t] < nBlockMaxWeight /\ CheckFinalTx(height, t)

RECURSIVE addPriorityTxs(_, _, _)
addPriorityTxs(p, height, vtx) ==
    LET ready == {t \in DOMAIN p.mapTx \ ToSet(vtx) :
                     ~isStillDependent(p, ToSet(vtx), t) /\ TestForBlock(vtx, height, t)}
    IN  {vtx} \cup IF Len(vtx) < MaxPriorityTxs
                   THEN UNION {addPriorityTxs(p, height, Append(vtx, t)) : t \in ready}
                   ELSE {}

(***************************************************************************)
(* addPackageTxs.  The assembler's state is the block so far, vtx; mi,     *)
(* what is left of mapTx in the order of ancestor score; mapModifiedTx,    *)
(* the ancestor totals of the entries that have an ancestor in the block;  *)
(* and failedTx.                                                           *)
(***************************************************************************)
\* CompareTxMemPoolEntryByAncestorFee and CompareModifiedEntry: whether s, with
\* totals x, comes before t, with totals y.
BetterPackage(s, x, t, y) ==
    x.fees * y.size > y.fees * x.size \/ (x.fees * y.size = y.fees * x.size /\ s < t)

AncestorScoreOrder(p) ==
    SetToSortSeq(DOMAIN p.mapTx, LAMBDA s, t : BetterPackage(s, p.mapTx[s].anc, t, p.mapTx[t].anc))

\* An entry's first included ancestor is taken off with its modified fee; for the
\* next ones update_for_parent_inclusion takes off the fee without its delta.
ModifiedFor(p, mapModifiedTx, it, desc) ==
    IF desc \in DOMAIN mapModifiedTx
    THEN [size |-> mapModifiedTx[desc].size - Size[it], fees |-> mapModifiedTx[desc].fees - Fee[it]]
    ELSE [size |-> p.mapTx[desc].anc.size - Size[it],
          fees |-> p.mapTx[desc].anc.fees - ModifiedFee(p, it)]

UpdatePackagesForAdded(p, alreadyAdded, mapModifiedTx) ==
    LET include(m, it) ==
            LET descendants == CalculateDescendants(p, {it}) \ alreadyAdded
            IN  [d \in descendants |-> ModifiedFor(p, m, it, d)] @@ m
    IN  FoldLeft(include, mapModifiedTx, SetToSortSeq(alreadyAdded, <))

SkipMapTxEntry(a, t) == t \in DOMAIN a.mapModifiedTx \cup ToSet(a.vtx) \cup a.failedTx

\* Mutant: sorts by id.
SortById(p, package) == SetToSortSeq(package, <)

SortForBlock(p, package) ==
    SetToSortSeq(package, LAMBDA s, t :
        \/ p.mapTx[s].anc.count < p.mapTx[t].anc.count
        \/ p.mapTx[s].anc.count = p.mapTx[t].anc.count /\ s < t)

\* One round of the loop, for entry t with the package totals pkg.
ConsiderPackage(p, height, a, t, pkg, fUsingModified) ==
    LET package == (LinkedAncestors(p, {t}) \ ToSet(a.vtx)) \cup {t}
        passed == IF fUsingModified
                  THEN [a EXCEPT !.mapModifiedTx = Restrict(@, DOMAIN @ \ {t}), !.failedTx = @ \cup {t}]
                  ELSE [a EXCEPT !.mi = Tail(@)]
        rest == IF fUsingModified THEN a.mi ELSE Tail(a.mi)
        kept == Restrict(a.mapModifiedTx, DOMAIN a.mapModifiedTx \ package)
    IN  IF BlockWeight(a.vtx) + pkg.size < nBlockMaxWeight /\ \A s \in package : CheckFinalTx(height, s)
        THEN [a EXCEPT !.vtx = @ \o SortForBlock(p, package), !.mi = rest,
                       !.mapModifiedTx = UpdatePackagesForAdded(p, package, kept)]
        ELSE passed

\* The states of the assembler, the first one a; the last has the template.
RECURSIVE addPackageTxs(_, _, _)
addPackageTxs(p, height, a) ==
    LET M == DOMAIN a.mapModifiedTx
        best == CHOOSE t \in M : \A s \in M \ {t} : BetterPackage(t, a.mapModifiedTx[t], s, a.mapModifiedTx[s])
        fUsingModified ==
            \/ a.mi = <<>>
            \/ M # {} /\ BetterPackage(best, a.mapModifiedTx[best], Head(a.mi), p.mapTx[Head(a.mi)].anc)
        t == IF fUsingModified THEN best ELSE Head(a.mi)
        pkg == IF fUsingModified THEN a.mapModifiedTx[t] ELSE p.mapTx[t].anc
    IN  CASE a.mi = <<>> /\ M = {} -> <<a>>
          [] a.mi # <<>> /\ SkipMapTxEntry(a, Head(a.mi)) ->
                addPackageTxs(p, height, [a EXCEPT !.mi = Tail(@)])
          [] OTHER ->
                IF pkg.fees < GetFee(blockMinFeeRate, pkg.size) THEN <<a>>
                ELSE <<a>> \o addPackageTxs(p, height, ConsiderPackage(p, height, a, t, pkg, fUsingModified))

\* The runs of CreateNewBlock on top of chain c.
CreateNewBlock(p, c) ==
    {addPackageTxs(p, Len(c) + 1,
        [vtx |-> vtx, mi |-> AncestorScoreOrder(p), failedTx |-> {},
         mapModifiedTx |-> UpdatePackagesForAdded(p, ToSet(vtx), <<>>)])
       : vtx \in addPriorityTxs(p, Len(c) + 1, <<>>)}

-----------------------------------------------------------------------------
\* CreateNewBlock never throws: between handlers, whatever way the pool came
\* about, the template is a block that ConnectBlock accepts, each transaction
\* after those it spends, and is lighter than the limit.  While no fee delta is
\* in force, the totals in mapModifiedTx are at every step those of the entry and
\* its ancestors not in the block, for every entry not given up: "updating the
\* feerate of a transaction with its not-yet-selected ancestors as we go"
\* (miner.cpp:439).
TemplateValid ==
    reorg = "none" =>
      \A run \in CreateNewBlock(mempool, chain) :
         /\ ValidBlock(chain, Last(run).vtx)
         /\ BlockWeight(Last(run).vtx) < nBlockMaxWeight
         /\ (\A t \in DOMAIN mempool.mapTx : mempool.mapTx[t].feeDelta = 0) =>
              \A i \in DOMAIN run : \A t \in DOMAIN run[i].mapModifiedTx \ run[i].failedTx :
                 LET left == TotalOf(mempool, LinkedAncestors(mempool, {t}) \ ToSet(run[i].vtx))
                 IN  run[i].mapModifiedTx[t] = [size |-> left.size, fees |-> left.fees]
=============================================================================
