----------------------------- MODULE OrphanPool -----------------------------
(***************************************************************************)
(* Transactions whose parents are not known yet (net_processing.cpp): the  *)
(* orphan maps, the per-peer work sets of orphans to try again, and the    *)
(* filter of recent rejections, as the TX message, ProcessMessages, block  *)
(* connection and disconnecting peers change them.  A handler runs under   *)
(* cs_main and is one step.                                                *)
(*                                                                         *)
(* Transactions are numbered in the order of their hashes, in which a work *)
(* set is processed.  AcceptToMemoryPool is reduced to the verdicts the    *)
(* handlers tell apart (MemPool models it in full); fees, limits and       *)
(* replacement are left out, as are witnesses, relay and requests.         *)
(***************************************************************************)
EXTENDS Integers, FiniteSets

CONSTANTS OrphanPeers,
          Txs,          \* 1 .. n; a transaction's parents have smaller numbers
          Spends,       \* prevouts of each: pairs <<transaction, output>>, 0 is an old coin
          Outs,         \* number of outputs of each
          InvalidTx,    \* transactions whose scripts fail
          Big,          \* weight of MAX_STANDARD_TX_WEIGHT or more
          nMaxOrphanTx

ASSUME OrphanPoolAssumption ==
    /\ Txs \subseteq Nat \ {0} /\ InvalidTx \subseteq Txs /\ Big \subseteq Txs
    /\ nMaxOrphanTx \in Nat

VARIABLES
    mapOrphanTransactions,       \* orphan -> the peer it came from
    mapOrphanTransactionsByPrev, \* prevout -> orphans that spend it
    orphan_work_set,             \* of each peer
    recentRejects, rejectsStale, \* the filter; the tip is not hashRecentRejectsChainTip
    mempoolTxs, confirmed,       \* the memory pool, the active chain
    peersOn,                     \* peers connected
    punished, lied,              \* peers Misbehaving was called for, and that sent invalid ones
    stranded                     \* orphans whose parents came without a message to try them for

orphanVars == <<mapOrphanTransactions, mapOrphanTransactionsByPrev, orphan_work_set,
                recentRejects, rejectsStale, mempoolTxs, confirmed, peersOn, punished, lied,
                stranded>>

Orphans == DOMAIN mapOrphanTransactions
Prevouts == UNION {Spends[t] : t \in Txs}
Creators(t) == {o[1] : o \in Spends[t]}
AncestorsOf[t \in Txs] == {t} \cup UNION {AncestorsOf[u] : u \in Creators(t) \ {0}}

OrphanInit ==
    /\ mapOrphanTransactions = <<>> /\ mapOrphanTransactionsByPrev = [o \in Prevouts |-> {}]
    /\ orphan_work_set = [p \in OrphanPeers |-> {}]
    /\ recentRejects = {} /\ rejectsStale = FALSE
    /\ mempoolTxs = {} /\ confirmed = {} /\ peersOn = OrphanPeers
    /\ punished = {} /\ lied = {} /\ stranded = {}

-----------------------------------------------------------------------------
(* AcceptToMemoryPool, as far as its callers here look.                     *)

SpentBy(S) == UNION {Spends[t] : t \in S}

\* A transaction has coins while an output of it is unspent.
HaveCoinsOf(h, pool) ==
    h = 0 \/ h \in pool \/ (h \in confirmed /\ \E n \in 1 .. Outs[h] : <<h, n>> \notin SpentBy(confirmed))

Verdict(t, pool) ==
    IF t \in pool \/ Spends[t] \cap SpentBy(pool) # {} \/ HaveCoinsOf(t, {}) THEN "rejected"
    ELSE IF \E h \in Creators(t) : ~HaveCoinsOf(h, pool) THEN "missing"
    ELSE IF Spends[t] \cap SpentBy(confirmed) # {} THEN "rejected"
    ELSE IF t \in InvalidTx THEN "invalid" ELSE "accepted"

-----------------------------------------------------------------------------
(* The two maps, updated together.                                          *)

\* Mutant: the index by prevout keeps one of the entries.
EraseFirstPrev(S, byPrev) ==
    [o \in Prevouts |-> byPrev[o] \ {t \in S : o[2] = 1}]

\* EraseOrphanTx for each of S: the index forgets them at every prevout.
ErasePrev(S, byPrev) == [o \in Prevouts |-> byPrev[o] \ S]

EraseOrphans(S) ==
    /\ mapOrphanTransactions' = [t \in Orphans \ S |-> mapOrphanTransactions[t]]
    /\ mapOrphanTransactionsByPrev' = ErasePrev(S \cap Orphans, mapOrphanTransactionsByPrev)

Limited(all) == {S \in SUBSET all : Cardinality(S) <= nMaxOrphanTx}

\* AddOrphanTx, then LimitOrphanTxSize: what has expired is swept out when a
\* sweep is due, then random ones go until the limit holds.
AddOrphanTx(t, p) ==
    LET all == Orphans \cup {t} IN
    \E unexpired \in {S \in SUBSET all : t \in S} :
    \E kept \in Limited(unexpired) :
        /\ Cardinality(unexpired) <= nMaxOrphanTx => kept = unexpired
        /\ Cardinality(unexpired) > nMaxOrphanTx => Cardinality(kept) >= nMaxOrphanTx
        /\ mapOrphanTransactions' =
               [u \in kept |-> IF u = t THEN p ELSE mapOrphanTransactions[u]]
        /\ mapOrphanTransactionsByPrev' =
               ErasePrev(all \ kept, [o \in Prevouts |->
                   mapOrphanTransactionsByPrev[o] \cup (IF o \in Spends[t] THEN {t} ELSE {})])

\* LimitOrphanTxSize when AddOrphanTx kept nothing: the limit holds as it is, and
\* only a sweep that is due takes orphans away.
SweepOrphans == \E expired \in SUBSET Orphans : EraseOrphans(expired)

\* Orphans that spend an output of an accepted transaction.
Children(t) == UNION {mapOrphanTransactionsByPrev[o] : o \in {o \in Prevouts : o[1] = t}}

-----------------------------------------------------------------------------

\* The peer that gave us the orphan.
FromPeer(t, p) == mapOrphanTransactions[t]

AddedWork(t) == Children(t)

\* ProcessOrphanTx on a work set of p: entries are taken in order and dropped
\* while they are gone or still miss inputs; the first that is accepted or
\* refused ends the call.
ProcessOrphanTx(p, work, pool, rejects) ==
    LET decided == {t \in work \cap Orphans : Verdict(t, pool) # "missing"} IN
    IF decided = {}
    THEN /\ orphan_work_set' = [orphan_work_set EXCEPT ![p] = {}]
         /\ mempoolTxs' = pool /\ recentRejects' = rejects
         /\ UNCHANGED <<mapOrphanTransactions, mapOrphanTransactionsByPrev, punished>>
    ELSE LET t == CHOOSE t \in decided : \A u \in decided : t <= u
             rest == {u \in work : u > t}
             verdict == Verdict(t, pool)
         IN  /\ orphan_work_set' = [orphan_work_set EXCEPT ![p] =
                    IF verdict = "accepted" THEN rest \cup AddedWork(t) ELSE rest]
             /\ mempoolTxs' = (IF verdict = "accepted" THEN pool \cup {t} ELSE pool)
             /\ recentRejects' = (IF verdict = "accepted" THEN rejects ELSE rejects \cup {t})
             /\ punished' = (IF verdict = "invalid" THEN punished \cup {FromPeer(t, p)}
                                                    ELSE punished)
             /\ EraseOrphans({t})

\* Mutant: only the TX message tries orphans, ProcessMessages does not.
ProcessOrphansNever(p) == FALSE /\ UNCHANGED orphanVars

\* The start of ProcessMessages: one call while the work set is not empty.
ProcessOrphans(p) ==
    /\ p \in peersOn /\ orphan_work_set[p] # {}
    /\ ProcessOrphanTx(p, orphan_work_set[p], mempoolTxs, recentRejects)
    /\ stranded' = stranded \cap DOMAIN mapOrphanTransactions'
    /\ UNCHANGED <<rejectsStale, confirmed, peersOn, lied>>

\* The TX message, which ProcessMessages takes only when the work set is empty.
\* AlreadyHave resets the filter first when the tip has changed.
TxMessage(p, t) ==
    LET rejects == IF rejectsStale THEN {} ELSE recentRejects
        have == t \in rejects \/ t \in mempoolTxs \/ t \in Orphans \/ HaveCoinsOf(t, {})
        verdict == IF have THEN "known" ELSE Verdict(t, mempoolTxs)
    IN
    /\ p \in peersOn /\ orphan_work_set[p] = {}
    /\ rejectsStale' = FALSE
    /\ lied' = (IF t \in InvalidTx THEN lied \cup {p} ELSE lied)
    /\ \/ /\ verdict = "accepted"
          /\ ProcessOrphanTx(p, AddedWork(t), mempoolTxs \cup {t}, rejects)
       \/ /\ verdict = "missing"
          /\ IF Creators(t) \cap rejects # {}
             THEN /\ recentRejects' = rejects \cup {t}
                  /\ UNCHANGED <<mapOrphanTransactions, mapOrphanTransactionsByPrev>>
             ELSE /\ recentRejects' = rejects
                  /\ IF t \in Big THEN SweepOrphans ELSE AddOrphanTx(t, p)
          /\ UNCHANGED <<orphan_work_set, mempoolTxs, punished>>
       \/ /\ verdict \in {"known", "rejected", "invalid"}
          /\ recentRejects' = rejects \cup {t}
          /\ punished' = (IF verdict = "invalid" THEN punished \cup {p} ELSE punished)
          /\ UNCHANGED <<mapOrphanTransactions, mapOrphanTransactionsByPrev, orphan_work_set,
                         mempoolTxs>>
    /\ stranded' = stranded \cap DOMAIN mapOrphanTransactions'
    /\ UNCHANGED <<confirmed, peersOn>>

-----------------------------------------------------------------------------
\* The RPC server or the wallet adds a transaction: nobody looks at orphans.
LocalTransaction(t) ==
    /\ Verdict(t, mempoolTxs) = "accepted"
    /\ mempoolTxs' = mempoolTxs \cup {t}
    /\ stranded' = stranded \cup Children(t)
    /\ UNCHANGED <<mapOrphanTransactions, mapOrphanTransactionsByPrev, orphan_work_set,
                   recentRejects, rejectsStale, confirmed, peersOn, punished, lied>>

\* SyncTransaction: orphans that spend what t spends.
PrecludedOrphans(t) == UNION {mapOrphanTransactionsByPrev[o] : o \in Spends[t]}

\* A block with t becomes the tip.  The memory pool drops it, what conflicts
\* with it, and everything that descends from that.
BlockConnected(t) ==
    LET conflicts == {u \in mempoolTxs \ {t} : Spends[u] \cap Spends[t] # {}} IN
    /\ t \notin confirmed \cup InvalidTx /\ Creators(t) \subseteq confirmed \cup {0}
    /\ Spends[t] \cap SpentBy(confirmed) = {}
    /\ confirmed' = confirmed \cup {t} /\ rejectsStale' = TRUE
    /\ mempoolTxs' = {u \in mempoolTxs \ {t} : AncestorsOf[u] \cap conflicts = {}}
    /\ EraseOrphans(PrecludedOrphans(t))
    /\ stranded' = (stranded \cup Children(t)) \cap DOMAIN mapOrphanTransactions'
    /\ UNCHANGED <<orphan_work_set, recentRejects, peersOn, punished, lied>>

OrphansFor(p) == {t \in Orphans : mapOrphanTransactions[t] = p}

\* FinalizeNode and the deletion of the CNode, whose work set goes with it.
DisconnectPeer(p) ==
    /\ p \in peersOn /\ peersOn' = peersOn \ {p}
    /\ EraseOrphans(OrphansFor(p))
    /\ orphan_work_set' = [orphan_work_set EXCEPT ![p] = {}]
    /\ stranded' = (stranded \cup orphan_work_set[p]) \cap DOMAIN mapOrphanTransactions'
    /\ punished' = punished \ {p} /\ lied' = lied \ {p}
    /\ UNCHANGED <<recentRejects, rejectsStale, mempoolTxs, confirmed>>

ConnectPeer(p) ==
    /\ p \notin peersOn /\ peersOn' = peersOn \cup {p}
    /\ UNCHANGED <<mapOrphanTransactions, mapOrphanTransactionsByPrev, orphan_work_set,
                   recentRejects, rejectsStale, mempoolTxs, confirmed, punished, lied, stranded>>

OrphanNext ==
    \/ \E p \in OrphanPeers :
           \/ ProcessOrphans(p) \/ DisconnectPeer(p) \/ ConnectPeer(p)
           \/ \E t \in Txs : TxMessage(p, t)
    \/ \E t \in Txs : LocalTransaction(t) \/ BlockConnected(t)

OrphanSpec == OrphanInit /\ [][OrphanNext]_orphanVars

-----------------------------------------------------------------------------
OrphanTypeOK ==
    /\ Orphans \subseteq Txs \ Big
    /\ Cardinality(Orphans) <= nMaxOrphanTx
    /\ orphan_work_set \in [OrphanPeers -> SUBSET Txs]
    /\ recentRejects \subseteq Txs /\ rejectsStale \in BOOLEAN
    /\ mempoolTxs \subseteq Txs /\ confirmed \subseteq Txs /\ peersOn \subseteq OrphanPeers
    /\ stranded \subseteq Orphans

\* The index by prevout holds exactly the orphans there are, at exactly the
\* outputs they spend: its iterators are never dangling.
ByPrevExact ==
    mapOrphanTransactionsByPrev = [o \in Prevouts |-> {t \in Orphans : o \in Spends[t]}]

\* An orphan's peer is connected, and only a peer that sent an invalid
\* transaction is punished for one, whoever's message completes its parents.
OrphanSendersPunished ==
    /\ \A t \in Orphans : mapOrphanTransactions[t] \in peersOn
    /\ punished \subseteq lied

\* An orphan that could be judged now is waiting in some peer's work set, unless
\* its parent came with a block, from the node itself, or was being worked on
\* for a peer that left.
OrphansQueued ==
    \A t \in Orphans \ stranded :
        Verdict(t, mempoolTxs) \in {"accepted", "invalid"} =>
            \E p \in peersOn : t \in orphan_work_set[p]

\* The orphan maps agree, blame the right peer, and forget no orphan that can be
\* judged.
OrphansSafe == OrphanTypeOK /\ ByPrevExact /\ OrphanSendersPunished /\ OrphansQueued

\* A chain of orphans is resolved: a work set that grows while it is worked off
\* is emptied, always again, so that the peer's next message is taken.
WorkSetDrains == \A p \in OrphanPeers : []<>(orphan_work_set[p] = {})
=============================================================================
