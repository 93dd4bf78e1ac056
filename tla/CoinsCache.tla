----------------------------- MODULE CoinsCache -----------------------------
(***************************************************************************)
(* The layered unspent-output views of coins.cpp: CCoinsViewDB at the      *)
(* bottom (level 0, txdb.cpp), CCoinsViewCache objects stacked on it.  In  *)
(* the node level 1 is pcoinsTip and level 2 the view a block is connected *)
(* or disconnected in.  An entry carries the DIRTY and FRESH flags; FRESH  *)
(* lets a coin that is created and spent between two flushes disappear     *)
(* without ever reaching the level below.                                  *)
(*                                                                         *)
(* A CCoins is a value or Pruned (every output spent); the modifier that   *)
(* ModifyCoins hands out and its destructor are one step, since            *)
(* hasModifier admits one modifier at a time.                              *)
(***************************************************************************)
EXTENDS Integers

CONSTANTS Keys,    \* transaction ids
          Values,  \* non-pruned CCoins
          Pruned,  \* a CCoins without unspent outputs
          Absent,  \* no entry: base->GetCoins returned false
          Blocks,  \* block hashes
          Null,    \* hashBlock.IsNull()
          N        \* number of caches that may be stacked

ASSUME DistinctAssumption ==
    /\ Pruned \notin Values /\ Absent \notin Values /\ Pruned # Absent
    /\ Null \notin Blocks

ASSUME NAssumption == N \in Nat \ {0}

VARIABLES db,        \* level 0: the coins database
          dbBest,    \* DB_BEST_BLOCK
          depth,     \* caches 1..depth exist
          cache,     \* cache[n][k]: cacheCoins of level n
          hashBlock  \* hashBlock[n] of level n, filled lazily

vars == <<db, dbBest, depth, cache, hashBlock>>

DIRTY == "DIRTY"
FRESH == "FRESH"
CoinsOrPruned == Values \cup {Pruned}
Entries == [coins : CoinsOrPruned \cup {Absent}, flags : SUBSET {DIRTY, FRESH}]
NoEntry == [coins |-> Absent, flags |-> {}]
Empty == [k \in Keys |-> NoEntry]
Levels == 1..N

Cached(n, k) == cache[n][k].coins # Absent

\* A lookup at level n is answered by the highest level that has something, or
\* by the database.
Top(S) == CHOOSE l \in S : \A m \in S : m <= l
Lookup(f, none, base, n) ==
    LET S == {l \in 1..n : f[l] # none}
    IN  IF S = {} THEN base ELSE f[Top(S)]

\* base->GetCoins(txid) asked of level n: Absent if it returns false.
Column(k) == [l \in Levels |-> cache[l][k].coins]
GetCoins(n, k) == Lookup(Column(k), Absent, db[k], n)

\* What GetCoins means to a user: no entry is as good as a pruned one.
View(n, k) == IF GetCoins(n, k) = Absent THEN Pruned ELSE GetCoins(n, k)

\* base->GetBestBlock() asked of level n.
GetBestBlock(n) == Lookup(hashBlock, Null, dbBest, n)

-----------------------------------------------------------------------------
\* FetchCoins at level n recurses through base->GetCoins: every cache between
\* the one that has the entry and level n gets a copy, marked FRESH if pruned.
Fetched(c) == [coins |-> c, flags |-> IF c = Pruned THEN {FRESH} ELSE {}]

FetchCoins(n, k) ==
    [l \in Levels |->
        IF l <= n /\ (\A m \in l..n : ~Cached(m, k)) /\ GetCoins(n, k) # Absent
        THEN [cache[l] EXCEPT ![k] = Fetched(GetCoins(n, k))]
        ELSE cache[l]]

\* The entry ModifyCoins starts from, at the top level.
ModifiedEntry(k) ==
    IF Cached(depth, k) THEN cache[depth][k]
    ELSE IF GetCoins(depth - 1, k) \in {Absent, Pruned}
         THEN [coins |-> Pruned, flags |-> {FRESH}]
         ELSE [coins |-> GetCoins(depth - 1, k), flags |-> {}]

\* The entry ModifyNewCoins starts from: the level below is not consulted.
NewEntry(k) ==
    IF Cached(depth, k) THEN cache[depth][k] ELSE [coins |-> Pruned, flags |-> {}]

\* Mutant: every pruned entry is erased, FRESH or not.
ReleasedAlways(e) == IF e.coins = Pruned THEN NoEntry ELSE e

\* ~CCoinsModifier: a FRESH entry that ends up pruned is erased.
Released(e) ==
    IF FRESH \in e.flags /\ e.coins = Pruned THEN NoEntry ELSE e

\* Mutant: an existing parent entry is overwritten and not marked DIRTY.
MergeForgetsDirty(c, p) ==
    IF DIRTY \notin c.flags THEN p
    ELSE IF p.coins = Absent
         THEN IF FRESH \in c.flags /\ c.coins = Pruned THEN p
              ELSE [coins |-> c.coins, flags |-> {DIRTY} \cup (c.flags \cap {FRESH})]
         ELSE IF FRESH \in p.flags /\ c.coins = Pruned THEN NoEntry
              ELSE [coins |-> c.coins, flags |-> p.flags]

\* BatchWrite of a child entry c onto the parent cache's entry p.
Merge(c, p) ==
    IF DIRTY \notin c.flags THEN p
    ELSE IF p.coins = Absent
         THEN IF FRESH \in c.flags /\ c.coins = Pruned THEN p
              ELSE [coins |-> c.coins, flags |-> {DIRTY} \cup (c.flags \cap {FRESH})]
         ELSE IF FRESH \in p.flags /\ c.coins = Pruned THEN NoEntry
              ELSE [coins |-> c.coins, flags |-> p.flags \cup {DIRTY}]

\* CCoinsViewDB::BatchWrite: pruned coins are erased, clean entries ignored.
Store(c, v) ==
    IF DIRTY \notin c.flags THEN v
    ELSE IF c.coins = Pruned THEN Absent ELSE c.coins

-----------------------------------------------------------------------------
Init ==
    /\ db \in [Keys -> Values \cup {Absent}]
    /\ dbBest \in Blocks \cup {Null}
    /\ depth = 1
    /\ cache = [n \in Levels |-> Empty]
    /\ hashBlock = [n \in Levels |-> Null]

\* A CCoinsViewCache is constructed on top of the stack ...
Push ==
    /\ depth < N
    /\ depth' = depth + 1
    /\ UNCHANGED <<db, dbBest, cache, hashBlock>>

\* ... and destroyed; what was not flushed is forgotten.
Discard ==
    /\ depth > 1
    /\ depth' = depth - 1
    /\ cache' = [cache EXCEPT ![depth] = Empty]
    /\ hashBlock' = [hashBlock EXCEPT ![depth] = Null]
    /\ UNCHANGED <<db, dbBest>>

\* GetCoins, AccessCoins and HaveCoins all look the entry up.
AccessCoins(n, k) ==
    /\ cache' = FetchCoins(n, k)
    /\ UNCHANGED <<db, dbBest, depth, hashBlock>>

\* ModifyCoins, a change of the coins to v, and the modifier's destructor.
ModifyCoins(k, v) ==
    LET below == IF Cached(depth, k) THEN cache ELSE FetchCoins(depth - 1, k)
        flags == ModifiedEntry(k).flags \cup {DIRTY}
    IN  /\ cache' = [below EXCEPT ![depth][k] =
                        Released([coins |-> v, flags |-> flags])]
        /\ UNCHANGED <<db, dbBest, depth, hashBlock>>

\* ModifyNewCoins and FromTx.  ConnectBlock enforces BIP 30 before it adds a
\* transaction; the historical coinbase duplicates are the exception.
ModifyNewCoins(k, coinbase, v) ==
    LET e == NewEntry(k)
        fresh == IF ~coinbase /\ DIRTY \notin e.flags THEN {FRESH} ELSE {}
    IN  /\ coinbase \/ View(depth, k) = Pruned
        /\ cache' = [cache EXCEPT ![depth][k] =
                        Released([coins |-> v, flags |-> e.flags \cup fresh \cup {DIRTY}])]
        /\ UNCHANGED <<db, dbBest, depth, hashBlock>>

\* Flush writes level n to its base and clears it.  ConnectBlock and
\* DisconnectBlock have read or set a child's best block before it is flushed;
\* only pcoinsTip over a new database is flushed with a null one.
Flush(n) ==
    /\ n > 1 => hashBlock[n] # Null
    /\ \/ /\ n > 1
          /\ cache' = [cache EXCEPT
                ![n - 1] = [k \in Keys |-> Merge(cache[n][k], cache[n - 1][k])],
                ![n] = Empty]
          /\ hashBlock' = [hashBlock EXCEPT ![n - 1] = hashBlock[n]]
          /\ UNCHANGED <<db, dbBest>>
       \/ /\ n = 1
          /\ db' = [k \in Keys |-> Store(cache[1][k], db[k])]
          /\ dbBest' = IF hashBlock[1] = Null THEN dbBest ELSE hashBlock[1]
          /\ cache' = [cache EXCEPT ![1] = Empty]
          /\ UNCHANGED hashBlock
    /\ UNCHANGED depth

\* Entries without flags may be dropped at any time.
Uncache(n, k) ==
    /\ Cached(n, k) /\ cache[n][k].flags = {}
    /\ cache' = [cache EXCEPT ![n][k] = NoEntry]
    /\ UNCHANGED <<db, dbBest, depth, hashBlock>>

SetBestBlock(b) ==
    /\ hashBlock' = [hashBlock EXCEPT ![depth] = b]
    /\ UNCHANGED <<db, dbBest, depth, cache>>

\* GetBestBlock fills every null hashBlock on its way down.
FillBestBlock(n) ==
    /\ hashBlock' = [l \in Levels |->
                        IF l <= n /\ \A m \in l..n : hashBlock[m] = Null
                        THEN GetBestBlock(n)
                        ELSE hashBlock[l]]
    /\ UNCHANGED <<db, dbBest, depth, cache>>

Next ==
    \/ Push \/ Discard
    \/ \E n \in 1..depth, k \in Keys : AccessCoins(n, k) \/ Uncache(n, k)
    \/ \E k \in Keys, v \in CoinsOrPruned :
          \/ ModifyCoins(k, v)
          \/ \E coinbase \in BOOLEAN : ModifyNewCoins(k, coinbase, v)
    \/ \E n \in 1..depth : Flush(n) \/ FillBestBlock(n)
    \/ \E b \in Blocks : SetBestBlock(b)

Spec == Init /\ [][Next]_vars

-----------------------------------------------------------------------------
TypeOK ==
    /\ db \in [Keys -> Values \cup {Absent}]
    /\ dbBest \in Blocks \cup {Null}
    /\ depth \in Levels
    /\ cache \in [Levels -> [Keys -> Entries]]
    /\ hashBlock \in [Levels -> Blocks \cup {Null}]

\* FRESH means what its comment says: the level below has no entry, or a
\* pruned one, so a fully spent FRESH coin may vanish without being flushed.
FreshMeansUnknownBelow ==
    \A n \in Levels, k \in Keys :
        Cached(n, k) /\ FRESH \in cache[n][k].flags => View(n - 1, k) = Pruned

\* An entry that is not DIRTY repeats the level below: Uncache and a flush
\* that skips it lose nothing.
CleanMeansSameAsBelow ==
    \A n \in Levels, k \in Keys :
        Cached(n, k) /\ DIRTY \notin cache[n][k].flags =>
            cache[n][k].coins = View(n - 1, k)

\* BatchWrite's logic_error "FRESH flag misapplied" cannot be thrown: a child
\* entry about to be flushed as FRESH never meets unspent coins in the parent.
FreshNeverMisapplied ==
    \A n \in Levels, k \in Keys :
        n > 1 /\ {DIRTY, FRESH} \subseteq cache[n][k].flags /\ Cached(n - 1, k)
            => cache[n - 1][k].coins = Pruned

\* The stack of caches behaves like a stack of plain maps: no flag, lookup,
\* Uncache or flush order ever changes what a reader at any level sees.
Layers == INSTANCE CoinsLayers
            WITH map <- [l \in 0..N |-> [k \in Keys |-> View(l, k)]],
                 best <- [l \in 0..N |-> GetBestBlock(l)]
ImplementsLayers == Layers!LSpec

\* ... and each call does what it says: a modification is what readers of the
\* top level see next and nobody below does, a flush makes the level below
\* equal, and reads, Uncache and GetBestBlock's caching change no view.
CallsExact ==
    [][/\ \A k \in Keys, v \in CoinsOrPruned :
             /\ ModifyCoins(k, v) => Layers!LSet(k, v)
             /\ \A coinbase \in BOOLEAN :
                   ModifyNewCoins(k, coinbase, v) => Layers!LSet(k, v)
       /\ \A n \in 1..depth : Flush(n) => Layers!LFlush(n)
       /\ \A n \in 1..depth, k \in Keys :
             AccessCoins(n, k) \/ Uncache(n, k) => UNCHANGED Layers!lvars
       /\ \A n \in 1..depth : FillBestBlock(n) => UNCHANGED Layers!lvars
       /\ \A b \in Blocks : SetBestBlock(b) => Layers!LSetBest(b)]_vars
=============================================================================
