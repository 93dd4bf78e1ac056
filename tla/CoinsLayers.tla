---------------------------- MODULE CoinsLayers ----------------------------
(***************************************************************************)
(* What a stack of coins views promises its users: plain maps from txid to *)
(* coins, one per layer.  Layer 0 is the database, layer 1 pcoinsTip, and  *)
(* a layer above it a view that validation works on.  A new layer starts   *)
(* as a copy, only the top layer is modified, flushing a layer copies it   *)
(* to the one below, and a layer that is dropped leaves no trace.          *)
(***************************************************************************)
EXTENDS Naturals

CONSTANTS Keys,    \* transaction ids
          Values,  \* non-pruned CCoins
          Pruned,  \* every output spent, or never seen
          Blocks,  \* block hashes
          Null,    \* the null hash
          N        \* most layers above the database

VARIABLES depth, \* the top layer
          map,   \* map[l]: the coins that layer l shows
          best   \* best[l]: the block whose state layer l shows

lvars == <<depth, map, best>>

LInit ==
    /\ depth = 1
    /\ \E m \in [Keys -> Values \cup {Pruned}] : map = [l \in 0..N |-> m]
    /\ \E b \in Blocks \cup {Null} : best = [l \in 0..N |-> b]

LPush ==
    /\ depth < N
    /\ depth' = depth + 1
    /\ map' = [l \in 0..N |-> IF l > depth THEN map[depth] ELSE map[l]]
    /\ best' = [l \in 0..N |-> IF l > depth THEN best[depth] ELSE best[l]]

LDiscard ==
    /\ depth > 1
    /\ depth' = depth - 1
    /\ map' = [l \in 0..N |-> IF l >= depth THEN map[depth - 1] ELSE map[l]]
    /\ best' = [l \in 0..N |-> IF l >= depth THEN best[depth - 1] ELSE best[l]]

\* Layers above depth do not exist; they repeat the top one.
LSet(k, v) ==
    /\ map' = [l \in 0..N |-> IF l >= depth THEN [map[l] EXCEPT ![k] = v]
                                            ELSE map[l]]
    /\ UNCHANGED <<depth, best>>

LSetBest(b) ==
    /\ best' = [l \in 0..N |-> IF l >= depth THEN b ELSE best[l]]
    /\ UNCHANGED <<depth, map>>

LFlush(n) ==
    /\ map' = [map EXCEPT ![n - 1] = map[n]]
    /\ best' = [best EXCEPT ![n - 1] = best[n]]
    /\ UNCHANGED depth

LNext ==
    \/ LPush \/ LDiscard
    \/ \E k \in Keys, v \in Values \cup {Pruned} : LSet(k, v)
    \/ \E b \in Blocks : LSetBest(b)
    \/ \E n \in 1..depth : LFlush(n)

LSpec == LInit /\ [][LNext]_lvars
=============================================================================
