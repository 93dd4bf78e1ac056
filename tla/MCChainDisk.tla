----------------------------- MODULE MCChainDisk -----------------------------
(* ChainDisk on a small block tree.                                         *)
EXTENDS ChainDisk, TLC

CONSTANTS g, a1, a2, b1

\* g with two children: a1 - a2 and b1.
ForkBlocks == {g, a1, a2, b1}
ForkPrev == (a1 :> g) @@ (a2 :> a1) @@ (b1 :> g)
ForkUp == (g :> {g}) @@ (a1 :> {g, a1}) @@ (a2 :> {g, a1, a2}) @@ (b1 :> {g, b1})
ForkHeight == [b \in ForkBlocks |-> Cardinality(ForkUp[b]) - 1]
ForkWork == [b \in ForkBlocks |-> Cardinality(ForkUp[b])]
=============================================================================
