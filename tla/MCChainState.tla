---------------------------- MODULE MCChainState ----------------------------
(* ChainState on small block trees.                                         *)
EXTENDS ChainState, TLC

CONSTANTS g, a1, a2, b1, b2, b3, c2

\* g has two children: a1 - a2, and b1 - b2 - b3.
ForkBlocks == {g, a1, a2, b1, b2, b3}
ForkPrev == (a1 :> g) @@ (a2 :> a1) @@ (b1 :> g) @@ (b2 :> b1) @@ (b3 :> b2)
ForkUp == (g :> {g}) @@ (a1 :> {g, a1}) @@ (a2 :> {g, a1, a2}) @@ (b1 :> {g, b1})
          @@ (b2 :> {g, b1, b2}) @@ (b3 :> {g, b1, b2, b3})
ForkHeight == [b \in ForkBlocks |-> Cardinality(ForkUp[b]) - 1]
ForkWork == [b \in ForkBlocks |-> Cardinality(ForkUp[b])]
ForkAddress == (g :> 1) @@ (a1 :> 2) @@ (a2 :> 6) @@ (b1 :> 4) @@ (b2 :> 3) @@ (b3 :> 5)

\* g - b1, with two children: b2 - b3 and c2.
BranchBlocks == {g, b1, b2, b3, c2}
BranchPrev == (b1 :> g) @@ (b2 :> b1) @@ (b3 :> b2) @@ (c2 :> b1)
BranchUp == (g :> {g}) @@ (b1 :> {g, b1}) @@ (b2 :> {g, b1, b2})
            @@ (b3 :> {g, b1, b2, b3}) @@ (c2 :> {g, b1, c2})
BranchHeight == [b \in BranchBlocks |-> Cardinality(BranchUp[b]) - 1]
BranchWork == [b \in BranchBlocks |-> Cardinality(BranchUp[b])]
BranchAddress == (g :> 1) @@ (b1 :> 4) @@ (b2 :> 3) @@ (b3 :> 5) @@ (c2 :> 2)

Scenario(commands, check, connect) ==
    [commands |-> commands, BadCheck |-> check, BadConnect |-> connect]
PeersScenarios == {Scenario({"restart", "precious"}, {b3}, {a2}),
                   Scenario({"prune"}, {}, {})}
OperatorScenarios == {Scenario({"invalidate", "reconsider"}, {}, {})}
ThreadsScenarios == {Scenario({"precious"}, {}, {b3})}
=============================================================================
