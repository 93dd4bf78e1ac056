--------------------------- MODULE MCBlockDownload ---------------------------
(***************************************************************************)
(* A chain 1-2-3 of three blocks and a rival 4 of block 3 that is invalid. *)
(* Peer 1 is slow, may send what does not fit, and has the chain that ends *)
(* in 4; peer 2 answers and has the valid chain.                           *)
(***************************************************************************)
EXTENDS BlockDownload

MCBlocks == 0..4
MCParent == [b \in 1..4 |-> IF b = 4 THEN 2 ELSE b - 1]
MCHeight == [b \in 0..4 |-> IF b = 4 THEN 3 ELSE b]
MCTipOf == [p \in 1..2 |-> IF p = 1 THEN 4 ELSE 3]
=============================================================================
