---------------------------- MODULE MCCoinsCache ----------------------------
(* CoinsCache on a small instance: the database, pcoinsTip and views on it. *)
EXTENDS CoinsCache
=============================================================================
