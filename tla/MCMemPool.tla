------------------------------ MODULE MCMemPool ------------------------------
(***************************************************************************)
(* An instance of the memory pool.  In the family 2 <- 1, 6 <- 3 the last  *)
(* spends both free transactions in the middle, and the ids are in no      *)
(* order; 4 spends what 2 spends and can replace it; 5 spends a coinbase   *)
(* and an output of 2, is not final before height 2, and must be one block *)
(* above its input.                                                        *)
(***************************************************************************)
EXTENDS BlockAssembly

CONSTANTS f, cb

MCvin ==
    1 :> << <<2, 0>> >> @@ 2 :> << <<f, 0>> >> @@ 3 :> << <<6, 0>>, <<1, 0>> >>
    @@ 4 :> << <<f, 0>> >> @@ 5 :> << <<cb, 0>>, <<2, 2>> >> @@ 6 :> << <<2, 1>> >>
MCSize == 1 :> 1 @@ 2 :> 1 @@ 3 :> 1 @@ 4 :> 3 @@ 5 :> 7 @@ 6 :> 1
MCFee == 1 :> 0 @@ 2 :> 2 @@ 3 :> 5 @@ 4 :> 10 @@ 5 :> 8 @@ 6 :> 0
MCDustFee == 1 :> 0 @@ 2 :> 0 @@ 3 :> 0 @@ 4 :> 8 @@ 5 :> 0 @@ 6 :> 0
MCnLockTime == 1 :> 0 @@ 2 :> 0 @@ 3 :> 1 @@ 4 :> 0 @@ 5 :> 2 @@ 6 :> 0
MCnSequence == 1 :> -1 @@ 2 :> -1 @@ 3 :> -1 @@ 4 :> -1 @@ 5 :> 1 @@ 6 :> -1
MCFeeDeltas == {<<1, 3>>}
=============================================================================
