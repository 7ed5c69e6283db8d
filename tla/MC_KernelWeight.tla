--------------------------- MODULE MC_KernelWeight ---------------------------
(* Small instance of the kernel weight: int64 scaled to 12 bits and       *)
(* arith_uint256 to 18, COIN to 1 and the weight cap to 50 s; staked      *)
(* amounts and ages whose product stays in range, nears it and passes it, *)
(* ages on both sides of the cap, targets whose product with the weight   *)
(* passes 2^18, and hashes on both sides of the resulting bounds.         *)
EXTENDS KernelWeight

MCValues == {4, 10, 30, 60}
MCAges == {30, 50, 80}
MCTargets == {1, 30000, 100000}
MCHashes == {0, 300, 100000, 200000}
=============================================================================
