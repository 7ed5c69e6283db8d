-------------------------- MODULE MC_StakeModifier --------------------------
(* Main-net timing (60 s modifier interval, so a 2087 s selection          *)
(* interval, 1 h minimum and 24 h maximum stake age) on a tree of five     *)
(* blocks.  Amounts count in coins (Coin = 1); the enforcement height and  *)
(* the minimum stake depth are lowered so that hardened checks apply       *)
(* within the tree.  Hashes are fixed mixing functions; block hashes are  *)
(* distinct two-byte values whose byte order disagrees with their numeric *)
(* order.                                                                  *)
EXTENDS StakeModifier

MCTimes == {0, 30, 2100, 3700}
MCHashOf == <<258, 513, 259, 768, 1>>   \* ids 0..4 as a 1-based tuple
MCHash(b) == MCHashOf[b + 1]
MCHashFn == [b \in 0 .. 4 |-> MCHash(b)]
MCSelectionHash(p, m) == (p * 37 + m * 11 + 5) % 256
MCKernelHash(m, tFrom, tPrev, n, tTx) ==
    (m * 1031 + tFrom * 7 + tPrev * 3 + n * 4099 + tTx * 5) % 8192
=============================================================================
