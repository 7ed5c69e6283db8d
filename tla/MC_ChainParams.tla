--------------------------- MODULE MC_ChainParams ---------------------------
(* Small instance of the registry: COIN as 10^8 scaled to 100, INT64_MAX  *)
(* as the largest TLC integer, an uninitialized int64 read as 0, -1 or   *)
(* a stale 1000, and -vbparams command lines with repeated deployments,   *)
(* wrong field counts, unparsable numbers and unknown names.              *)
EXTENDS ChainParams_proofs

MCNoTimeout == 2147483647

MCDecimal == [s \in {"0", "5", "9"} |-> CASE s = "0" -> 0 [] s = "5" -> 5 [] s = "9" -> 9]

MCIndeterminateInts == {0, 1000, -1}

MCVbArgs ==
    { <<>>,
      << <<"csv", "5", "9">> >>,
      << <<"csv", "5", "9">>, <<"csv", "0", "5">> >>,
      << <<"segwit", "0", "9">>, <<"testdummy", "5", "5">> >>,
      << <<"csv", "5", "9">>, <<"csv", "5">> >>,
      << <<"csv", "x", "9">> >>,
      << <<"csv", "5", "9", "0">> >>,
      << <<"testdummy", "5", "9">>, <<"bogus", "0", "9">> >> }
=============================================================================
