----------------------------- MODULE MC_TxCheck -----------------------------
(* Small instance of CheckTransaction: MAX_MONEY scaled to 3 and CAmount  *)
(* to 4 bits, so that three maximal outputs would overflow an unchecked   *)
(* sum; inputs that are empty, coinbase-shaped with scriptSig sizes on    *)
(* both sides of [1, 100], duplicated and null; sizes and payloads on     *)
(* both sides of their limits; known, coinbase, quorum and unknown types. *)
EXTENDS TxCheck_proofs

CONSTANTS P1, P2, UnknownType

MCNull == NullPrevout

MCPrevouts == {P1, P2, NullPrevout}

In(p, sz) == [prevout |-> p, scriptSigSize |-> sz]

MCVins == { <<>>, <<In(P1, 0)>>, <<In(MCNull, 0)>>, <<In(MCNull, 1)>>,
            <<In(MCNull, 101)>>, <<In(P1, 0), In(P2, 0)>>,
            <<In(P1, 0), In(P1, 0)>>, <<In(P1, 0), In(MCNull, 0)>>,
            <<In(MCNull, 1), In(MCNull, 1)>> }

MCVouts == { <<>>, <<0>>, <<-1>>, <<4>>, <<3, 3>>, <<2, 1>>, <<1, 1, 1>>,
             <<3, -1>>, <<2, 2, -1>>, <<3, 3, 3>> }

MCTxs == [type : {NORMAL, COINBASE, QUORUM_COMMITMENT, UnknownType},
          version : {1, 2}, vin : MCVins, vout : MCVouts,
          size : {1, 3}, payloadSize : {0, 2}]
=============================================================================
