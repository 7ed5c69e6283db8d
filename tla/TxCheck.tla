------------------------------ MODULE TxCheck ------------------------------
(***************************************************************************)
(* CheckTransaction (src/src/consensus/tx_check.cpp), step by step: the   *)
(* basic checks, the loop over the outputs with its running sum           *)
(* nValueOut, the duplicate-input loop over a std::set, and the coinbase  *)
(* or non-null-prevout checks, each loop stopping at its first failure.   *)
(* A transaction is a record; its serialized size and payload size are    *)
(* fields, prevouts are model values and CAmount is a signed integer of   *)
(* AmountBits bits.                                                       *)
(***************************************************************************)
EXTENDS Integers, Sequences

CONSTANTS
    NORMAL, COINBASE, PROVIDER_REGISTER, PROVIDER_UPDATE_SERVICE,
    PROVIDER_UPDATE_REVOKE, QUORUM_COMMITMENT, STAKE,  \* nType values
    Prevouts,            \* the COutPoints inputs may spend
    NullPrevout,         \* the COutPoint for which IsNull() holds
    MaxMoney,            \* MAX_MONEY
    AmountBits,          \* width of CAmount (int64_t)
    WitnessScaleFactor,  \* WITNESS_SCALE_FACTOR
    MaxBlockWeight,      \* MAX_BLOCK_WEIGHT
    MaxTxExtraPayload,   \* MAX_TX_EXTRA_PAYLOAD
    Txs                  \* the transactions submitted to the check

\* A CAmount holds -Half .. Half-1; two amounts of at most MAX_MONEY add up
\* without leaving that range (as 2 * MAX_MONEY < 2^63 does for int64).
Half == 2 ^ (AmountBits - 1)

ASSUME AmountAssumption ==
    /\ MaxMoney \in Nat /\ AmountBits \in Nat \ {0}
    /\ 2 * MaxMoney < Half

\* CTxIn as far as CheckTransaction reads it.
TxIn == [prevout : Prevouts, scriptSigSize : Nat]

ASSUME TxsAssumption ==
    /\ NullPrevout \in Prevouts
    /\ \A t \in Txs : t.vin \in Seq(TxIn) /\ t.vout \in Seq(Int)

VARIABLES
    tx,                     \* the transaction being checked
    fCheckDuplicateInputs,  \* the flag argument
    pc,                     \* which part of CheckTransaction runs next
    i,                      \* index of the current vout / vin element
    nValueOut,              \* the running output sum
    seen,                   \* vInOutPoints
    verdict                 \* "none" until the function returns

vars == <<tx, fCheckDuplicateInputs, pc, i, nValueOut, seen, verdict>>

\* The code's list of allowed nType values (lines 31-37).
KnownTypes == {NORMAL, COINBASE, PROVIDER_REGISTER, PROVIDER_UPDATE_SERVICE,
               PROVIDER_UPDATE_REVOKE, QUORUM_COMMITMENT, STAKE}

\* CAmount arithmetic: the two's-complement result of an int64 sum.
Wrap(x) == ((x + Half) % (2 * Half)) - Half

\* MoneyRange (amount.h).
MoneyRange(v) == 0 <= v /\ v <= MaxMoney

\* CTransaction::IsCoinBase (primitives/transaction.h).
IsCoinBase(t) == Len(t.vin) = 1 /\ t.vin[1].prevout = NullPrevout

\* The index of the first failing check of a sequence, or 0.
FirstFailure(fails) ==
    IF \A k \in DOMAIN fails : ~fails[k] THEN 0
    ELSE CHOOSE k \in DOMAIN fails : fails[k] /\ \A j \in 1 .. k - 1 : ~fails[j]

\* The basic checks of lines 13-40, in the code's order.
BasicReasons == <<"bad-txns-vin-empty", "bad-txns-vout-empty",
                  "bad-txns-oversize", "bad-txns-payload-oversize",
                  "bad-txns-type", "bad-txns-cb-type">>
BasicFailures(t) ==
    LET allowEmptyTxInOut == t.type = QUORUM_COMMITMENT
    IN  << ~allowEmptyTxInOut /\ t.vin = <<>>,
           ~allowEmptyTxInOut /\ t.vout = <<>>,
           t.size * WitnessScaleFactor > MaxBlockWeight,
           t.payloadSize > MaxTxExtraPayload,
           t.version >= 2 /\ t.type \notin KnownTypes,
           IsCoinBase(t) /\ t.version >= 2 /\ t.type # COINBASE >>

Init ==
    /\ tx \in Txs
    /\ fCheckDuplicateInputs \in BOOLEAN
    /\ pc = "basic"
    /\ i = 1
    /\ nValueOut = 0
    /\ seen = {}
    /\ verdict = "none"

Reject(reason) == pc' = "done" /\ verdict' = reason

\* Lines 13-40: the first failing basic check returns.
BasicChecks ==
    LET k == FirstFailure(BasicFailures(tx))
    IN  /\ pc = "basic"
        /\ IF k # 0 THEN Reject(BasicReasons[k])
           ELSE pc' = "vout" /\ UNCHANGED verdict
        /\ UNCHANGED <<tx, fCheckDuplicateInputs, i, nValueOut, seen>>

\* One iteration of the output loop; a mutant passes another running sum or
\* drops the range check.
OutputIteration(sum, checkRange) ==
    LET v == tx.vout[i]
    IN  /\ pc = "vout" /\ i <= Len(tx.vout)
        /\ IF v < 0 THEN Reject("bad-txns-vout-negative") /\ UNCHANGED <<i, nValueOut>>
           ELSE IF v > MaxMoney
                THEN Reject("bad-txns-vout-toolarge") /\ UNCHANGED <<i, nValueOut>>
           ELSE IF checkRange /\ ~MoneyRange(sum)
                THEN Reject("bad-txns-txouttotal-toolarge") /\ UNCHANGED <<i, nValueOut>>
           ELSE nValueOut' = sum /\ i' = i + 1 /\ UNCHANGED <<pc, verdict>>
        /\ UNCHANGED <<tx, fCheckDuplicateInputs, seen>>

\* Mutant: the running total is not range-checked after the addition.
CheckOutputNoRangeCheck == OutputIteration(Wrap(nValueOut + tx.vout[i]), FALSE)

\* Lines 44-53: nValueOut += txout.nValue in CAmount, then MoneyRange.
CheckOutput == OutputIteration(Wrap(nValueOut + tx.vout[i]), TRUE)

\* Mutant: the next loop starts where the output loop stopped.
EndOutputsNoReset ==
    /\ pc = "vout" /\ i > Len(tx.vout)
    /\ pc' = IF fCheckDuplicateInputs THEN "dup" ELSE "shape"
    /\ UNCHANGED <<tx, fCheckDuplicateInputs, i, nValueOut, seen, verdict>>

\* Line 56: after the output loop, the duplicate loop runs only if asked.
EndOutputs ==
    /\ pc = "vout" /\ i > Len(tx.vout)
    /\ pc' = IF fCheckDuplicateInputs THEN "dup" ELSE "shape"
    /\ i' = 1
    /\ UNCHANGED <<tx, fCheckDuplicateInputs, nValueOut, seen, verdict>>

\* Lines 58-62: vInOutPoints.insert(prevout) fails on a repeated prevout.
CheckDuplicate ==
    LET p == tx.vin[i].prevout
    IN  /\ pc = "dup" /\ i <= Len(tx.vin)
        /\ IF p \in seen THEN Reject("bad-txns-inputs-duplicate") /\ UNCHANGED <<i, seen>>
           ELSE seen' = seen \cup {p} /\ i' = i + 1 /\ UNCHANGED <<pc, verdict>>
        /\ UNCHANGED <<tx, fCheckDuplicateInputs, nValueOut>>

EndDuplicates ==
    /\ pc = "dup" /\ i > Len(tx.vin)
    /\ pc' = "shape" /\ i' = 1
    /\ UNCHANGED <<tx, fCheckDuplicateInputs, nValueOut, seen, verdict>>

\* Mutant: a coinbase scriptSig of size 0 is accepted.
CheckCoinbaseNoLowerBound ==
    /\ pc = "shape" /\ IsCoinBase(tx)
    /\ Reject(IF tx.vin[1].scriptSigSize > 100 THEN "bad-cb-length" ELSE "ok")
    /\ UNCHANGED <<tx, fCheckDuplicateInputs, i, nValueOut, seen>>

\* Lines 65-70: the coinbase scriptSig size is in 1 .. 100.
CheckCoinbase ==
    /\ pc = "shape" /\ IsCoinBase(tx)
    /\ Reject(IF tx.vin[1].scriptSigSize < 1 \/ tx.vin[1].scriptSigSize > 100
              THEN "bad-cb-length" ELSE "ok")
    /\ UNCHANGED <<tx, fCheckDuplicateInputs, i, nValueOut, seen>>

\* Lines 73-75: one iteration of the non-null prevout loop; line 78 at
\* its end.
CheckPrevout ==
    /\ pc = "shape" /\ ~IsCoinBase(tx)
    /\ IF i > Len(tx.vin) THEN Reject("ok") /\ UNCHANGED i
       ELSE IF tx.vin[i].prevout = NullPrevout
            THEN Reject("bad-txns-prevout-null") /\ UNCHANGED i
            ELSE i' = i + 1 /\ UNCHANGED <<pc, verdict>>
    /\ UNCHANGED <<tx, fCheckDuplicateInputs, nValueOut, seen>>

Next ==
    \/ BasicChecks
    \/ CheckOutput \/ EndOutputs
    \/ CheckDuplicate \/ EndDuplicates
    \/ CheckCoinbase \/ CheckPrevout

Spec == Init /\ [][Next]_vars

-----------------------------------------------------------------------------
(***************************************************************************)
(* Properties.                                                             *)
(***************************************************************************)

Reasons == {"none", "ok", "bad-txns-vout-negative", "bad-txns-vout-toolarge",
            "bad-txns-txouttotal-toolarge", "bad-txns-inputs-duplicate",
            "bad-cb-length", "bad-txns-prevout-null"} \cup
           {BasicReasons[k] : k \in DOMAIN BasicReasons}

\* Every variable of CheckTransaction holds a value of its C++ type: in
\* particular nValueOut is a CAmount.
TxTypeOK ==
    /\ tx \in Txs
    /\ fCheckDuplicateInputs \in BOOLEAN
    /\ pc \in {"basic", "vout", "dup", "shape", "done"}
    /\ i \in Nat \ {0}
    /\ nValueOut \in -Half .. Half - 1
    /\ seen \subseteq {tx.vin[k].prevout : k \in DOMAIN tx.vin}
    /\ verdict \in Reasons

\* The addition nValueOut += txout.nValue of line 50 never overflows a
\* CAmount: every change of the running sum is the exact sum, because the
\* MoneyRange check after each addition keeps it in [0, MAX_MONEY] however
\* many outputs the transaction has.
NoAmountOverflow ==
    [][nValueOut' # nValueOut => nValueOut' = nValueOut + tx.vout[i]]_vars

\* The prefix sums of the first k outputs, when each lies in [0, MAX_MONEY]:
\* the functions ps on 0 .. k with ps[0] = 0 and ps[j] = ps[j-1] + vout[j].
PrefixSums(t, k) ==
    {ps \in [0 .. k -> 0 .. MaxMoney] :
        ps[0] = 0 /\ \A j \in 1 .. k : ps[j] = ps[j - 1] + t.vout[j]}

\* Section 4.C of the spec on the first k outputs: each is in
\* [0, MAX_MONEY] and so is every running total of them.
OutputsOK(t, k) ==
    /\ \A j \in 1 .. k : t.vout[j] \in 0 .. MaxMoney
    /\ PrefixSums(t, k) # {}

\* Section 4.C of the spec as a declarative rule: the first failing check
\* in the listed order, with exact (unbounded) output totals and
\* duplicates as a pair of equal prevouts.
SpecVerdict(t, checkDup) ==
    LET n == Len(t.vout)
        badOut == {k \in 1 .. n : ~OutputsOK(t, k)}
        firstOut == CHOOSE k \in badOut : \A j \in badOut : k <= j
        cb == Len(t.vin) = 1 /\ t.vin[1].prevout = NullPrevout
        basic == BasicFailures(t)
        kb == CHOOSE k \in DOMAIN basic : basic[k] /\ \A j \in 1 .. k - 1 : ~basic[j]
    IN  IF \E k \in DOMAIN basic : basic[k] THEN BasicReasons[kb]
        ELSE IF badOut # {}
             THEN IF t.vout[firstOut] < 0 THEN "bad-txns-vout-negative"
                  ELSE IF t.vout[firstOut] > MaxMoney THEN "bad-txns-vout-toolarge"
                  ELSE "bad-txns-txouttotal-toolarge"
        ELSE IF checkDup /\ \E j, k \in DOMAIN t.vin :
                                j # k /\ t.vin[j].prevout = t.vin[k].prevout
             THEN "bad-txns-inputs-duplicate"
        ELSE IF cb THEN IF t.vin[1].scriptSigSize \in 1 .. 100 THEN "ok"
                        ELSE "bad-cb-length"
        ELSE IF \E k \in DOMAIN t.vin : t.vin[k].prevout = NullPrevout
             THEN "bad-txns-prevout-null"
        ELSE "ok"

\* When CheckTransaction returns, its verdict is the one section 4.C of the
\* spec prescribes: the loops with early exits, the wrapping CAmount sum
\* and the std::set of seen prevouts reject exactly what the rule list
\* rejects, for the reason of its first failing check.
VerdictMatchesSpec ==
    pc = "done" => verdict = SpecVerdict(tx, fCheckDuplicateInputs)
=============================================================================
