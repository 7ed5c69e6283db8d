---------------------------- MODULE TxCheck_proofs ----------------------------
(***************************************************************************)
(* Proofs about CheckTransaction for every MAX_MONEY, every CAmount width *)
(* and every set of transactions the assumptions of TxCheck allow.        *)
(***************************************************************************)
EXTENDS TxCheck, TLAPS

(***************************************************************************)
(* The CAmount half range is a positive integer above 2 * MAX_MONEY.      *)
(***************************************************************************)
LEMMA HalfBound == Half \in Nat /\ 2 * MaxMoney < Half
BY AmountAssumption DEF Half

(***************************************************************************)
(* A CAmount sum that fits in the range is not changed by the wrap.       *)
(***************************************************************************)
LEMMA WrapIdentity ==
  ASSUME NEW x \in 0 .. Half - 1
  PROVE  Wrap(x) = x
<1>1. Half \in Nat \ {0}
  BY HalfBound, AmountAssumption
<1>2. (x + Half) % (2 * Half) = x + Half
  BY <1>1
<1>3. QED
  BY <1>1, <1>2 DEF Wrap

(***************************************************************************)
(* The first failing basic check is one of the six, or none.              *)
(***************************************************************************)
LEMMA FirstFailureRange ==
  ASSUME NEW f, DOMAIN f = 1 .. 6
  PROVE  FirstFailure(f) \in 0 .. 6
<1>1. CASE \A k \in 1 .. 6 : ~f[k]
  BY <1>1 DEF FirstFailure
<1>2. CASE \E k \in 1 .. 6 : f[k]
  <2>1. \E k \in 1 .. 6 : f[k] /\ \A j \in 1 .. k - 1 : ~f[j]
    BY <1>2
  <2>2. QED
    BY <1>2, <2>1 DEF FirstFailure
<1>3. QED
  BY <1>1, <1>2

LEMMA BasicFailuresType ==
  ASSUME NEW t
  PROVE  DOMAIN BasicFailures(t) = 1 .. 6
BY DEF BasicFailures

(***************************************************************************)
(* The type invariant and the range of the running sum together are      *)
(* inductive: the sum changes only where MoneyRange has just held.        *)
(***************************************************************************)
IInv == TxTypeOK /\ nValueOut \in 0 .. MaxMoney

LEMMA InitIInv == Init => IInv
<1> SUFFICES ASSUME Init PROVE IInv
  OBVIOUS
<1>1. nValueOut \in 0 .. MaxMoney /\ nValueOut \in -Half .. Half - 1
  BY HalfBound, AmountAssumption DEF Init
<1>2. verdict \in Reasons
  BY DEF Init, Reasons
<1>3. QED
  BY <1>1, <1>2 DEF Init, IInv, TxTypeOK

(***************************************************************************)
(* The transaction under check has sequences of inputs and outputs.       *)
(***************************************************************************)
LEMMA TxShape ==
  ASSUME TxTypeOK
  PROVE  /\ tx.vin \in Seq(TxIn) /\ tx.vout \in Seq(Int)
         /\ DOMAIN tx.vin = 1 .. Len(tx.vin)
BY TxsAssumption DEF TxTypeOK

(***************************************************************************)
(* What one iteration of the output loop leaves in nValueOut: the sum    *)
(* is unchanged, or it is the exact sum and within [0, MAX_MONEY].         *)
(***************************************************************************)
LEMMA CheckOutputSum ==
  ASSUME IInv, CheckOutput
  PROVE  /\ i \in 1 .. Len(tx.vout)
         /\ \/ nValueOut' = nValueOut
            \/ /\ nValueOut' = nValueOut + tx.vout[i]
               /\ nValueOut' \in 0 .. MaxMoney
<1> DEFINE v == tx.vout[i]
<1>1. i \in 1 .. Len(tx.vout) /\ v \in Int
  BY TxShape DEF IInv, CheckOutput, OutputIteration, TxTypeOK
<1>2. CASE v < 0 \/ v > MaxMoney
  BY <1>1, <1>2 DEF CheckOutput, OutputIteration
<1>3. CASE v \in 0 .. MaxMoney
  <2>1. nValueOut + v \in 0 .. Half - 1
    BY <1>1, <1>3, HalfBound, AmountAssumption DEF IInv
  <2>2. Wrap(nValueOut + v) = nValueOut + v
    BY <2>1, WrapIdentity
  <2>3. ~(v < 0) /\ ~(v > MaxMoney)
    BY <1>1, <1>3, AmountAssumption
  <2>4. CASE MoneyRange(nValueOut + v)
    <3>1. nValueOut' = nValueOut + v
      BY <2>2, <2>3, <2>4, Zenon DEF CheckOutput, OutputIteration
    <3>2. QED
      BY <1>1, <3>1, <2>4 DEF MoneyRange
  <2>5. CASE ~MoneyRange(nValueOut + v)
    BY <1>1, <2>2, <2>3, <2>5, Zenon DEF CheckOutput, OutputIteration, Reject
  <2>6. QED
    BY <2>4, <2>5
<1>4. QED
  BY <1>1, <1>2, <1>3, AmountAssumption

(***************************************************************************)
(* Every step of CheckTransaction preserves the inductive invariant.      *)
(***************************************************************************)
LEMMA NextIInv == IInv /\ [Next]_vars => IInv'
<1> SUFFICES ASSUME IInv, [Next]_vars PROVE IInv'
  OBVIOUS
<1>0. /\ tx.vin \in Seq(TxIn) /\ tx.vout \in Seq(Int)
      /\ DOMAIN tx.vin = 1 .. Len(tx.vin)
      /\ i \in Nat \ {0}
      /\ verdict \in Reasons
      /\ seen \subseteq {tx.vin[k].prevout : k \in DOMAIN tx.vin}
  BY TxShape DEF IInv, TxTypeOK
<1>1. CASE BasicChecks
  <2> DEFINE k == FirstFailure(BasicFailures(tx))
  <2>1. k \in 0 .. 6
    BY FirstFailureRange, BasicFailuresType
  <2>2. k # 0 => BasicReasons[k] \in Reasons
    BY <2>1 DEF Reasons, BasicReasons
  <2>3. verdict' \in Reasons /\ pc' \in {"done", "vout"}
    BY <1>0, <1>1, <2>2 DEF BasicChecks, Reject
  <2>4. QED
    BY <1>1, <2>3 DEF BasicChecks, IInv, TxTypeOK
<1>2. CASE CheckOutput
  <2>1. /\ i \in 1 .. Len(tx.vout)
        /\ \/ nValueOut' = nValueOut
           \/ nValueOut' \in 0 .. MaxMoney
    BY <1>2, CheckOutputSum
  <2>2. nValueOut' \in 0 .. MaxMoney /\ nValueOut' \in -Half .. Half - 1
    BY <2>1, HalfBound, AmountAssumption DEF IInv
  <2>3. /\ pc' \in {"vout", "done"} /\ i' \in Nat \ {0}
        /\ verdict' \in Reasons
        /\ UNCHANGED <<tx, fCheckDuplicateInputs, seen>>
    BY <1>0, <1>2, <2>1 DEF CheckOutput, OutputIteration, Reject, Reasons
  <2>4. QED
    BY <2>2, <2>3 DEF IInv, TxTypeOK
<1>3. CASE EndOutputs
  BY <1>3 DEF EndOutputs, IInv, TxTypeOK
<1>4. CASE CheckDuplicate
  <2>1. i \in DOMAIN tx.vin
    BY <1>0, <1>4 DEF CheckDuplicate
  <2>2. /\ seen' \subseteq {tx.vin[k].prevout : k \in DOMAIN tx.vin}
        /\ i' \in Nat \ {0} /\ verdict' \in Reasons
        /\ pc' \in {"dup", "done"}
        /\ UNCHANGED <<tx, fCheckDuplicateInputs, nValueOut>>
    BY <1>0, <1>4, <2>1 DEF CheckDuplicate, Reject, Reasons
  <2>3. QED
    BY <2>2 DEF IInv, TxTypeOK
<1>5. CASE EndDuplicates
  BY <1>5 DEF EndDuplicates, IInv, TxTypeOK
<1>6. CASE CheckCoinbase
  BY <1>6 DEF CheckCoinbase, Reject, IInv, TxTypeOK, Reasons
<1>7. CASE CheckPrevout
  <2>1. /\ i' \in Nat \ {0} /\ verdict' \in Reasons
        /\ pc' \in {"shape", "done"}
        /\ UNCHANGED <<tx, fCheckDuplicateInputs, nValueOut, seen>>
    BY <1>0, <1>7 DEF CheckPrevout, Reject, Reasons
  <2>2. QED
    BY <2>1 DEF IInv, TxTypeOK
<1>8. CASE UNCHANGED vars
  BY <1>8 DEF vars, IInv, TxTypeOK
<1>9. QED
  BY <1>1, <1>2, <1>3, <1>4, <1>5, <1>6, <1>7, <1>8 DEF Next

(***************************************************************************)
(* Every variable of CheckTransaction keeps its C++ type, for every       *)
(* transaction and every MAX_MONEY below half the CAmount range.          *)
(***************************************************************************)
LEMMA TxTypeCorrect == Spec => []TxTypeOK
<1>1. Spec => []IInv
  BY InitIInv, NextIInv, PTL DEF Spec
<1>2. QED
  BY <1>1, PTL DEF IInv

(***************************************************************************)
(* The addition nValueOut += txout.nValue never overflows: in every step  *)
(* that changes the running sum, the new sum is the exact one.            *)
(***************************************************************************)
THEOREM SumNeverOverflows == Spec => NoAmountOverflow
<1>1. IInv /\ [Next]_vars
        => (nValueOut' # nValueOut => nValueOut' = nValueOut + tx.vout[i])
  <2> SUFFICES ASSUME IInv, [Next]_vars, nValueOut' # nValueOut
               PROVE  nValueOut' = nValueOut + tx.vout[i]
    OBVIOUS
  <2>1. CheckOutput
    BY Zenon DEF Next, vars, BasicChecks, EndOutputs, CheckDuplicate,
                 EndDuplicates, CheckCoinbase, CheckPrevout
  <2>2. QED
    BY <2>1, CheckOutputSum
<1>2. Spec => []IInv
  BY InitIInv, NextIInv, PTL DEF Spec
<1>3. QED
  BY <1>1, <1>2, PTL DEF Spec, NoAmountOverflow

(***************************************************************************)
(* The least element of a set of integers, when there is one, is what the *)
(* CHOOSE of the reference rule picks.                                     *)
(***************************************************************************)
LEMMA LeastIs ==
  ASSUME NEW S \in SUBSET Int, NEW x \in S, \A j \in S : x <= j
  PROVE  (CHOOSE k \in S : \A j \in S : k <= j) = x
<1>1. \A k \in S : (\A j \in S : k <= j) => k = x
  OBVIOUS
<1>2. QED
  BY <1>1

(***************************************************************************)
(* Prefix sums restrict: outputs that are fine up to k are fine up to any  *)
(* j <= k.                                                                  *)
(***************************************************************************)
LEMMA OutputsOKRestrict ==
  ASSUME NEW t, NEW k \in Nat, NEW j \in 0 .. k, OutputsOK(t, k)
  PROVE  OutputsOK(t, j)
<1>1. PICK ps \in PrefixSums(t, k) : TRUE
  BY DEF OutputsOK
<1> DEFINE qs == [x \in 0 .. j |-> ps[x]]
<1>2. /\ ps \in [0 .. k -> 0 .. MaxMoney] /\ ps[0] = 0
      /\ \A x \in 1 .. k : ps[x] = ps[x - 1] + t.vout[x]
  BY <1>1 DEF PrefixSums
<1>3. qs \in [0 .. j -> 0 .. MaxMoney] /\ qs[0] = 0
  BY <1>2
<1>4. \A x \in 1 .. j : qs[x] = qs[x - 1] + t.vout[x]
  BY <1>2
<1>5. qs \in PrefixSums(t, j)
  BY <1>3, <1>4 DEF PrefixSums
<1>6. \A x \in 1 .. j : t.vout[x] \in 0 .. MaxMoney
  BY DEF OutputsOK
<1>7. QED
  BY <1>5, <1>6 DEF OutputsOK

(***************************************************************************)
(* One more output: every prefix-sum function on 0 .. k+1 ends at the     *)
(* total s of the first k outputs plus output k+1, when every one on       *)
(* 0 .. k ends at s.                                                        *)
(***************************************************************************)
LEMMA PrefixSumsNext ==
  ASSUME NEW t, NEW k \in Nat, NEW s,
         \A ps \in PrefixSums(t, k) : ps[k] = s
  PROVE  \A ps \in PrefixSums(t, k + 1) : ps[k + 1] = s + t.vout[k + 1]
<1> TAKE ps \in PrefixSums(t, k + 1)
<1> DEFINE qs == [x \in 0 .. k |-> ps[x]]
<1>1. qs \in PrefixSums(t, k)
  BY DEF PrefixSums
<1>2. ps[k] = s
  BY <1>1
<1>3. QED
  BY <1>2 DEF PrefixSums

(***************************************************************************)
(* One more output: when output k+1 and the new total are in range, the  *)
(* first k+1 outputs are fine.                                             *)
(***************************************************************************)
LEMMA OutputsOKExtend ==
  ASSUME NEW t, NEW k \in Nat, NEW s, OutputsOK(t, k),
         \A ps \in PrefixSums(t, k) : ps[k] = s,
         t.vout[k + 1] \in 0 .. MaxMoney, s + t.vout[k + 1] \in 0 .. MaxMoney
  PROVE  OutputsOK(t, k + 1)
<1>1. PICK ps \in PrefixSums(t, k) : TRUE
  BY DEF OutputsOK
<1>2. ps[k] = s
  BY <1>1
<1> DEFINE qs == [x \in 0 .. k + 1 |-> IF x <= k THEN ps[x] ELSE s + t.vout[k + 1]]
<1>3. qs \in PrefixSums(t, k + 1)
  BY <1>1, <1>2 DEF PrefixSums
<1>4. \A j \in 1 .. k + 1 : t.vout[j] \in 0 .. MaxMoney
  BY DEF OutputsOK
<1>5. QED
  BY <1>3, <1>4 DEF OutputsOK

(***************************************************************************)
(* One more output: an output out of range, or a total out of range,      *)
(* makes the first k+1 outputs fail.                                       *)
(***************************************************************************)
LEMMA OutputsOKFail ==
  ASSUME NEW t, NEW k \in Nat, NEW s,
         \A ps \in PrefixSums(t, k) : ps[k] = s,
         t.vout[k + 1] \notin 0 .. MaxMoney \/ s + t.vout[k + 1] \notin 0 .. MaxMoney
  PROVE  ~OutputsOK(t, k + 1)
<1>1. \A ps \in PrefixSums(t, k + 1) : ps[k + 1] = s + t.vout[k + 1]
  BY PrefixSumsNext
<1>2. CASE t.vout[k + 1] \notin 0 .. MaxMoney
  BY <1>2 DEF OutputsOK
<1>3. CASE s + t.vout[k + 1] \notin 0 .. MaxMoney
  <2>1. PrefixSums(t, k + 1) = {}
    BY <1>1, <1>3 DEF PrefixSums
  <2>2. QED
    BY <2>1 DEF OutputsOK
<1>4. QED
  BY <1>2, <1>3

(***************************************************************************)
(* What the reference rule returns, in each situation where the code      *)
(* returns.  First: some basic check fails.                                *)
(***************************************************************************)
LEMMA SpecBasic ==
  ASSUME NEW t, NEW c, \E k \in DOMAIN BasicFailures(t) : BasicFailures(t)[k]
  PROVE  SpecVerdict(t, c) = BasicReasons[FirstFailure(BasicFailures(t))]
BY DEF SpecVerdict, FirstFailure

(***************************************************************************)
(* Output k is the first to fail.                                          *)
(***************************************************************************)
LEMMA SpecOutput ==
  ASSUME NEW t, NEW c, t.vout \in Seq(Int),
         \A k \in DOMAIN BasicFailures(t) : ~BasicFailures(t)[k],
         NEW k \in 1 .. Len(t.vout), OutputsOK(t, k - 1), ~OutputsOK(t, k)
  PROVE  SpecVerdict(t, c) =
           IF t.vout[k] < 0 THEN "bad-txns-vout-negative"
           ELSE IF t.vout[k] > MaxMoney THEN "bad-txns-vout-toolarge"
           ELSE "bad-txns-txouttotal-toolarge"
<1> DEFINE badOut == {j \in 1 .. Len(t.vout) : ~OutputsOK(t, j)}
<1>1. \A j \in badOut : k <= j
  <2> SUFFICES ASSUME NEW j \in badOut, j < k PROVE FALSE
    OBVIOUS
  <2>1. OutputsOK(t, j)
    BY OutputsOKRestrict
  <2>2. QED
    BY <2>1
<1>2. (CHOOSE x \in badOut : \A j \in badOut : x <= j) = k
  BY <1>1, LeastIs
<1>3. ~\E x \in DOMAIN BasicFailures(t) : BasicFailures(t)[x]
  OBVIOUS
<1>4. badOut # {}
  OBVIOUS
<1>5. QED
  BY <1>2, <1>3, <1>4, Zenon DEF SpecVerdict

(***************************************************************************)
(* Every output is fine: the reference rule goes on to the inputs.         *)
(***************************************************************************)
LEMMA SpecInputs ==
  ASSUME NEW t, NEW c, t.vout \in Seq(Int),
         \A k \in DOMAIN BasicFailures(t) : ~BasicFailures(t)[k],
         OutputsOK(t, Len(t.vout))
  PROVE  SpecVerdict(t, c) =
           IF c /\ \E j, k \in DOMAIN t.vin :
                     j # k /\ t.vin[j].prevout = t.vin[k].prevout
             THEN "bad-txns-inputs-duplicate"
           ELSE IF IsCoinBase(t)
             THEN IF t.vin[1].scriptSigSize \in 1 .. 100 THEN "ok"
                  ELSE "bad-cb-length"
           ELSE IF \E k \in DOMAIN t.vin : t.vin[k].prevout = NullPrevout
             THEN "bad-txns-prevout-null"
           ELSE "ok"
<1>1. {j \in 1 .. Len(t.vout) : ~OutputsOK(t, j)} = {}
  BY OutputsOKRestrict
<1>2. ~\E x \in DOMAIN BasicFailures(t) : BasicFailures(t)[x]
  OBVIOUS
<1>3. QED
  BY <1>1, <1>2, Zenon DEF SpecVerdict, IsCoinBase

-----------------------------------------------------------------------------
(***************************************************************************)
(* The verdict.  The loops of CheckTransaction are proved against the     *)
(* declarative rule of section 4.C with a loop invariant per part of the  *)
(* function: what the iterations so far have established about the       *)
(* transaction.  It is the induction over the outputs and inputs that the *)
(* provers cannot do over the data directly.                               *)
(***************************************************************************)

\* All six basic checks pass.
NoBasicFailure == \A k \in DOMAIN BasicFailures(tx) : ~BasicFailures(tx)[k]

\* The first m inputs spend pairwise different prevouts.
Distinct(t, m) ==
    \A j, k \in 1 .. m : j # k => t.vin[j].prevout # t.vin[k].prevout

LoopInv ==
  /\ pc = "basic" => i = 1 /\ nValueOut = 0
  /\ pc \in {"basic", "vout"} => seen = {}
  /\ pc \in {"vout", "dup", "shape"} => NoBasicFailure
  /\ pc = "vout" => /\ i \in 1 .. Len(tx.vout) + 1
                    /\ OutputsOK(tx, i - 1)
                    /\ \A ps \in PrefixSums(tx, i - 1) : ps[i - 1] = nValueOut
  /\ pc \in {"dup", "shape"} => OutputsOK(tx, Len(tx.vout))
  /\ pc = "dup" => /\ fCheckDuplicateInputs
                   /\ i \in 1 .. Len(tx.vin) + 1
                   /\ seen = {tx.vin[k].prevout : k \in 1 .. i - 1}
                   /\ Distinct(tx, i - 1)
  /\ pc = "shape" => /\ fCheckDuplicateInputs => Distinct(tx, Len(tx.vin))
                     /\ i \in 1 .. Len(tx.vin) + 1
                     /\ \A k \in 1 .. i - 1 : tx.vin[k].prevout # NullPrevout
  /\ pc = "done" => verdict = SpecVerdict(tx, fCheckDuplicateInputs)

VerdictInv == IInv /\ LoopInv

LEMMA InitVerdictInv == Init => VerdictInv
<1> SUFFICES ASSUME Init PROVE VerdictInv
  OBVIOUS
<1>1. IInv
  BY InitIInv
<1>2. LoopInv
  BY DEF Init, LoopInv
<1>3. QED
  BY <1>1, <1>2 DEF VerdictInv

(***************************************************************************)
(* Facts every step of the proof below uses: the transaction's shape, and *)
(* that a finished check takes no more steps.                              *)
(***************************************************************************)
LEMMA StepFacts ==
  ASSUME VerdictInv
  PROVE  /\ tx.vin \in Seq(TxIn) /\ tx.vout \in Seq(Int)
         /\ DOMAIN tx.vin = 1 .. Len(tx.vin)
         /\ fCheckDuplicateInputs \in BOOLEAN
         /\ nValueOut \in 0 .. MaxMoney
BY TxShape DEF VerdictInv, IInv, TxTypeOK

LEMMA DoneStays ==
  ASSUME LoopInv, [Next]_vars, pc = "done"
  PROVE  LoopInv'
<1>1. UNCHANGED vars
  BY Zenon DEF Next, BasicChecks, CheckOutput, OutputIteration, EndOutputs,
               CheckDuplicate, EndDuplicates, CheckCoinbase, CheckPrevout
<1>2. QED
  BY <1>1 DEF vars, LoopInv

(***************************************************************************)
(* The basic checks either return the reason of the first failing one,    *)
(* which is the reference rule's, or start the output loop with nothing   *)
(* summed yet.                                                             *)
(***************************************************************************)
LEMMA BasicChecksInv ==
  ASSUME VerdictInv, BasicChecks
  PROVE  LoopInv'
<1> DEFINE k == FirstFailure(BasicFailures(tx))
<1>1. pc = "basic" /\ i = 1 /\ nValueOut = 0 /\ seen = {}
  BY DEF BasicChecks, VerdictInv, LoopInv
<1>2. UNCHANGED <<tx, fCheckDuplicateInputs, i, nValueOut, seen>>
  BY DEF BasicChecks
<1>3. CASE k # 0
  <2>1. pc' = "done" /\ verdict' = BasicReasons[k]
    BY <1>3, Zenon DEF BasicChecks, Reject
  <2>2. \E x \in DOMAIN BasicFailures(tx) : BasicFailures(tx)[x]
    BY <1>3 DEF FirstFailure
  <2>3. verdict' = SpecVerdict(tx, fCheckDuplicateInputs)
    BY <2>1, <2>2, SpecBasic
  <2>4. QED
    BY <1>2, <2>1, <2>3 DEF LoopInv
<1>4. CASE k = 0
  <2>1. pc' = "vout"
    BY <1>4, Zenon DEF BasicChecks
  <2>2. NoBasicFailure'
    <3>1. \A x \in DOMAIN BasicFailures(tx) : ~BasicFailures(tx)[x]
      <4>1. SUFFICES ASSUME NEW x \in DOMAIN BasicFailures(tx), BasicFailures(tx)[x]
                     PROVE FALSE
        OBVIOUS
      <4>2. \E y \in DOMAIN BasicFailures(tx) :
               BasicFailures(tx)[y] /\ \A j \in 1 .. y - 1 : ~BasicFailures(tx)[j]
        <5>1. DOMAIN BasicFailures(tx) = 1 .. 6
          BY BasicFailuresType
        <5>2. QED
          BY <4>1, <5>1
      <4>3. k \in DOMAIN BasicFailures(tx)
        BY <4>2 DEF FirstFailure
      <4>4. QED
        BY <1>4, <4>3, BasicFailuresType
    <3>2. QED
      BY <3>1, <1>2 DEF NoBasicFailure
  <2>3. OutputsOK(tx, 0) /\ \A ps \in PrefixSums(tx, 0) : ps[0] = 0
    <3>1. [x \in 0 .. 0 |-> 0] \in PrefixSums(tx, 0)
      BY AmountAssumption DEF PrefixSums
    <3>2. QED
      BY <3>1 DEF OutputsOK, PrefixSums
  <2>4. Len(tx.vout) \in Nat
    BY StepFacts
  <2>5. QED
    BY <1>1, <1>2, <2>1, <2>2, <2>3, <2>4 DEF LoopInv
<1>5. QED
  BY <1>3, <1>4

(***************************************************************************)
(* One iteration of the output loop: it rejects exactly when the first i  *)
(* outputs stop being fine, for the reference rule's reason, and          *)
(* otherwise nValueOut is the total of the first i outputs.                *)
(***************************************************************************)
LEMMA CheckOutputInv ==
  ASSUME VerdictInv, CheckOutput
  PROVE  LoopInv'
<1> DEFINE v == tx.vout[i]
           sum == nValueOut + v
           c == fCheckDuplicateInputs
<1>1. /\ pc = "vout" /\ i \in 1 .. Len(tx.vout)
      /\ NoBasicFailure /\ seen = {}
      /\ OutputsOK(tx, i - 1)
      /\ \A ps \in PrefixSums(tx, i - 1) : ps[i - 1] = nValueOut
  BY DEF CheckOutput, OutputIteration, VerdictInv, LoopInv
<1>2. v \in Int /\ nValueOut \in 0 .. MaxMoney /\ MaxMoney \in Nat
  BY <1>1, StepFacts, AmountAssumption
<1>3. UNCHANGED <<tx, fCheckDuplicateInputs, seen>>
  BY DEF CheckOutput, OutputIteration
<1>4. i - 1 \in Nat /\ (i - 1) + 1 = i
  BY <1>1
<1> HIDE DEF v, sum
<1>5. CASE v \notin 0 .. MaxMoney
  <2>1. ~OutputsOK(tx, i)
    BY <1>1, <1>4, <1>5, OutputsOKFail DEF v
  <2>0. v < 0 \/ v > MaxMoney
    BY <1>2, <1>5
  <2>2. pc' = "done" /\ verdict' = IF v < 0 THEN "bad-txns-vout-negative"
                                  ELSE "bad-txns-vout-toolarge"
    <3>1. CASE v < 0
      BY <3>1, Zenon DEF CheckOutput, OutputIteration, Reject, v
    <3>2. CASE ~(v < 0)
      <4>1. v > MaxMoney
        BY <2>0, <3>2
      <4>2. QED
        BY <3>2, <4>1, Zenon DEF CheckOutput, OutputIteration, Reject, v
    <3>3. QED
      BY <3>1, <3>2
  <2>3. verdict' = SpecVerdict(tx, c)
    BY <1>1, <1>2, <1>5, <2>1, <2>2, StepFacts, SpecOutput DEF NoBasicFailure, v
  <2>4. QED
    BY <1>3, <2>2, <2>3 DEF LoopInv
<1>6. CASE v \in 0 .. MaxMoney
  <2>1. sum \in 0 .. Half - 1 /\ Wrap(sum) = sum
    BY <1>2, <1>6, HalfBound, WrapIdentity DEF sum
  <2>2. ~(v < 0) /\ ~(v > MaxMoney)
    BY <1>2, <1>6
  <2>3. CASE ~MoneyRange(sum)
    <3>1. sum \notin 0 .. MaxMoney
      BY <2>3 DEF MoneyRange
    <3>2. ~OutputsOK(tx, i)
      BY <1>1, <1>4, <3>1, OutputsOKFail DEF v, sum
    <3>3. pc' = "done" /\ verdict' = "bad-txns-txouttotal-toolarge"
      BY <2>1, <2>2, <2>3, Zenon DEF CheckOutput, OutputIteration, Reject, v, sum
    <3>4. verdict' = SpecVerdict(tx, c)
      BY <1>1, <2>2, <3>2, <3>3, StepFacts, SpecOutput DEF NoBasicFailure, v
    <3>5. QED
      BY <1>3, <3>3, <3>4 DEF LoopInv
  <2>4. CASE MoneyRange(sum)
    <3>1. pc' = "vout" /\ i' = i + 1 /\ nValueOut' = sum
      BY <2>1, <2>2, <2>4, Zenon DEF CheckOutput, OutputIteration, v, sum
    <3>2. sum \in 0 .. MaxMoney
      BY <2>1, <2>4, <1>2 DEF MoneyRange
    <3>3. OutputsOK(tx, i)
      BY <1>1, <1>4, <1>6, <3>2, OutputsOKExtend DEF v, sum
    <3>4. \A ps \in PrefixSums(tx, i) : ps[i] = sum
      BY <1>1, <1>4, PrefixSumsNext DEF v, sum
    <3>5. i + 1 \in 1 .. Len(tx.vout) + 1 /\ (i + 1) - 1 = i
      BY <1>1
    <3>6. QED
      BY <1>1, <1>3, <3>1, <3>3, <3>4, <3>5 DEF LoopInv, NoBasicFailure
  <2>5. QED
    BY <2>3, <2>4
<1>7. QED
  BY <1>5, <1>6

(***************************************************************************)
(* Leaving the output loop: all outputs are fine, and the duplicate loop  *)
(* starts with an empty vInOutPoints.                                      *)
(***************************************************************************)
LEMMA EndOutputsInv ==
  ASSUME VerdictInv, EndOutputs
  PROVE  LoopInv'
<1>1. /\ pc = "vout" /\ i = Len(tx.vout) + 1 /\ NoBasicFailure /\ seen = {}
      /\ OutputsOK(tx, i - 1)
  BY StepFacts DEF EndOutputs, VerdictInv, LoopInv
<1>2. OutputsOK(tx, Len(tx.vout)) /\ Len(tx.vin) \in Nat
  BY <1>1, StepFacts
<1>3. /\ i' = 1 /\ pc' = IF fCheckDuplicateInputs THEN "dup" ELSE "shape"
      /\ UNCHANGED <<tx, fCheckDuplicateInputs, seen>>
  BY DEF EndOutputs
<1>4. {tx.vin[k].prevout : k \in 1 .. 0} = {} /\ Distinct(tx, 0)
  BY DEF Distinct
<1>5. QED
  BY <1>1, <1>2, <1>3, <1>4, StepFacts DEF LoopInv, NoBasicFailure

(***************************************************************************)
(* One iteration of the duplicate loop: the insert into vInOutPoints      *)
(* fails exactly when an earlier input spends the same prevout.            *)
(***************************************************************************)
LEMMA CheckDuplicateInv ==
  ASSUME VerdictInv, CheckDuplicate
  PROVE  LoopInv'
<1> DEFINE p == tx.vin[i].prevout
<1>1. /\ pc = "dup" /\ fCheckDuplicateInputs /\ i \in 1 .. Len(tx.vin)
      /\ NoBasicFailure /\ OutputsOK(tx, Len(tx.vout))
      /\ seen = {tx.vin[k].prevout : k \in 1 .. i - 1}
      /\ Distinct(tx, i - 1)
  BY DEF CheckDuplicate, VerdictInv, LoopInv
<1>2. UNCHANGED <<tx, fCheckDuplicateInputs, nValueOut>>
  BY DEF CheckDuplicate
<1>3. CASE p \in seen
  <2>1. pc' = "done" /\ verdict' = "bad-txns-inputs-duplicate"
    BY <1>3, Zenon DEF CheckDuplicate, Reject
  <2>2. \E j, k \in DOMAIN tx.vin : j # k /\ tx.vin[j].prevout = tx.vin[k].prevout
    <3>1. PICK j \in 1 .. i - 1 : tx.vin[j].prevout = p
      BY <1>1, <1>3
    <3>2. QED
      BY <1>1, <3>1, StepFacts
  <2>3. verdict' = SpecVerdict(tx, fCheckDuplicateInputs)
    BY <1>1, <2>1, <2>2, StepFacts, SpecInputs DEF NoBasicFailure
  <2>4. QED
    BY <1>2, <2>1, <2>3 DEF LoopInv
<1>4. CASE p \notin seen
  <2>1. pc' = "dup" /\ seen' = seen \cup {p} /\ i' = i + 1
    BY <1>4, Zenon DEF CheckDuplicate
  <2>2. seen' = {tx.vin[k].prevout : k \in 1 .. i}
    BY <1>1, <2>1
  <2>3. Distinct(tx, i)
    BY <1>1, <1>4 DEF Distinct
  <2>4. i + 1 \in 1 .. Len(tx.vin) + 1 /\ (i + 1) - 1 = i
    BY <1>1
  <2>5. QED
    BY <1>1, <1>2, <2>1, <2>2, <2>3, <2>4 DEF LoopInv, NoBasicFailure
<1>5. QED
  BY <1>3, <1>4

(***************************************************************************)
(* Leaving the duplicate loop: all inputs spend different prevouts.       *)
(***************************************************************************)
LEMMA EndDuplicatesInv ==
  ASSUME VerdictInv, EndDuplicates
  PROVE  LoopInv'
<1>1. /\ pc = "dup" /\ fCheckDuplicateInputs /\ i = Len(tx.vin) + 1
      /\ NoBasicFailure /\ OutputsOK(tx, Len(tx.vout))
      /\ Distinct(tx, i - 1)
  BY StepFacts DEF EndDuplicates, VerdictInv, LoopInv
<1>2. /\ pc' = "shape" /\ i' = 1
      /\ UNCHANGED <<tx, fCheckDuplicateInputs, nValueOut, seen>>
  BY DEF EndDuplicates
<1>3. Distinct(tx, Len(tx.vin)) /\ Len(tx.vin) \in Nat
  BY <1>1, StepFacts
<1>4. QED
  BY <1>1, <1>2, <1>3 DEF LoopInv, NoBasicFailure

(***************************************************************************)
(* In the last part no input pair is a duplicate the reference rule would *)
(* report, since the duplicate loop either ran to its end or was skipped. *)
(***************************************************************************)
LEMMA ShapeNoDuplicate ==
  ASSUME VerdictInv, pc = "shape"
  PROVE  ~(fCheckDuplicateInputs /\ \E j, k \in DOMAIN tx.vin :
                                      j # k /\ tx.vin[j].prevout = tx.vin[k].prevout)
BY StepFacts DEF VerdictInv, LoopInv, Distinct

(***************************************************************************)
(* A coinbase returns on the size of its scriptSig, as the rule does.     *)
(***************************************************************************)
LEMMA CheckCoinbaseInv ==
  ASSUME VerdictInv, CheckCoinbase
  PROVE  LoopInv'
<1> DEFINE sz == tx.vin[1].scriptSigSize
<1>1. /\ pc = "shape" /\ IsCoinBase(tx)
      /\ NoBasicFailure /\ OutputsOK(tx, Len(tx.vout))
  BY DEF CheckCoinbase, VerdictInv, LoopInv
<1>2. sz \in Nat
  <2>1. 1 \in DOMAIN tx.vin
    BY <1>1, StepFacts DEF IsCoinBase
  <2>2. tx.vin[1] \in TxIn
    BY <2>1, StepFacts
  <2>3. QED
    BY <2>2 DEF TxIn
<1>3. pc' = "done"
      /\ verdict' = (IF sz < 1 \/ sz > 100 THEN "bad-cb-length" ELSE "ok")
      /\ UNCHANGED <<tx, fCheckDuplicateInputs>>
  BY DEF CheckCoinbase, Reject
<1>4. (sz \in 1 .. 100) = ~(sz < 1 \/ sz > 100)
  BY <1>2
<1>5. SpecVerdict(tx, fCheckDuplicateInputs)
        = IF sz \in 1 .. 100 THEN "ok" ELSE "bad-cb-length"
  BY <1>1, ShapeNoDuplicate, StepFacts, SpecInputs, Zenon DEF NoBasicFailure
<1>6. verdict' = SpecVerdict(tx, fCheckDuplicateInputs)
  BY <1>3, <1>4, <1>5, Zenon
<1>7. QED
  BY <1>3, <1>6 DEF LoopInv

(***************************************************************************)
(* One iteration of the null-prevout loop, or its end.                     *)
(***************************************************************************)
LEMMA CheckPrevoutInv ==
  ASSUME VerdictInv, CheckPrevout
  PROVE  LoopInv'
<1>1. /\ pc = "shape" /\ ~IsCoinBase(tx) /\ i \in 1 .. Len(tx.vin) + 1
      /\ NoBasicFailure /\ OutputsOK(tx, Len(tx.vout))
      /\ fCheckDuplicateInputs => Distinct(tx, Len(tx.vin))
      /\ \A k \in 1 .. i - 1 : tx.vin[k].prevout # NullPrevout
  BY DEF CheckPrevout, VerdictInv, LoopInv
<1>2. UNCHANGED <<tx, fCheckDuplicateInputs, nValueOut, seen>>
  BY DEF CheckPrevout
<1> DEFINE rest ==
      IF \E k \in DOMAIN tx.vin : tx.vin[k].prevout = NullPrevout
        THEN "bad-txns-prevout-null" ELSE "ok"
<1>3. SpecVerdict(tx, fCheckDuplicateInputs) = rest
  BY <1>1, ShapeNoDuplicate, StepFacts, SpecInputs, Zenon DEF NoBasicFailure
<1>4. CASE i > Len(tx.vin)
  <2>1. pc' = "done" /\ verdict' = "ok"
    BY <1>4, Zenon DEF CheckPrevout, Reject
  <2>2. ~\E k \in DOMAIN tx.vin : tx.vin[k].prevout = NullPrevout
    BY <1>1, <1>4, StepFacts
  <2>3. QED
    BY <1>2, <1>3, <2>1, <2>2 DEF LoopInv
<1>5. CASE i <= Len(tx.vin) /\ tx.vin[i].prevout = NullPrevout
  <2>0. ~(i > Len(tx.vin))
    BY <1>1, <1>5, StepFacts
  <2>1. pc' = "done" /\ verdict' = "bad-txns-prevout-null"
    BY <1>5, <2>0, Zenon DEF CheckPrevout, Reject
  <2>2. \E k \in DOMAIN tx.vin : tx.vin[k].prevout = NullPrevout
    BY <1>1, <1>5, StepFacts
  <2>3. QED
    BY <1>2, <1>3, <2>1, <2>2 DEF LoopInv
<1>6. CASE i <= Len(tx.vin) /\ tx.vin[i].prevout # NullPrevout
  <2>0. ~(i > Len(tx.vin))
    BY <1>1, <1>6, StepFacts
  <2>1. pc' = "shape" /\ i' = i + 1
    BY <1>6, <2>0, Zenon DEF CheckPrevout
  <2>2. i + 1 \in 1 .. Len(tx.vin) + 1 /\ (i + 1) - 1 = i
    BY <1>1, <1>6
  <2>3. \A k \in 1 .. i : tx.vin[k].prevout # NullPrevout
    BY <1>1, <1>6
  <2>4. QED
    BY <1>1, <1>2, <2>1, <2>2, <2>3 DEF LoopInv, NoBasicFailure
<1>7. QED
  BY <1>1, <1>4, <1>5, <1>6, StepFacts

LEMMA NextVerdictInv == VerdictInv /\ [Next]_vars => VerdictInv'
<1> SUFFICES ASSUME VerdictInv, [Next]_vars PROVE VerdictInv'
  OBVIOUS
<1>1. IInv'
  BY NextIInv DEF VerdictInv
<1>2. LoopInv'
  <2>1. CASE BasicChecks
    BY <2>1, BasicChecksInv
  <2>2. CASE CheckOutput
    BY <2>2, CheckOutputInv
  <2>3. CASE EndOutputs
    BY <2>3, EndOutputsInv
  <2>4. CASE CheckDuplicate
    BY <2>4, CheckDuplicateInv
  <2>5. CASE EndDuplicates
    BY <2>5, EndDuplicatesInv
  <2>6. CASE CheckCoinbase
    BY <2>6, CheckCoinbaseInv
  <2>7. CASE CheckPrevout
    BY <2>7, CheckPrevoutInv
  <2>8. CASE UNCHANGED vars
    BY <2>8 DEF VerdictInv, LoopInv, vars, NoBasicFailure
  <2>9. QED
    BY <2>1, <2>2, <2>3, <2>4, <2>5, <2>6, <2>7, <2>8 DEF Next
<1>3. QED
  BY <1>1, <1>2 DEF VerdictInv

\* For every MAX_MONEY and every set of transactions, every reachable state
\* of CheckTransaction satisfies the loop invariant: what each program
\* counter has established about the checks, the output sums and the
\* prevout set, and the spec's verdict once the call has returned.
THEOREM LoopInvariant == Spec => []VerdictInv
BY InitVerdictInv, NextVerdictInv, PTL DEF Spec

(***************************************************************************)
(* Section 4.C of the spec, for every MAX_MONEY, CAmount width and set of  *)
(* transactions: when CheckTransaction returns, its verdict is the         *)
(* reference rule's, the reason of the first failing check, with exact    *)
(* output totals.  The loop invariant LoopInv carries what the loops have *)
(* established so far.                                                     *)
(***************************************************************************)
THEOREM VerdictCorrect == Spec => []VerdictMatchesSpec
<1>1. Spec => []VerdictInv
  BY LoopInvariant
<1>2. VerdictInv => VerdictMatchesSpec
  BY DEF VerdictInv, LoopInv, VerdictMatchesSpec
<1>3. QED
  BY <1>1, <1>2, PTL
=============================================================================
