-------------------------- MODULE KernelWeight_proofs --------------------------
(***************************************************************************)
(* Proofs about the kernel weight comparison for every int64 and uint256  *)
(* width, every COIN and every weight cap the assumptions allow.          *)
(***************************************************************************)
EXTENDS KernelWeight, TLAPS

(***************************************************************************)
(* The fields of an input are naturals, target and hash below 2^256.      *)
(***************************************************************************)
LEMMA InputFields ==
  ASSUME NEW in \in Inputs
  PROVE  /\ in.value \in Nat /\ in.age \in Nat
         /\ Min2(in.age, MaxWeightTime) \in Nat
         /\ in.target \in 0 .. 2 ^ HashBits - 1
         /\ in.hash \in 0 .. 2 ^ HashBits - 1
BY KernelWeightAssumption DEF Inputs, Min2

LEMMA WidthsPositive ==
  /\ Int64Half \in Nat \ {0}
  /\ 2 ^ HashBits \in Nat \ {0}
BY KernelWeightAssumption DEF Int64Half

(***************************************************************************)
(* Below the int64 bound, the wrapping product, the truncating divisions  *)
(* and the conversion to uint64 compute the spec's exact weight.          *)
(***************************************************************************)
LEMMA CoinDayWeightExact ==
  ASSUME NEW in \in Inputs,
         in.value * Min2(in.age, MaxWeightTime) < Int64Half
  PROVE  CoinDayWeight(in) = SpecWeight(in)
<1> DEFINE x == in.value * Min2(in.age, MaxWeightTime)
<1>1. x \in 0 .. Int64Half - 1
  BY InputFields, WidthsPositive
<1>2. WrapSigned(x) = x
  BY <1>1, WidthsPositive DEF WrapSigned
<1>3. TruncDiv(TruncDiv(x, Coin), 200) = (x \div Coin) \div 200
  BY <1>1, KernelWeightAssumption DEF TruncDiv
<1>4. (x \div Coin) \div 200 \in 0 .. Int64Half - 1
  <2>1. x \div Coin \in 0 .. x
    BY <1>1, KernelWeightAssumption
  <2>2. (x \div Coin) \div 200 \in 0 .. x \div Coin
    BY <2>1
  <2>3. QED
    BY <1>1, <2>1, <2>2, WidthsPositive
<1>5. ((x \div Coin) \div 200) % (2 * Int64Half) = (x \div Coin) \div 200
  BY <1>4, WidthsPositive
<1>6. QED
  BY <1>2, <1>3, <1>5 DEF CoinDayWeight, SpecWeight

(***************************************************************************)
(* When nothing overflows, the code's comparison is the spec's.          *)
(***************************************************************************)
LEMMA CheckExactInRange ==
  ASSUME NEW in \in Inputs, NoOverflow(in)
  PROVE  CheckKernelWeight(in) = SpecAccepts(in)
<1>1. CoinDayWeight(in) = SpecWeight(in)
  BY CoinDayWeightExact DEF NoOverflow
<1>2. SpecWeight(in) * in.target \in 0 .. 2 ^ HashBits - 1
  <2>1. SpecWeight(in) \in Nat /\ in.target \in Nat
    BY InputFields, WidthsPositive, KernelWeightAssumption DEF SpecWeight
  <2>2. QED
    BY <2>1, WidthsPositive DEF NoOverflow
<1>3. (SpecWeight(in) * in.target) % (2 ^ HashBits) = SpecWeight(in) * in.target
  BY <1>2, WidthsPositive
<1>4. in.hash \in Int
  BY InputFields, WidthsPositive
<1>5. (CoinDayWeight(in) * in.target) % (2 ^ HashBits) = SpecWeight(in) * in.target
  BY <1>1, <1>3
<1>6. CheckKernelWeight(in) <=> in.hash <= SpecWeight(in) * in.target
  BY <1>2, <1>4, <1>5 DEF CheckKernelWeight
<1>7. SpecAccepts(in) <=> in.hash <= SpecWeight(in) * in.target
  BY <1>2, <1>4, WidthsPositive DEF SpecAccepts
<1>8. QED
  BY <1>6, <1>7, Zenon DEF CheckKernelWeight, SpecAccepts

(***************************************************************************)
(* The result recorded after the comparison is the code's comparison of  *)
(* the chosen input.                                                       *)
(***************************************************************************)
IInv ==
  /\ input \in Inputs
  /\ checked \in BOOLEAN
  /\ checked => accepted = CheckKernelWeight(input)

LEMMA InitIInv == Init => IInv
BY DEF Init, IInv

LEMMA NextIInv == IInv /\ [Next]_vars => IInv'
<1> SUFFICES ASSUME IInv, [Next]_vars PROVE IInv'
  OBVIOUS
<1>1. CASE Check
  <2>1. input' = input /\ checked' = TRUE
        /\ accepted' = CheckKernelWeight(input)
    BY <1>1 DEF Check
  <2>2. QED
    BY <2>1 DEF IInv
<1>2. CASE UNCHANGED vars
  BY <1>2 DEF IInv, vars
<1>3. QED
  BY <1>1, <1>2 DEF Next

(***************************************************************************)
(* For every width of int64 and arith_uint256: whenever neither product   *)
(* overflows, CheckStakeKernelHash's weighted-target comparison accepts   *)
(* exactly the kernels the spec's formula accepts.                        *)
(***************************************************************************)
THEOREM WeightExactInRange == Spec => []KernelWeightExactInRange
<1>1. IInv => KernelWeightExactInRange
  BY CheckExactInRange DEF IInv, KernelWeightExactInRange
<1>2. QED
  BY <1>1, InitIInv, NextIInv, PTL DEF Spec
=============================================================================
