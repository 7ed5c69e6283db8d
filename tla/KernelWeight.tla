---------------------------- MODULE KernelWeight ----------------------------
(***************************************************************************)
(* The weighted-target comparison of CheckStakeKernelHash                 *)
(* (src/src/pos/kernel.cpp 344-367) in the code's integer types: the     *)
(* int64 product nValueIn * nTimeWeight, the truncating divisions by COIN *)
(* and 200, the conversion of the int64 result into arith_uint256 through *)
(* its uint64 constructor, and the 256-bit product with the target.      *)
(* Widths are scaled: an int64 is an AmountBits-bit two's-complement      *)
(* integer and an arith_uint256 a HashBits-bit unsigned one.  Signed      *)
(* overflow of the product is undefined; the builds compute it with a     *)
(* wrapping multiply, which is the outcome modelled.                      *)
(***************************************************************************)
EXTENDS Integers

CONSTANTS
    Coin,               \* COIN
    AmountBits,         \* width of int64_t / CAmount
    HashBits,           \* width of arith_uint256
    MaxWeightTime,      \* params.nStakeMaxAge - params.nStakeMinAge
    Values,             \* nValueIn of the staked outputs
    Ages,               \* nTimeTx - txPrevTime, past the minimum age
    Targets,            \* bnTargetPerCoinDay after SetCompact
    Hashes              \* UintToArith256(hashProofOfStake)

ASSUME KernelWeightAssumption ==
    /\ Coin \in Nat \ {0}
    /\ AmountBits \in Nat \ {0} /\ HashBits \in Nat /\ AmountBits <= HashBits
    /\ 2 ^ (AmountBits - 1) \in Nat \ {0} /\ 2 ^ HashBits \in Nat \ {0}
    /\ MaxWeightTime \in Nat
    /\ Values \subseteq Nat
    /\ Ages \subseteq Nat
    /\ Targets \subseteq 0 .. 2 ^ HashBits - 1
    /\ Hashes \subseteq 0 .. 2 ^ HashBits - 1

VARIABLES
    input,     \* the staked amount, coin age, target and kernel hash
    checked,   \* whether the comparison has run
    accepted   \* its result

vars == <<input, checked, accepted>>

Inputs == [value : Values, age : Ages, target : Targets, hash : Hashes]

\* An int64 holds -Int64Half .. Int64Half - 1; a uint64 is taken modulo
\* 2 * Int64Half.
Int64Half == 2 ^ (AmountBits - 1)

\* Two's-complement result of an int64 operation.
WrapSigned(x) == ((x + Int64Half) % (2 * Int64Half)) - Int64Half

\* C++ integer division, which truncates toward zero.
TruncDiv(a, b) == IF a >= 0 THEN a \div b ELSE -((-a) \div b)

Min2(a, b) == IF a <= b THEN a ELSE b

\* Mutant: the time weight is not capped at nStakeMaxAge - nStakeMinAge.
CoinDayWeightNoCap(in) ==
    LET w == TruncDiv(TruncDiv(WrapSigned(in.value * in.age), Coin), 200)
    IN  w % (2 * Int64Half)

\* Lines 350-351: nTimeWeight, then bnCoinDayWeight = nValueIn *
\* nTimeWeight / COIN / 200 in int64, converted to uint64 and widened.
CoinDayWeight(in) ==
    LET nTimeWeight == Min2(in.age, MaxWeightTime)
        w == TruncDiv(TruncDiv(WrapSigned(in.value * nTimeWeight), Coin), 200)
    IN  w % (2 * Int64Half)

\* Line 365: the kernel fails when the hash exceeds the 256-bit product
\* bnCoinDayWeight * bnTargetPerCoinDay, which wraps modulo 2^256.
CheckKernelWeight(in) ==
    ~(in.hash > (CoinDayWeight(in) * in.target) % (2 ^ HashBits))

Init ==
    /\ input \in Inputs
    /\ checked = FALSE
    /\ accepted = FALSE

\* The comparison is computed once for the chosen input.
Check ==
    /\ ~checked
    /\ checked' = TRUE
    /\ accepted' = CheckKernelWeight(input)
    /\ UNCHANGED input

Next == Check

Spec == Init /\ [][Next]_vars

-----------------------------------------------------------------------------
(***************************************************************************)
(* Properties.                                                             *)
(***************************************************************************)

\* Section 4.F of the spec: coin_day_weight = value_in * time_weight / COIN
\* / 200 with exact arithmetic, and the kernel is accepted iff the hash is
\* at most coin_day_weight * target, a product that is never accepted when
\* it overflows 256 bits.
SpecWeight(in) == ((in.value * Min2(in.age, MaxWeightTime)) \div Coin) \div 200
SpecAccepts(in) ==
    LET bound == SpecWeight(in) * in.target
    IN  bound < 2 ^ HashBits /\ in.hash <= bound

\* No arithmetic of lines 350-365 overflows its type for this input.
NoOverflow(in) ==
    /\ in.value * Min2(in.age, MaxWeightTime) < Int64Half
    /\ SpecWeight(in) * in.target < 2 ^ HashBits

\* Whenever neither the int64 product nor the 256-bit product overflows,
\* the code's chain of int64 operations, truncating divisions and width
\* conversions accepts exactly the kernels the spec's formula accepts.
KernelWeightExactInRange ==
    checked /\ NoOverflow(input) => accepted = SpecAccepts(input)

\* Section 4.F of the spec, for every input: the code accepts a kernel iff
\* the spec's exact, overflow-rejecting comparison does.
KernelAcceptsAsSpec ==
    checked => accepted = SpecAccepts(input)

=============================================================================
