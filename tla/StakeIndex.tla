----------------------------- MODULE StakeIndex -----------------------------
(***************************************************************************)
(* Abstract specification of the block index as the stake-modifier engine *)
(* sees it (src/src/pos/kernel.cpp, ComputeNextStakeModifier and          *)
(* GetLastStakeModifier).  Blocks are appended to a tree, each below an    *)
(* existing parent.  What the engine promises for every new block:        *)
(*   - the genesis block generates modifier 0;                             *)
(*   - a block generates a fresh modifier exactly when the modifier        *)
(*     interval of its parent and its own interval have both moved past    *)
(*     the interval of the last generating ancestor;                      *)
(*   - otherwise it carries that ancestor's modifier unchanged.            *)
(* The value of a fresh modifier is left open: the detailed module        *)
(* StakeModifier computes it from 64 selection rounds and is shown to     *)
(* implement this one.                                                     *)
(*                                                                         *)
(* lastGen is not a field of CBlockIndex: it names, for every block, the  *)
(* block GetLastStakeModifier finds when walking back from it.            *)
(***************************************************************************)
EXTENDS Naturals

CONSTANTS
    MaxBlocks,         \* bound on the number of blocks in the index
    Times,             \* block timestamps (nTime) a block may carry
    GenesisTime,       \* nTime of the genesis block
    ModifierInterval,  \* Consensus::Params::nModifierInterval, in seconds
    ModifierValues     \* the fresh modifier values a model distinguishes

ASSUME MaxBlocksAssumption == MaxBlocks \in Nat \ {0}
ASSUME TimesAssumption == Times \subseteq Nat /\ GenesisTime \in Nat
ASSUME IntervalAssumption == ModifierInterval \in Nat \ {0}
ASSUME ValuesAssumption == ModifierValues \subseteq Nat /\ 0 \in ModifierValues

VARIABLES
    nBlocks,    \* blocks 0 .. nBlocks-1 are in the index; 0 is genesis
    parent,     \* pprev
    time,       \* nTime
    isPoS,      \* IsProofOfStake()
    generated,  \* GeneratedStakeModifier() flag
    modifier,   \* nStakeModifier
    lastGen     \* the block GetLastStakeModifier stops at

vars == <<nBlocks, parent, time, isPoS, generated, modifier, lastGen>>

Ids == 0 .. MaxBlocks - 1
Blocks == 0 .. nBlocks - 1

\* The modifier interval a timestamp falls in (t / nModifierInterval).
Bucket(t) == t \div ModifierInterval

\* The two "no new interval" early returns of ComputeNextStakeModifier,
\* negated: both the parent's and the new block's interval are past the
\* interval of the last generated modifier.
NewInterval(p, t) ==
    /\ Bucket(time[lastGen[p]]) < Bucket(time[p])
    /\ Bucket(time[lastGen[p]]) < Bucket(t)

Init ==
    /\ nBlocks = 1
    /\ parent = [b \in Ids |-> 0]
    /\ time = [b \in Ids |-> GenesisTime]
    /\ isPoS = [b \in Ids |-> FALSE]
    /\ generated = [b \in Ids |-> b = 0]
    /\ modifier = [b \in Ids |-> 0]
    /\ lastGen = [b \in Ids |-> 0]

\* Mutant: a block that keeps the last modifier is left with modifier 0.
AcceptBlockNoCarry(p, t, pos) ==
    LET n == nBlocks
        gen == NewInterval(p, t)
    IN  /\ n < MaxBlocks
        /\ nBlocks' = n + 1
        /\ parent' = [parent EXCEPT ![n] = p]
        /\ time' = [time EXCEPT ![n] = t]
        /\ isPoS' = [isPoS EXCEPT ![n] = pos]
        /\ generated' = [generated EXCEPT ![n] = gen]
        /\ lastGen' = [lastGen EXCEPT ![n] = IF gen THEN n ELSE lastGen[p]]
        /\ \E v \in ModifierValues :
             modifier' = [modifier EXCEPT ![n] = IF gen THEN v ELSE 0]

\* Mutant: the new block is linked one id below its parent.
AcceptBlockLinkOffByOne(p, t, pos) ==
    LET n == nBlocks
        gen == NewInterval(p, t)
    IN  /\ n < MaxBlocks
        /\ nBlocks' = n + 1
        /\ parent' = [parent EXCEPT ![n] = p - 1]
        /\ time' = [time EXCEPT ![n] = t]
        /\ isPoS' = [isPoS EXCEPT ![n] = pos]
        /\ generated' = [generated EXCEPT ![n] = gen]
        /\ lastGen' = [lastGen EXCEPT ![n] = IF gen THEN n ELSE lastGen[p]]
        /\ \E v \in ModifierValues :
             modifier' = [modifier EXCEPT ![n] =
                            IF gen THEN v ELSE modifier[lastGen[p]]]

\* A block with timestamp t is connected below p; the engine either
\* generates a fresh modifier or keeps the last one.
AcceptBlock(p, t, pos) ==
    LET n == nBlocks
        gen == NewInterval(p, t)
    IN  /\ n < MaxBlocks
        /\ nBlocks' = n + 1
        /\ parent' = [parent EXCEPT ![n] = p]
        /\ time' = [time EXCEPT ![n] = t]
        /\ isPoS' = [isPoS EXCEPT ![n] = pos]
        /\ generated' = [generated EXCEPT ![n] = gen]
        /\ lastGen' = [lastGen EXCEPT ![n] = IF gen THEN n ELSE lastGen[p]]
        /\ \E v \in ModifierValues :
             modifier' = [modifier EXCEPT ![n] =
                            IF gen THEN v ELSE modifier[lastGen[p]]]

Next == \E p \in Blocks, t \in Times, pos \in BOOLEAN : AcceptBlock(p, t, pos)

Spec == Init /\ [][Next]_vars

-----------------------------------------------------------------------------
IndexTypeOK ==
    /\ nBlocks \in 1 .. MaxBlocks
    /\ parent \in [Ids -> Ids]
    /\ time \in [Ids -> Nat]
    /\ isPoS \in [Ids -> BOOLEAN]
    /\ generated \in [Ids -> BOOLEAN]
    /\ modifier \in [Ids -> Nat]
    /\ lastGen \in [Ids -> Ids]

(***************************************************************************)
(* GetLastStakeModifier never reaches its "no generation at genesis       *)
(* block" error: genesis is generated, every block's parent was accepted  *)
(* before it, and the walk back from any block stops at a generated block *)
(* no later than it, whose modifier the block carries.                    *)
(***************************************************************************)
LastModifierFound ==
    /\ generated[0]
    /\ \A b \in Blocks \ {0} : parent[b] < b
    /\ \A b \in Blocks :
         /\ lastGen[b] <= b
         /\ generated[lastGen[b]]
         /\ lastGen[b] = IF generated[b] THEN b ELSE lastGen[parent[b]]
         /\ modifier[b] = modifier[lastGen[b]]
=============================================================================
