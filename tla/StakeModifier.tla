---------------------------- MODULE StakeModifier ----------------------------
(***************************************************************************)
(* The proof-of-stake kernel of src/src/pos/kernel.cpp over a block tree. *)
(*                                                                         *)
(* Every block accepted into the index goes through ComputeNextStakeModifier*)
(* (the whole selection: last modifier, candidate window, sort, 64 rounds *)
(* of SelectBlockFromCandidates); a proof-of-stake block first passes     *)
(* CheckProofOfStake, i.e. CheckStakeKernelHash with the modifier that    *)
(* GetKernelStakeModifierV03 locates, and keeps its hashProofOfStake.     *)
(* The active chain is the ancestors of tip; it moves independently.     *)
(*                                                                         *)
(* Data is abstracted: block hashes, the selection hash and the kernel    *)
(* hash are fixed functions given by the model (HashOf, SelectionHash,    *)
(* KernelHash); amounts are counted in units of Coin.                     *)
(***************************************************************************)
EXTENDS Integers, Sequences, SequencesExt

CONSTANTS
    MaxBlocks, Times, GenesisTime,
    ModifierInterval,  \* nModifierInterval
    StakeMinAge,       \* nStakeMinAge
    StakeMaxAge,       \* nStakeMaxAge
    StakeEnforcement,  \* StakeEnforcement(): height after which checks harden
    MinStakeAmount,    \* MinStakeAmount()
    MinStakeHistory,   \* nMinStakeHistory, used by HasStakeMinDepth
    Coin,              \* COIN
    Values,            \* output values a staked coin may have
    PrevoutIndexes,    \* prevout.n of the kernel input
    TargetPerCoinDay,  \* SetCompact(nBits) of the blocks
    PosShift,          \* the right shift of a PoS selection hash (32)
    HashOf,            \* block hash of each block id
    SelectionHash(_, _),         \* Hash(hashProof || nStakeModifierPrev)
    KernelHash(_, _, _, _, _)    \* Hash(modifier||tFrom||tPrev||n||tTx)

ASSUME ParamsAssumption ==
    /\ MaxBlocks \in Nat \ {0} /\ Times \subseteq Nat /\ GenesisTime \in Nat
    /\ ModifierInterval \in Nat \ {0} /\ Coin \in Nat \ {0}
    /\ StakeMinAge \in Nat /\ StakeMaxAge \in Nat /\ StakeMinAge < StakeMaxAge
    /\ HashOf \in [0 .. MaxBlocks - 1 -> Nat]

VARIABLES nBlocks, parent, height, time, isPoS, proofHash,
          generated, modifier, tip

vars == <<nBlocks, parent, height, time, isPoS, proofHash,
          generated, modifier, tip>>

Ids == 0 .. MaxBlocks - 1
Blocks == 0 .. nBlocks - 1
Null == -1                                 \* nullptr
Bucket(t) == t \div ModifierInterval
Min2(a, b) == IF a < b THEN a ELSE b

\* uint256 operator<: memcmp of the little-endian bytes, low byte first
\* (two bytes suffice for the model's hashes).
HashLess(a, b) ==
    \/ a % 256 < b % 256
    \/ a % 256 = b % 256 /\ a \div 256 < b \div 256

----------------------------------------------------------------------------
(* Block index walks. *)

RECURSIVE AncestorAt(_, _)
AncestorAt(b, h) == IF height[b] <= h THEN b ELSE AncestorAt(parent[b], h)

IsAncestor(a, b) == height[a] <= height[b] /\ AncestorAt(b, height[a]) = a

\* CChain::Contains and CChain::Next for the chain ending at tip.
InActive(b) == IsAncestor(b, tip)
ActiveNext(b) ==
    IF InActive(b) /\ height[b] < height[tip]
    THEN AncestorAt(tip, height[b] + 1) ELSE Null

\* GetLastStakeModifier: the first generated block walking back from b.
RECURSIVE LastGen(_)
LastGen(b) == IF generated[b] THEN b ELSE LastGen(parent[b])

\* GetStakeEntropyBit: lowest bit of the block hash.
EntropyBit(b) == HashOf[b] % 2

----------------------------------------------------------------------------
(* The selection interval. *)

\* GetStakeModifierSelectionIntervalSection, MODIFIER_INTERVAL_RATIO = 3.
Section(k) == (ModifierInterval * 63) \div (63 + (63 - k) * (3 - 1))

\* The first k sections added up; GetStakeModifierSelectionInterval is all 64.
SectionsUpTo[k \in 0 .. 64] == IF k = 0 THEN 0 ELSE SectionsUpTo[k - 1] + Section(k - 1)
SelectionInterval == SectionsUpTo[64]

----------------------------------------------------------------------------
(* ComputeNextStakeModifier *)

\* The candidates: prev and its ancestors back to the first one older than
\* the selection start, as (time, hash) sorted ascending.
RECURSIVE Window(_, _)
Window(b, start) ==
    IF b = Null \/ time[b] < start THEN {}
    ELSE {b} \cup Window(IF b = 0 THEN Null ELSE parent[b], start)

SortedCandidates(prev, start) ==
    SetToSortSeq(Window(prev, start),
                 LAMBDA a, b : time[a] < time[b]
                               \/ (time[a] = time[b] /\ HashLess(HashOf[a], HashOf[b])))

\* hashSelection of a candidate: its proof hash (PoS) or block hash (PoW)
\* hashed with the previous modifier; PoS hashes shifted right.
SelectionHashOf(b, modPrev) ==
    IF isPoS[b] THEN SelectionHash(proofHash[b], modPrev) \div 2^PosShift
    ELSE SelectionHash(HashOf[b], modPrev)

\* Mutant: the loop breaks at the first candidate past the stop even when
\* nothing has been selected yet.
SelectBlockFromCandidatesEagerBreak(sorted, selected, stop, modPrev) ==
    LET step(acc, b) ==
          IF acc.brk THEN acc
          ELSE IF time[b] > stop THEN [acc EXCEPT !.brk = TRUE]
          ELSE IF b \in selected THEN acc
          ELSE IF acc.found /\ SelectionHashOf(b, modPrev) < acc.best
               THEN [acc EXCEPT !.best = SelectionHashOf(b, modPrev), !.pick = b]
          ELSE IF ~acc.found
               THEN [acc EXCEPT !.found = TRUE, !.best = SelectionHashOf(b, modPrev),
                                !.pick = b]
          ELSE acc
    IN  FoldLeft(step, [found |-> FALSE, brk |-> FALSE, best |-> 0, pick |-> Null],
                 sorted)

\* SelectBlockFromCandidates: one pass over the sorted candidates.
SelectBlockFromCandidates(sorted, selected, stop, modPrev) ==
    LET step(acc, b) ==
          IF acc.brk THEN acc
          ELSE IF acc.found /\ time[b] > stop THEN [acc EXCEPT !.brk = TRUE]
          ELSE IF b \in selected THEN acc
          ELSE IF acc.found /\ SelectionHashOf(b, modPrev) < acc.best
               THEN [acc EXCEPT !.best = SelectionHashOf(b, modPrev), !.pick = b]
          ELSE IF ~acc.found
               THEN [acc EXCEPT !.found = TRUE, !.best = SelectionHashOf(b, modPrev),
                                !.pick = b]
          ELSE acc
    IN  FoldLeft(step, [found |-> FALSE, brk |-> FALSE, best |-> 0, pick |-> Null],
                 sorted)

\* Mutant: one round more than there are candidates (nRound <= size).
RoundsOneMore(sorted, start, modPrev) ==
    LET round(acc, r) ==
          LET stop == acc.stop + Section(r)
              sel == SelectBlockFromCandidates(sorted, acc.selected, stop, modPrev)
          IN  [ok |-> acc.ok /\ sel.found, stop |-> stop,
               selected |-> acc.selected \cup {sel.pick},
               picks |-> Append(acc.picks, sel.pick),
               mod |-> IF sel.found THEN acc.mod + EntropyBit(sel.pick) * 2^r
                       ELSE acc.mod]
    IN  FoldLeft(round, [ok |-> TRUE, stop |-> start, selected |-> {},
                         picks |-> <<>>, mod |-> 0],
                 [i \in 1 .. Min2(64, Len(sorted) + 1) |-> i - 1])

\* The selection rounds: nRound < min(64, candidates).
Rounds(sorted, start, modPrev) ==
    LET round(acc, r) ==
          LET stop == acc.stop + Section(r)
              sel == SelectBlockFromCandidates(sorted, acc.selected, stop, modPrev)
          IN  [ok |-> acc.ok /\ sel.found,
               stop |-> stop,
               selected |-> acc.selected \cup {sel.pick},
               picks |-> Append(acc.picks, sel.pick),
               mod |-> IF sel.found THEN acc.mod + EntropyBit(sel.pick) * 2^r
                       ELSE acc.mod]
    IN  FoldLeft(round, [ok |-> TRUE, stop |-> start, selected |-> {},
                         picks |-> <<>>, mod |-> 0],
                 [i \in 1 .. Min2(64, Len(sorted)) |-> i - 1])

\* Mutant: only the parent's interval is compared with the last modifier's.
ComputeNextStakeModifierPrevOnly(prev, t) ==
    LET last == LastGen(prev)
        start == Bucket(time[prev]) * ModifierInterval - SelectionInterval
        rounds == Rounds(SortedCandidates(prev, start), start, modifier[last])
    IN  IF Bucket(time[last]) >= Bucket(time[prev])
        THEN [ok |-> TRUE, mod |-> modifier[last], gen |-> FALSE]
        ELSE [ok |-> rounds.ok, mod |-> rounds.mod, gen |-> TRUE]

\* The new block has parent prev and timestamp t (the genesis case, with
\* no parent, is Init).  Result: success, nStakeModifier, generated flag.
ComputeNextStakeModifier(prev, t) ==
    LET last == LastGen(prev)
        modPrev == modifier[last]
        start == Bucket(time[prev]) * ModifierInterval - SelectionInterval
        rounds == Rounds(SortedCandidates(prev, start), start, modPrev)
    IN  IF \/ Bucket(time[last]) >= Bucket(time[prev])
           \/ Bucket(time[last]) >= Bucket(t)
        THEN [ok |-> TRUE, mod |-> modPrev, gen |-> FALSE]
        ELSE [ok |-> rounds.ok, mod |-> rounds.mod, gen |-> TRUE]

----------------------------------------------------------------------------
(* GetKernelStakeModifierV03 *)

\* tmpChain: up to nDepth ancestors of prev, from prev down, that are not on
\* the active chain, then reversed.
TmpChain(prev, from) ==
    LET nDepth == height[prev] - (height[from] - 1)
        RECURSIVE Collect(_, _)
        Collect(it, i) ==
            IF i > nDepth \/ InActive(it) THEN <<>>
            ELSE Append(Collect(parent[it], i + 1), it)
    IN  Collect(prev, 1)

\* Mutant: the walk switches to tmpChain only from tmpChain[0]'s height on.
KernelModifierNoSlack(prev, from) ==
    LET tmp == TmpChain(prev, from)
        RECURSIVE Walk(_, _, _)
        Walk(b, n, modTime) ==
            IF modTime >= time[from] + SelectionInterval
            THEN [ok |-> TRUE, mod |-> modifier[b], at |-> b]
            ELSE LET useTmp == Len(tmp) > 0 /\ height[b] >= height[tmp[1]]
                     nxt == IF useTmp THEN (IF n < Len(tmp) THEN tmp[n + 1] ELSE Null)
                            ELSE ActiveNext(b)
                     n2 == IF useTmp THEN n + 1 ELSE n
                 IN  IF n2 > Len(tmp) \/ nxt = Null
                     THEN [ok |-> FALSE, mod |-> 0, at |-> Null]
                     ELSE Walk(nxt, n2, IF generated[nxt] THEN time[nxt] ELSE modTime)
    IN  Walk(from, 0, time[from])

\* The forward walk from pindexFrom until the time of the last generated
\* block seen reaches nTimeFrom + selection interval.  On reaching the end
\* of tmpChain or of the active chain it fails (error() or a silent false:
\* both are a false return).
KernelModifier(prev, from) ==
    LET tmp == TmpChain(prev, from)
        RECURSIVE Walk(_, _, _)
        Walk(b, n, modTime) ==
            IF modTime >= time[from] + SelectionInterval
            THEN [ok |-> TRUE, mod |-> modifier[b], at |-> b]
            ELSE LET useTmp == Len(tmp) > 0 /\ height[b] >= height[tmp[1]] - 1
                     nxt == IF useTmp THEN (IF n < Len(tmp) THEN tmp[n + 1] ELSE Null)
                            ELSE ActiveNext(b)
                     n2 == IF useTmp THEN n + 1 ELSE n
                 IN  IF n2 > Len(tmp) \/ nxt = Null
                     THEN [ok |-> FALSE, mod |-> 0, at |-> Null]
                     ELSE Walk(nxt, n2, IF generated[nxt] THEN time[nxt] ELSE modTime)
    IN  Walk(from, 0, time[from])

----------------------------------------------------------------------------
(* CheckStakeKernelHash: the timestamp and amount rules, then the kernel   *)
(* hash against the coin-day weighted target.  Result: success and the    *)
(* hashProofOfStake.                                                       *)
CheckStakeKernelHash(prev, from, value, n, tTx) ==
    LET hardened == height[prev] + 1 > StakeEnforcement
        tFrom == time[from]
        timeWeight == Min2(tTx - tFrom, StakeMaxAge - StakeMinAge)
        coinDayWeight == ((value * timeWeight) \div Coin) \div 200
        km == KernelModifier(prev, from)
        proof == KernelHash(km.mod, tFrom, tFrom, n, tTx)
    IN  [ok |-> /\ tTx >= tFrom
                /\ tFrom + StakeMinAge <= tTx
                /\ ~(value < MinStakeAmount /\ hardened)
                /\ km.ok
                /\ proof <= coinDayWeight * TargetPerCoinDay,
         proof |-> proof]

\* HasStakeMinDepth (Consensus::Params, outside src/).
HasStakeMinDepth(h, fromHeight) == h - fromHeight >= MinStakeHistory

\* CheckProofOfStake for a block at prev with timestamp tTx whose kernel
\* spends output n, of value value, of a transaction in block from.
CheckProofOfStake(prev, from, value, n, tTx) ==
    LET hardened == height[prev] + 1 > StakeEnforcement
    IN  /\ ~(height[from] = 0 /\ hardened)
        /\ ~(~HasStakeMinDepth(height[prev] + 1, height[from]) /\ hardened)
        /\ CheckStakeKernelHash(prev, from, value, n, tTx).ok

----------------------------------------------------------------------------
Init ==
    /\ nBlocks = 1
    /\ parent = [b \in Ids |-> 0]
    /\ height = [b \in Ids |-> 0]
    /\ time = [b \in Ids |-> GenesisTime]
    /\ isPoS = [b \in Ids |-> FALSE]
    /\ proofHash = [b \in Ids |-> 0]
    /\ generated = [b \in Ids |-> b = 0]
    /\ modifier = [b \in Ids |-> 0]
    /\ tip = 0

\* Append block n below prev and store what ComputeNextStakeModifier gives.
Connect(prev, t, pos, hashProof) ==
    LET n == nBlocks
        next == ComputeNextStakeModifier(prev, t)
    IN  /\ n < MaxBlocks
        /\ next.ok
        /\ nBlocks' = n + 1
        /\ parent' = [parent EXCEPT ![n] = prev]
        /\ height' = [height EXCEPT ![n] = height[prev] + 1]
        /\ time' = [time EXCEPT ![n] = t]
        /\ isPoS' = [isPoS EXCEPT ![n] = pos]
        /\ proofHash' = [proofHash EXCEPT ![n] = hashProof]
        /\ generated' = [generated EXCEPT ![n] = next.gen]
        /\ modifier' = [modifier EXCEPT ![n] = next.mod]
        /\ UNCHANGED tip

AcceptPoWBlock(prev, t) == Connect(prev, t, FALSE, 0)

\* The staked coin is found through the transaction index, i.e. in a block
\* of the active chain; it must be in prev's history to be spendable.
AcceptPoSBlock(prev, t, from, value, n) ==
    /\ InActive(from) /\ IsAncestor(from, prev)
    /\ CheckProofOfStake(prev, from, value, n, t)
    /\ Connect(prev, t, TRUE, CheckStakeKernelHash(prev, from, value, n, t).proof)

\* Mutant: the tip is set one block past the chosen one.
ActivateBestChainOffByOne(b) ==
    /\ b # tip
    /\ tip' = b + 1
    /\ UNCHANGED <<nBlocks, parent, height, time, isPoS, proofHash,
                   generated, modifier>>

\* ActivateBestChain (validation.cpp, outside src/): the tip moves.
ActivateBestChain(b) ==
    /\ b # tip
    /\ tip' = b
    /\ UNCHANGED <<nBlocks, parent, height, time, isPoS, proofHash,
                   generated, modifier>>

Next ==
    \/ \E prev \in Blocks, t \in Times : AcceptPoWBlock(prev, t)
    \/ \E prev \in Blocks, t \in Times, from \in Blocks, v \in Values,
          n \in PrevoutIndexes : AcceptPoSBlock(prev, t, from, v, n)
    \/ \E b \in Blocks : ActivateBestChain(b)

Spec == Init /\ [][Next]_vars

-----------------------------------------------------------------------------
TypeOK ==
    /\ nBlocks \in 1 .. MaxBlocks
    /\ parent \in [Ids -> Ids] /\ height \in [Ids -> Nat]
    /\ time \in [Ids -> Nat] /\ isPoS \in [Ids -> BOOLEAN]
    /\ proofHash \in [Ids -> Nat] /\ generated \in [Ids -> BOOLEAN]
    /\ modifier \in [Ids -> Nat] /\ tip \in Blocks

(***************************************************************************)
(* The stake-modifier engine implements the abstract index of StakeIndex: *)
(* lastGen is the block GetLastStakeModifier finds.                        *)
(***************************************************************************)
Abs == INSTANCE StakeIndex
         WITH lastGen <- [b \in Ids |-> IF b < nBlocks THEN LastGen(b) ELSE 0],
              ModifierValues <- 0 .. 2^MaxBlocks - 1
AbsSpec == Abs!Spec

(***************************************************************************)
(* What SelectBlockFromCandidates promises in every round of              *)
(* ComputeNextStakeModifier: among the candidates not selected yet, the   *)
(* one with the least selection hash (PoS hashes shifted), the earlier in *)
(* (time, hash) order on ties, of those with a timestamp up to the round's *)
(* stop; when none is that early, the earliest remaining candidate.       *)
(***************************************************************************)
ReferencePick(sorted, selected, stop, modPrev) ==
    LET pos(b) == CHOOSE i \in DOMAIN sorted : sorted[i] = b
        left == {sorted[i] : i \in DOMAIN sorted} \ selected
        first == CHOOSE b \in left : \A c \in left : pos(b) <= pos(c)
        pool == IF left = {} THEN {}
                ELSE IF time[first] <= stop THEN {b \in left : time[b] <= stop}
                ELSE {first}
        better(b, c) ==
            \/ SelectionHashOf(b, modPrev) < SelectionHashOf(c, modPrev)
            \/ /\ SelectionHashOf(b, modPrev) = SelectionHashOf(c, modPrev)
               /\ pos(b) <= pos(c)
    IN  IF pool = {} THEN Null
        ELSE CHOOSE b \in pool : \A c \in pool : better(b, c)

SelectionIsLeastHash ==
    \A prev \in Blocks :
      LET last == LastGen(prev)
          start == Bucket(time[prev]) * ModifierInterval - SelectionInterval
          sorted == SortedCandidates(prev, start)
          r == Rounds(sorted, start, modifier[last])
      IN  \A k \in 1 .. Len(r.picks) :
            r.picks[k] = ReferencePick(sorted,
                                       {r.picks[j] : j \in 1 .. k - 1},
                                       start + SectionsUpTo[k], modifier[last])

(***************************************************************************)
(* ComputeNextStakeModifier never fails on a selection round: every round *)
(* finds an unselected candidate, whatever the parent and timestamp, so a *)
(* block is never rejected with "unable to select block".                 *)
(***************************************************************************)
ModifierAlwaysComputed ==
    \A prev \in Blocks, t \in Times : ComputeNextStakeModifier(prev, t).ok

(***************************************************************************)
(* The modifier a kernel is hashed with, as the protocol defines it: that *)
(* of the first block after pindexFrom, in the history of the block being *)
(* checked (up to prev), which generated a modifier at least a selection  *)
(* interval after pindexFrom; none means the kernel cannot be checked yet. *)
(***************************************************************************)
PromisedKernelBlock(prev, from) ==
    LET path == {b \in Blocks : IsAncestor(b, prev) /\ height[b] > height[from]
                                /\ generated[b]
                                /\ time[b] >= time[from] + SelectionInterval}
    IN  IF path = {} THEN Null
        ELSE CHOOSE b \in path : \A c \in path : height[b] <= height[c]

KernelMatchesPromise(prev, from) ==
    LET km == KernelModifier(prev, from)
        g == PromisedKernelBlock(prev, from)
    IN  /\ km.ok <=> g # Null
        /\ km.ok => km.at = g

\* Staked coins as CheckProofOfStake finds them: on the active chain, in
\* prev's history.
StakeSources(prev) == {from \in Blocks : InActive(from) /\ IsAncestor(from, prev)}

(***************************************************************************)
(* GetKernelStakeModifier locates the promised modifier for a block built *)
(* on the tip or on a side branch, where its tmpChain covers the branch,  *)
(* for a coin in any block of prev's history: on the active chain, where  *)
(* the walk hands over from ChainActive().Next to tmpChain at the fork,   *)
(* or itself on the side branch, where pindexFrom is tmpChain[0] and the  *)
(* walk visits it twice.                                                   *)
(***************************************************************************)
KernelModifierOnBranch ==
    \A prev \in Blocks : (prev = tip \/ ~InActive(prev)) =>
        \A from \in Blocks : IsAncestor(from, prev) => KernelMatchesPromise(prev, from)

(***************************************************************************)
(* The kernel modifier is a function of the checked block's own history   *)
(* (spec 4.E and 5), for every parent, including an active block that is  *)
(* not the tip, where the walk follows ChainActive().Next.                *)
(***************************************************************************)
KernelModifierFromHistory ==
    \A prev \in Blocks : \A from \in StakeSources(prev) :
        KernelMatchesPromise(prev, from)

(***************************************************************************)
(* Spec 4.D.2 step 4: the candidates of ComputeNextStakeModifier are all   *)
(* ancestors of prev (itself included) with a time at or after the        *)
(* selection start, as the pprev walk of kernel.cpp:168 means to collect. *)
(***************************************************************************)
CandidatesAreAllRecentAncestors ==
    \A prev \in Blocks :
        LET start == Bucket(time[prev]) * ModifierInterval - SelectionInterval
        IN  Window(prev, start) = {a \in Blocks : IsAncestor(a, prev) /\ time[a] >= start}

=============================================================================
