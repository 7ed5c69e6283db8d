# Formal models of the emralsHF consensus code

This directory holds TLA+ models of the consensus code under `src/src`, the
TLC configurations that model-check them, and TLAPS proofs. `PROJECT.json`
lists the components, runs, mutants, source map, findings, hazards and
theorems in machine-readable form. This file explains them.

## 1. The system and its parts

The repository is a Dash/Bitcoin-derived node. Only a few files are part of
its consensus logic. The rest are headers and front-ends.

| Part | Source | What it does | Status |
|---|---|---|---|
| Stake modifier engine | `pos/kernel.cpp` 38-225 | `ComputeNextStakeModifier` and helpers: the last generated modifier, the selection interval (64 sections), the candidate window, the sort, 64 rounds of `SelectBlockFromCandidates`, and the entropy bits | modelled (`StakeIndex`, `StakeModifier`) |
| Kernel modifier locator | `pos/kernel.cpp` 227-284 | `GetKernelStakeModifierV03`: walks forward from the staked coin's block to the first modifier generated a selection interval later, on the active chain or on `tmpChain` | modelled (`StakeModifier`) |
| Kernel verifier | `pos/kernel.cpp` 286-449 | `CheckStakeKernelHash` (timestamp, age, amount and weighted-target rules) and `CheckProofOfStake` (genesis coin, minimum depth) | modelled (`StakeModifier` for the rules, `KernelWeight` for the 64- and 256-bit arithmetic) |
| Modifier checksum | `pos/kernel.cpp` 451-473 | `GetStakeModifierChecksum` and the checkpoint table | not modelled (planned) |
| Transaction validator | `consensus/tx_check.cpp` | `CheckTransaction`: context-free rules on inputs, outputs and amounts | modelled (`TxCheck`) |
| Chain parameters | `chainparams.cpp` | main, testnet and regtest constants; `-vbparams` parsing; `SelectParams` | modelled (`ChainParams`, `ChainParamsAtomic`) |
| Genesis, seeds, prefixes | `chainparams.cpp` | serialisation and hashing of constants | not modelled: no state, out of TLC's reach |
| GUI, ZMQ, LLMQ, fuzz, util headers | various `.h`, `qt/main.cpp` | declarations and an entry point | not modelled: no behaviour here |

**How the parts interact.** Block validation lives in `validation.cpp`, which
is not in this repository. It connects each new block to the block index.
`ComputeNextStakeModifier(pindexPrev)` then gives the block its stake
modifier and its "generated" flag. A proof-of-stake block must first pass
`CheckProofOfStake`. That function finds the staked coin's block through the
transaction index. It then calls `CheckStakeKernelHash`, which hashes the
kernel with the modifier that `GetKernelStakeModifierV03` locates. The
active chain (`ChainActive()`) is read by the locator, and it changes
whenever `ActivateBestChain` moves the tip. The code outside `src/`
(`CBlockIndex`, `CChain`, `ActivateBestChain`, `uint256::operator<`) is
modelled from the spec. Those definitions are marked `spec_modelled` in the
map.

## 2. Modules

### `StakeIndex`: what the modifier engine promises

This is the abstract specification, with no recursion. Its state is the
block tree:
- `nBlocks`, `parent`, `time`, `isPoS`;
- the engine's outputs, `generated` and `modifier`;
- `lastGen`, the block that `GetLastStakeModifier` stops at.

`lastGen` is not a field of `CBlockIndex`. It is the result of the walk,
made into state so that the promise can be written without recursion.

There is a single action, `AcceptBlock(p, t, pos)`. It adds a block below
`p` with timestamp `t`.
- `NewInterval(p, t)` is the negation of the two "no new interval" early
  returns (kernel.cpp 149-160). It holds when both the parent's and the new
  block's modifier intervals are later than the last modifier's interval.
- When `NewInterval` holds, the block generates a fresh modifier. Its value
  is any member of `ModifierValues`: the abstract spec leaves it open.
- Otherwise the block carries the last modifier.

### `StakeModifier`: the kernel code

This is the detailed module. It is used only by TLC: the walks are
`RECURSIVE`. Its state is the block tree plus `height`, `proofHash` and the
active tip `tip`. The definitions follow the code function by function:

| Definition | Code |
|---|---|
| `LastGen` | `GetLastStakeModifier` (38-51) |
| `Section`, `SectionsUpTo`, `SelectionInterval` | `GetStakeModifierSelectionIntervalSection` and `...Interval` (53-67) |
| `Window`, `SortedCandidates` | the candidate loop and `std::sort` by `(nTime, hash)` (162-176). `HashLess` is `uint256::operator<`, a memcmp of the little-endian bytes. |
| `SelectionHashOf`, `SelectBlockFromCandidates` | 69-116. A PoS selection hash is shifted right (`PosShift` stands for 32). The first unselected candidate is taken even past `stop`. |
| `Rounds`, `ComputeNextStakeModifier` | 118-225. `min(64, candidates)` rounds, each adding one entropy bit. |
| `TmpChain`, `KernelModifier` | `GetKernelStakeModifierV03` (227-284). Both ways to run out of blocks (an error or a silent "too young") are a `false` return. |
| `CheckStakeKernelHash`, `CheckProofOfStake` | 286-449 |

The actions are as follows.
- `AcceptPoWBlock(prev, t)` connects a block and stores the result of
  `ComputeNextStakeModifier`. It is guarded by that call's success.
- `AcceptPoSBlock(prev, t, from, value, n)` does the same after
  `CheckProofOfStake` passes for a coin in block `from`. That block is on the
  active chain and in `prev`'s history. The block's `hashProofOfStake` is
  the kernel hash, and it feeds later selection hashes.
- `ActivateBestChain(b)` moves the tip to any block. This gives the
  reorganisations that the locator is exposed to.

**Abstraction of data.** Hashes are fixed functions given by the MC module:
- `HashOf`, the block hashes, as 2-byte values so that memcmp order differs
  from numeric order;
- `SelectionHash`;
- `KernelHash`.

Amounts are counted in coins (`Coin = 1`).

**Refinement.** `StakeModifier` implements `StakeIndex` under the mapping
`lastGen <- LastGen(b)` for each existing block. Fresh modifier values range
over `0 .. 2^MaxBlocks - 1`, since a modifier has at most one bit per round
and there are at most `MaxBlocks` candidates. `AbsSpec` is checked as a
temporal property.

### `KernelWeight`: the weighted-target comparison

This module covers kernel.cpp 344-367 in the code's integer types. Its state
is one input (`value`, `age`, `target`, `hash`) and the result of the
comparison. `Check` runs the comparison once.
- `CoinDayWeight` is line 350-351. The time weight is capped at
  `MaxWeightTime`. The product `nValueIn * nTimeWeight` wraps as an int64
  (`WrapSigned`). It is divided twice with truncation toward zero
  (`TruncDiv`), by `COIN` and by 200. It is then converted to uint64
  (`% 2^64`).
- `CheckKernelWeight` is line 365. It accepts when the hash is at most
  the 256-bit product `bnCoinDayWeight * bnTargetPerCoinDay`, which wraps.

Signed overflow is undefined in C++. The builds compute it with a wrapping
multiply, and that is the outcome modelled. Widths are scaled: int64 becomes
`AmountBits = 12` bits and uint256 becomes `HashBits = 18` bits. This keeps
TLC's own 32-bit integers from overflowing while both products can still
wrap. The spec's rule (§4.F) is `SpecAccepts`: exact arithmetic, and never
accepted when the bound overflows.

### `TxCheck`: `CheckTransaction`

The module follows `consensus/tx_check.cpp` 11-79 step by step. A
transaction is a record with these fields:
- `type` and `version`;
- `vin`, a sequence of `[prevout, scriptSigSize]`;
- `vout`, a sequence of amounts;
- `size`, the serialised size;
- `payloadSize`.

The state also holds the flag `fCheckDuplicateInputs`, a program counter
`pc`, the loop index `i`, the running sum `nValueOut`, the set `seen`
(`vInOutPoints`) and the `verdict`. The actions are:
- `BasicChecks` (13-40): the first failing check of six, in code order.
- `CheckOutput` and `EndOutputs` (44-56): one loop iteration each. The sum
  is a CAmount (`Wrap`, `AmountBits` bits) and is range-checked after the
  addition.
- `CheckDuplicate` and `EndDuplicates` (58-62): the `std::set` insert.
- `CheckCoinbase` (65-70) and `CheckPrevout` (73-78).

Every loop stops at its first failure, as the code's `return` does. The
reference is `SpecVerdict`, a declarative reading of §4.C, with no loops and
no recursion:
- `PrefixSums(t, k)` is the set of exact prefix-sum functions of the first
  `k` outputs that stay within `0 .. MAX_MONEY`;
- `OutputsOK(t, k)` holds when every one of those outputs is in range and
  that set is not empty;
- a duplicate is a pair of equal prevouts.

### `ChainParams`: the parameter registry

This module models the consensus fields the three constructors of
`chainparams.cpp` set. It also models the `-vbparams` parser,
`CreateChainParams` and `SelectParams`. The state is:
- `vbparams`, the command line's tokens, each a sequence of strings as
  `boost::split` returns them;
- `baseNet`;
- `chainParams`, `*globalChainParams`.

- `constructing`, the `CRegTestParams` object inside its `-vbparams` loop,
  with the index `k` of the next token, or `Null`.

The actions are these.
- `SelectParams(net)` installs the base parameters and constructs the chain
  parameters. Main and testnet replace the global at once. Regtest enters
  its `-vbparams` loop (line 486).
- `UpdateVersionBitsParametersFromArgs` is one loop iteration: `VbToken`
  parses token `k`. A throw unwinds `SelectParams` and abandons the object,
  and the global stays as it was.
- `InstallRegTest` is the end of the loop. The constructor returns and
  line 595 assigns the object to the global.

A token throws when it:
- does not split into three fields;
- has a start or timeout that `ParseInt64` rejects (`Decimal` is the set
  of strings it accepts, with their values);
- names no deployment.

Each parameter set also holds `checkpoints`, the heights of its
`checkpointData` (main: lines 261-282, starting at height 1; testnet and
regtest: empty, lines 407-408 and 506-507). The checkpoint hashes are left
out.

Regtest reads `nLastPoWBlock` before assigning it, and never assigns three
stake fields. Each of those fields is a nondeterministic choice over
`IndeterminateInts`. The module has no type invariant, because its records
mix strings and integers in ways TLC only compares within a type. The
inductive invariant of the proofs, `CPInv`, takes its place in the run.

### `ChainParamsAtomic`: what `SelectParams` promises

This is the contract of `SelectParams`, one atomic step per call. Its state
is `vbparams`, `baseNet` and `chainParams`. `SelectParams(net)` switches
the base network to `net`. Then one of two things happens:
- `globalChainParams` becomes a member of `Built(net, vbparams)`, what
  `CreateChainParams(net)` may return;
- the constructor throws, and `globalChainParams` stays as it was.

`ChainParams` instantiates it with `Built <- BuiltParams` and maps each
variable to itself. `BuiltParams` is the declarative reading:
- the main or testnet table;
- for regtest, the constructor's object with every deployment set by the
  last token naming it, when every token is well formed;
- nothing otherwise.

Under this mapping:
- `SelectParams` for main or testnet is a call that installs;
- `SelectParams("regtest")` is the base switch of a call whose constructor
  has not returned yet, which is the contract's throw disjunct;
- a token step is a stutter;
- `InstallRegTest` is a second `SelectParams("regtest")`. The base network
  is already regtest, and the call installs what the rules build.

`RegistrySpec` is that instance's specification.

## 3. Runs

| Run | Module / cfg | Checks | Shows |
|---|---|---|---|
| `abstract_index` | `MC_StakeIndex` | `IndexTypeOK`, `LastModifierFound` | The walk back of `GetLastStakeModifier` always ends at a generated ancestor whose modifier the block carries, so its genesis error is unreachable. |
| `modifier_engine` | `MC_StakeModifier` | `TypeOK`, `SelectionIsLeastHash`, `ModifierAlwaysComputed`, `KernelModifierOnBranch`, `AbsSpec` | See below. |
| `kernel_active_fork` | `MC_StakeModifier` / `MC_KernelFork.cfg` | `KernelModifierFromHistory` (violation expected) | The finding below. |
| `candidate_window` | `MC_StakeModifier` / `MC_Window.cfg` | `CandidatesAreAllRecentAncestors` (violation expected) | The candidate walk stops at the first old ancestor (finding 5). |
| `kernel_weight` | `MC_KernelWeight` | `KernelWeightExactInRange` | Where neither product overflows, the int64 and uint256 chain of operations accepts exactly what §4.F's formula accepts. Truncation and the uint64 conversion lose nothing. |
| `kernel_weight_overflow` | `MC_KernelWeight` / `MC_KernelOverflow.cfg` | `KernelAcceptsAsSpec` (violation expected) | Finding 4. |
| `tx_check` | `MC_TxCheck` | `VerdictMatchesSpec`, `VerdictInv`, `NoAmountOverflow` | Every small transaction gets §4.C's verdict for its first failing check. The running CAmount sum never wraps. `VerdictInv` is the loop invariant of the proof. |
| `chain_params` | `MC_ChainParams` | `ParamsMatchSpec`, `DeploymentsLastTokenWins`, `CPInv`, `RegistrySpec` | Whatever `SelectParams` installs has §6's stake values and four of §4.A's five construction invariants (the fifth is `genesis_checkpoint`). Regtest deployments come from the last well-formed token, and a bad token leaves the old parameters in place. `CPInv` is the inductive invariant of the proof. The token-by-token code refines its atomic contract `ChainParamsAtomic`. |
| `regtest_bip_heights` | `MC_ChainParams` / `MC_RegtestBIP34.cfg` | `RegtestBIP34AtLastPoW` (violation expected) | Finding 2. |
| `params_reselect` | `MC_ChainParams` / `MC_Reselect.cfg` | `ParamsNeverReplaced` (violation expected) | Finding 3. |
| `genesis_checkpoint` | `MC_ChainParams` / `MC_Checkpoint.cfg` | `GenesisCheckpoint` (violation expected) | Finding 6. |

What `modifier_engine` shows:
- Every selection round picks the least-hash candidate, compared against a
  reference definition of the rule (`ReferencePick`). The reference works on
  the same `(time, hash)` sorted list and the same `HashLess` as the code,
  so the order of equal timestamps itself is not checked independently.
- No block is ever rejected for lack of candidates.
- The locator returns the protocol's modifier for a block built on the tip
  or on a side branch, for a coin in any block of `prev`'s history: on the
  active chain (the walk hands over to `tmpChain` at the fork) or on the
  side branch itself (the walk starts at `tmpChain[0]`, which is
  `pindexFrom`, and visits it twice).
- The engine refines `StakeIndex`.

**Bounds.** `MaxBlocks = 5` gives genesis plus four blocks. That is the
smallest tree with a fork, a generating block on each branch and a PoS block
after a generated modifier. A block right after genesis shares genesis's
interval and never generates, so at least two blocks are needed before a
kernel can be checked.

The timestamps are chosen to exercise the interval rules:
- `{0, 30, 2100, 3700}` in `MC_StakeModifier`, with interval 60. This gives
  same-interval blocks (0 and 30), a gap beyond the 2087 s selection
  interval (2100), and a coin old enough to stake (3700 ≥ 3600).
- `{0, 50, 70, 130}` in `MC_StakeIndex`.

`StakeEnforcement = 3` and `MinStakeAmount = 150` make both the soft and
the hardened rules happen. `Values = {149, 150}` puts the amount on both
sides of the minimum. All three actions fire in the passing runs.

**Bounds of the newer runs.**
- `MC_KernelWeight` uses values `{4, 10, 30, 60}` and ages `{30, 50, 80}`
  with the cap at 50. The int64 product stays in range (4·30), comes near
  it (30·50 = 1500 of 2047), and passes it (60·50 = 3000). Targets
  `{1, 30000, 100000}` make the 18-bit product stay in range, or pass it,
  for the same weight. Hashes `{0, 300, 100000, 200000}` fall on both sides
  of each bound.
- `MC_TxCheck` scales `MAX_MONEY` to 3 and CAmount to 4 bits (−8 .. 7).
  Three outputs of 3 would overflow an unchecked sum, and `<<3, 3, 3>>` is
  among the output lists. The input lists cover:
  - empty;
  - coinbase-shaped with scriptSig sizes 0, 1 and 101;
  - duplicated;
  - a null prevout after a real one.

  Sizes and payloads lie on both sides of their limits. The types are
  known, coinbase, quorum and an unknown model value, each at versions 1
  and 2. Every check of the code fails for some transaction and passes for another.
- `MC_ChainParams` reads an uninitialised int64 as 0, −1 or a stale 1000.
  It has eight `-vbparams` command lines:
  - none;
  - one token;
  - a repeated deployment;
  - two deployments;
  - a short token after a good one;
  - an unparsable number;
  - four fields;
  - an unknown name after a good token.

  Every network can be selected again from any state, so each sequence of
  selections up to the state bound is explored.

**Deadlock.** The kernel-weight and transaction runs stop after one
comparison or one verdict: these are single calls, and a stopped state is
their return (`CHECK_DEADLOCK FALSE`). `SelectParams` is always enabled.

**Deadlock (block tree).** Both passing configurations of the block tree say `CHECK_DEADLOCK FALSE`. Once
`MaxBlocks` blocks exist, no block can be added, and with a single block the
tip cannot move. A bounded model really does stop; the node does not, but
its next step only repeats the bounded ones.

**Fairness.** None. All properties are safety properties: what the engine
computes for the blocks that exist. The code has no obligation to accept
blocks, so no liveness is claimed.

## 4. Findings

**1. The kernel modifier follows the active chain.** `kernel_active_fork` shows a disagreement between the code and the spec. Its
counterexample has these blocks:
- genesis at time 0;
- `b1` at 2100, a child of genesis, not generating;
- `b2` at 2100, a child of `b1`, generating;
- the tip is `b2`.

Now a PoS block built on `b1` stakes a coin from genesis. Its parent `b1` is
active, so `tmpChain` is empty. The walk follows `ChainActive().Next()` past
`b1` to `b2` (kernel.cpp:261), which is not in the checked block's history.
The kernel is therefore hashed with `b2`'s modifier.

The code's own comment at kernel.cpp:240-244 says the walk cannot depend
on `ChainActive().Next()`, because the checked block need not be on the
active chain, and §5 says the result depends only on the block's history.
(§4.E itself prescribes `active.next` for a node on the active chain, as
the code does; it is the comment's intent that the code misses.) Under the
code,
two nodes with different tips judge the same block differently. The same
block is rejected ("too young") when `b2` does not exist.

**2. Regtest soft-fork heights are uninitialised** (code bug,
chainparams.cpp:429). `CRegTestParams` copies `consensus.nLastPoWBlock` into
`BIP34Height`, `BIP65Height` and `BIP66Height` at lines 429-432. But
`nLastPoWBlock` is only assigned 1000 at line 443. The heights therefore
hold whatever the field held before. The comment says the soft forks
activate with the PoW phase. `regtest_bip_heights` finds regtest installed
with `BIP34Height = -1` while `nLastPoWBlock = 1000`.

**3. Re-selection replaces the parameters** (chainparams.cpp:595).
`SelectParams` assigns a fresh object to `globalChainParams` on every call.
§4.A says the installed handle is immutable and re-selection is an error.
`params_reselect` selects main, then test, and the test parameters replace
main's.

**4. The weighted target wraps** (kernel.cpp:350, 365). The int64 product
`nValueIn * nTimeWeight` and the 256-bit product with the target both wrap.
The code can therefore accept a kernel whose true bound passes 2^256,
which §4.F says is never accepted. In the scaled widths, value 30 and age
30 give weight 900; 900 times a target of 100000 is 90000000, which wraps
modulo 2^18 to 84608, and a zero hash is accepted. This trace shows the
256-bit wrap only; the int64 product 900 does not wrap. At
real widths, reaching this needs an enormous target. The property that
holds, `KernelWeightExactInRange`, says exactly where the code is right.

**5. The candidate window stops early** (kernel.cpp:168). The candidate
loop stops at the first ancestor older than `nSelectionIntervalStart`. An
earlier ancestor with a newer timestamp is then not a candidate. Timestamps
may go back, since the median-time rule allows it. §4.D.2 step 4 takes all
ancestors at or after the start. `candidate_window` has this chain:
- genesis at 0;
- `b1` at 30;
- `b2` at 0;
- `b3` at 2100.

For `prev = b3` the start is 2100 − 2087 = 13. The walk stops at `b2` and misses `b1`.

**6. No checkpoint at height 0** (chainparams.cpp:261). §4.A says
construction fails unless the checkpoint table has an entry for height 0.
Main's `checkpointData` starts at height 1, testnet's and regtest's are
empty, and no constructor checks the table. `genesis_checkpoint` finds
main installed at the first step with checkpoints `{1, 1000, ...}`.

## 5. Proofs

`StakeIndex_proofs` proves two theorems with TLAPS. They hold for every
value of the constants allowed by `StakeIndex`'s assumptions: positive
`MaxBlocks` and `ModifierInterval`, natural timestamps, and a set of natural
modifier values that contains 0.

- `TypeCorrect`: `Spec => []IndexTypeOK`.
- `LastModifierAlwaysFound`: `Spec => []LastModifierFound`, a corollary of
  the lemma `IInvariant`, `Spec => []IInv` with
  `IInv == IndexTypeOK /\ LastModifierFound`.

**Why the invariant is strengthened.** `LastModifierFound` alone is not
inductive. To show that a new block's last-generation link points to a
generated block carrying the same modifier, the proof needs three facts:
- the parent's link is typed;
- the parent's link is at most the parent;
- the parent's link is therefore not the new id.

With the type invariant, the conjunction is inductive.

**Structure of the proof.**
- `AcceptBlockEffect` unpacks the action.
- `AcceptBlockType` proves the type step.
- `AcceptBlockIInv` has one step per conjunct:
  - a step per older block, whose fields are unchanged and whose links avoid
    the new id;
  - a step for the new block, split on `NewInterval`.

**What stays with TLC.**
- All of `StakeModifier`: the selection rule, the locator and the
  refinement to `StakeIndex` rest on `RECURSIVE` walks and folds. tlapm
  loses its SMT backend in any module that reaches one. A fact about a
  recursive definition for every input would also need induction over
  data, and the installed provers cannot instantiate the library's
  induction theorems. These properties are checked on the bounded
  instances above.
- The violation runs. A violated property has no proof, and its
  counterexample is the result.

Where the code has a loop, the proofs below avoid induction over data.
The loop invariant is an invariant of the state machine, so each iteration
is one step. The provers then only need the induction over behaviours that
`PTL` does.

No liveness is claimed: each modelled function is a single call or a
bounded sequence of steps.

**`TxCheck_proofs`.** Assumptions: `MAX_MONEY` is natural and
`2 * MAX_MONEY` is below half the CAmount range, as `2 * 21e6 * COIN < 2^63`
is for the real types. Every transaction's inputs and outputs are
sequences.
- `SumNeverOverflows`: `Spec => NoAmountOverflow`. Every change of the
  running sum is the exact sum, so the `+=` of line 50 never wraps.

The inductive invariant is `IInv == TxTypeOK /\ nValueOut \in 0 .. MaxMoney`
(the lemma `TxTypeCorrect` is its first conjunct).
`TxTypeOK` alone only bounds the sum by the CAmount range, and that is too
weak. The next addition of an output of up to `MAX_MONEY` could then wrap.
With the sum at most `MAX_MONEY` before the addition, the exact sum is
below `2 * MAX_MONEY < Half`. `WrapIdentity` then shows that `Wrap` is the
identity on it. The range check keeps the stored sum in `0 .. MaxMoney`.
`NextIInv` has one step per action. Its output step rests on
`CheckOutputSum`, and its basic step on `FirstFailureRange`, which says
where the first failing check lies.

- `LoopInvariant`: `Spec => []VerdictInv`, the loop invariant below.
- `VerdictCorrect`: `Spec => []VerdictMatchesSpec`. When the call
  returns, its verdict is `SpecVerdict`'s for every transaction and flag.

`VerdictCorrect` needs a loop invariant, `VerdictInv == IInv /\ LoopInv`.
`LoopInv` says what each program counter has established:
- in the output loop, the outputs before `i` are in range, and the running
  sum is the last entry of every prefix-sum function of them;
- in the duplicate loop, `seen` is the set of the prevouts before `i`, and
  these are pairwise distinct;
- in the shape checks, the prevouts before `i` are not null;
- at `done`, `verdict = SpecVerdict(tx, flag)`.

The prefix-sum functions are a set, not a recursive definition. The
invariant carries both that the set is not empty and that all its members
end in `nValueOut`, so no induction over outputs is needed. The lemmas on
`SpecVerdict` match its first failure with the code's early returns:
- `SpecBasic`, `SpecOutput` and `SpecInputs`, one for each stage;
- `LeastIs` for the `CHOOSE` of the first failure;
- `OutputsOKExtend` and `OutputsOKFail` for one more output.

**`ChainParams_proofs`.** This holds for every `COIN`, every set of values
an uninitialised int64 may hold, every `Decimal` table and every set of
`-vbparams` command lines (sequences of string sequences, as
`GetArgs` and `boost::split` return them).
- `InstalledParamsMatchSpec`: `Spec => []ParamsMatchSpec`: §6's stake values
  and four of §4.A's five construction invariants. The fifth, a height-0
  checkpoint, is false (finding 6).
- `DeploymentsFollowLastToken`: `Spec => []DeploymentsLastTokenWins`.
- `RegistryInvariant`: `Spec => []CPInv`, the inductive invariant below.
- `ImplementsRegistry`: `Spec => RegistrySpec`. The code refines
  `ChainParamsAtomic`.

Both properties are about the installed parameters. The loop builds the
object before installing it, so neither is inductive by itself. The
inductive invariant is
`CPInv == vbparams \in VbArgs /\ ParamsMatchSpec /\ DeploymentsLastTokenWins /\ LoopInv`.
While an object is under construction, `LoopInv` says:
- the base network is regtest;
- it is the regtest constructor's object with only its deployments changed
  (`RegTestShape`);
- `k` is in `1 .. Len(vbparams) + 1`;
- the tokens before `k` are well formed;
- each deployment holds `ExpectedAfter(vbparams, d, k - 1)`.

These lemmas carry the argument:
- `MainMeetsSpec`, `TestNetMeetsSpec` and `RegTestMeetsSpec` check each
  constructor against the table;
- `ExpectedAfterNone` says that no token leaves the regtest defaults;
- `ExpectedAfterStep` says that token `n` sets the deployment it names and
  leaves the others as they were, with `GreatestIs` for the `CHOOSE` of the
  last token;
- `VbTokenResult` says the parser accepts exactly the well-formed tokens.

`NextCPInv` has one step per action.

`ImplementsRegistry` rests on `CPInv`. `RegistryStep` has one case per
action. The install case uses `FinishedIsBuilt`: when `k` has passed the
last token, every token is well formed. `RegTestShape` then supplies the
uninitialised values that witness membership in `BuiltParams`. The
base-network conjunct of `LoopInv` is what makes the install a
`SelectParams("regtest")` of the contract.

**`KernelWeight_proofs`.** This holds for every int64 and uint256 width
(`AmountBits <= HashBits`), every positive `COIN`, every natural weight cap,
and natural amounts and ages.
- `WeightExactInRange`: `Spec => []KernelWeightExactInRange`.

The argument is `CoinDayWeightExact`. When the int64 product does not
overflow, it is non-negative, so `WrapSigned` is the identity and the
truncating divisions are floor divisions. The weight is below
`Int64Half`, so the uint64 conversion is the identity too. The weight
equals the spec's. `CheckExactInRange` adds the 256-bit product: below
`2^HashBits`, the modulo is the identity. The inductive invariant records
that a checked state holds the comparison's result:
`IInv == input \in Inputs /\ checked \in BOOLEAN /\ (checked => accepted
= CheckKernelWeight(input))`.

## 6. Not modelled, and why

- The modifier checksum (kernel.cpp 451-473). It hashes the previous
  checksum with the flags, proof hash and modifier, and compares it with a
  main-net checkpoint table. With the hash a fixed function, it is a fold
  along the chain and holds no state of its own.
- Duplicate transactions on a side branch found through the transaction
  index (kernel.cpp:418). The model takes the staked coin's block on the
  active chain and in `prev`'s history.
- The transaction index lookup in `GetLastHeight` returns 0 for a missing
  block (kernel.cpp:426). This is modelled in `CheckProofOfStake`, but no
  property states it.
- `SelectParams`'s partial failure (chainparams.cpp:594). The base
  parameters are switched before the constructor can throw. This is
  modelled, and the contract `ChainParamsAtomic` states it as its throw
  disjunct. The spec states nothing about base parameters, so no property
  rejects it.
- Genesis blocks, seeds, ports, address prefixes and the checkpoint hashes
  (`chainparams.cpp`). They are serialisation and hashing of constants;
  only the checkpoint heights, which §4.A constrains, are modelled.
- The regtest stake fields that are never assigned (chainparams.cpp:444).
  They are a nondeterministic choice in every run and proof; §6's table
  leaves them open, so no property decides them, and their effect on the
  kernel's hardening height is not checked.
- Script checks, signatures, serialisation, networking and the GUI. These
  are pure I/O or formatting, with no state that the consensus rules above
  depend on.

## 7. Plan for the remaining work

1. The modifier checksum as a fold over the index, with the checkpoint
   check on main.
2. A side-branch staked coin (kernel.cpp:418) in `CheckProofOfStake`.
3. A property for the zero height of `GetLastHeight`, including coins of
   the genesis block, whose height is also 0.
4. Proofs of the non-recursive kernel rules (timestamp, age and amount)
   against `StakeIndex`.
