---------------------------- MODULE ChainParams ----------------------------
(***************************************************************************)
(* The chain parameter registry of src/src/chainparams.cpp: the consensus *)
(* fields the three constructors set, the -vbparams parser of the regtest *)
(* constructor, CreateChainParams and SelectParams with the process-wide  *)
(* globalChainParams; the -vbparams loop of the regtest constructor takes *)
(* one step per token.  A -vbparams token is the vector boost::split      *)
(* returns: a sequence of strings.  A field the regtest constructor reads *)
(* or leaves before any assignment is indeterminate: any value of         *)
(* IndeterminateInts.                                                      *)
(***************************************************************************)
EXTENDS Integers, Sequences

CONSTANTS
    Coin,               \* COIN
    NoTimeout,          \* BIP9Deployment::NO_TIMEOUT (INT64_MAX)
    Decimal,            \* the strings ParseInt64 accepts, with their values
    IndeterminateInts,  \* what reading an uninitialized int64 may yield
    VbArgs,             \* the possible values of gArgs.GetArgs("-vbparams")
    Null

ASSUME ChainParamsAssumption ==
    /\ Coin \in Nat \ {0}
    /\ Decimal \in [DOMAIN Decimal -> Int]
    /\ IndeterminateInts \subseteq Int /\ IndeterminateInts # {}
    /\ VbArgs \subseteq Seq(Seq(STRING))

\* CBaseChainParams::MAIN, TESTNET and REGTEST.
Networks == {"main", "test", "regtest"}

\* VersionBitsDeploymentInfo[j].name, in DeploymentPos order.
DeploymentNames == {"testdummy", "csv", "segwit"}

AlwaysActive == -1   \* BIP9Deployment::ALWAYS_ACTIVE

VARIABLES
    vbparams,        \* the -vbparams arguments of this process
    baseNet,         \* the network SelectBaseParams last installed
    chainParams,     \* *globalChainParams, or Null before SelectParams
    constructing     \* the CRegTestParams in its -vbparams loop, with the
                     \* index k of the next token, or Null

vars == <<vbparams, baseNet, chainParams, constructing>>

Deploy(start, timeout) == [nStartTime |-> start, nTimeout |-> timeout]

\* Mutant: the test quorum's threshold above its size.
llmq5_60ThresholdTypo == [size |-> 5, minSize |-> 3, threshold |-> 6]

\* The (size, minSize, threshold) of the LLMQ types (lines 64-135).
llmq5_60 == [size |-> 5, minSize |-> 3, threshold |-> 3]
llmq50_60 == [size |-> 50, minSize |-> 40, threshold |-> 30]
llmq400_60 == [size |-> 400, minSize |-> 300, threshold |-> 240]
llmq400_85 == [size |-> 400, minSize |-> 350, threshold |-> 340]

\* The heights of CMainParams' checkpointData (lines 261-282); the hashes
\* are left out.
MainCheckpoints ==
    {1, 1000, 1500, 10000, 12167} \cup {20000 * k : k \in 1 .. 14}

\* CMainParams(): its consensus fields and checkpoint heights.
MainParams ==
    [net |-> "main", BIP34Height |-> 1, BIP65Height |-> 1, BIP66Height |-> 1,
     nStakeMinAge |-> 60 * 60, nStakeMaxAge |-> 60 * 60 * 24,
     nModifierInterval |-> 60, nLastPoWBlock |-> 1500,
     nStakeEnforcement |-> 7001, nMinStakeAmount |-> 150 * Coin,
     nMinStakeHistory |-> 60,
     nBudgetPaymentsStartBlock |-> 10000, nSuperblockStartBlock |-> 12000,
     deployments |-> [d \in DeploymentNames |->
        CASE d = "testdummy" -> Deploy(1199145601, 1230767999)
          [] d = "csv" -> Deploy(1462060800, 1493596800)
          [] d = "segwit" -> Deploy(AlwaysActive, NoTimeout)],
     llmqs |-> {llmq50_60, llmq400_60, llmq400_85},
     checkpoints |-> MainCheckpoints]

\* CTestNetParams(): its consensus fields; its checkpointData is empty
\* (lines 407-408).
TestNetParams ==
    [net |-> "test", BIP34Height |-> 200, BIP65Height |-> 200, BIP66Height |-> 200,
     nStakeMinAge |-> 60 * 1, nStakeMaxAge |-> 60 * 60,
     nModifierInterval |-> 60, nLastPoWBlock |-> 200,
     nStakeEnforcement |-> 200, nMinStakeAmount |-> 1 * Coin,
     nMinStakeHistory |-> 10,
     nBudgetPaymentsStartBlock |-> 200, nSuperblockStartBlock |-> 300,
     deployments |-> [d \in DeploymentNames |->
        CASE d = "testdummy" -> Deploy(1199145601, 1230767999)
          [] d = "csv" -> Deploy(1456790400, 1493596800)
          [] d = "segwit" -> Deploy(1462060800, 1493596800)],
     llmqs |-> {llmq50_60, llmq400_60, llmq400_85},
     checkpoints |-> {}]

\* The deployments the regtest constructor sets before parsing -vbparams.
RegTestDeployments ==
    [d \in DeploymentNames |->
        IF d = "segwit" THEN Deploy(AlwaysActive, NoTimeout) ELSE Deploy(0, NoTimeout)]

\* CRegTestParams(args) up to the -vbparams call: BIP34/65/66Height copy
\* nLastPoWBlock before it is assigned (the garbage value powGarbage),
\* and nStakeEnforcement, nMinStakeAmount and nMinStakeHistory are never
\* assigned.  Its checkpointData is empty (lines 506-507).
RegTestParamsBefore(powGarbage, enforcement, minAmount, history) ==
    [net |-> "regtest", BIP34Height |-> powGarbage, BIP65Height |-> powGarbage,
     BIP66Height |-> powGarbage,
     nStakeMinAge |-> 60 * 1, nStakeMaxAge |-> 60 * 10,
     nModifierInterval |-> 60, nLastPoWBlock |-> 1000,
     nStakeEnforcement |-> enforcement, nMinStakeAmount |-> minAmount,
     nMinStakeHistory |-> history,
     nBudgetPaymentsStartBlock |-> 1000, nSuperblockStartBlock |-> 1500,
     deployments |-> RegTestDeployments,
     llmqs |-> {llmq5_60, llmq50_60},
     checkpoints |-> {}]

\* Mutant: a token naming no deployment is skipped instead of rejected.
VbTokenNoNameCheck(deps, tok) ==
    IF Len(tok) # 3 \/ tok[2] \notin DOMAIN Decimal \/ tok[3] \notin DOMAIN Decimal
    THEN [ok |-> FALSE, deps |-> deps]
    ELSE IF tok[1] \notin DeploymentNames THEN [ok |-> TRUE, deps |-> deps]
    ELSE [ok |-> TRUE,
          deps |-> [deps EXCEPT ![tok[1]] = Deploy(Decimal[tok[2]], Decimal[tok[3]])]]

\* Lines 545-569, one token: it throws (ok = FALSE) when it does not split
\* into three fields, when ParseInt64 rejects its start or timeout, or when
\* it names no deployment; otherwise UpdateVersionBitsParameters
\* overwrites that deployment.
VbToken(deps, tok) ==
    IF \/ Len(tok) # 3 \/ tok[2] \notin DOMAIN Decimal \/ tok[3] \notin DOMAIN Decimal
       \/ tok[1] \notin DeploymentNames
    THEN [ok |-> FALSE, deps |-> deps]
    ELSE [ok |-> TRUE,
          deps |-> [deps EXCEPT ![tok[1]] = Deploy(Decimal[tok[2]], Decimal[tok[3]])]]

\* CreateChainParams(chain) up to the -vbparams loop: the objects the
\* constructor may have built.
CreateChainParams(chain) ==
    CASE chain = "main" -> {MainParams}
      [] chain = "test" -> {TestNetParams}
      [] chain = "regtest" ->
           {RegTestParamsBefore(g, e, m, h) : g, e, m, h \in IndeterminateInts}

Init ==
    /\ vbparams \in VbArgs
    /\ baseNet = Null
    /\ chainParams = Null
    /\ constructing = Null

\* Mutant: the regtest constructor never calls
\* UpdateVersionBitsParametersFromArgs; every network is installed at once.
SelectParamsNoVbparams(net) ==
    /\ constructing = Null
    /\ baseNet' = net
    /\ \E p \in CreateChainParams(net) : chainParams' = p
    /\ UNCHANGED <<vbparams, constructing>>

\* SelectParams(network): SelectBaseParams switches the base parameters and
\* CreateChainParams constructs the chain parameters.  Main and testnet
\* replace globalChainParams at once; regtest enters its -vbparams loop
\* (line 486), an unset -vbparams being the empty sequence.
SelectParams(net) ==
    /\ constructing = Null
    /\ baseNet' = net
    /\ \E p \in CreateChainParams(net) :
         IF net = "regtest"
         THEN constructing' = [params |-> p, k |-> 1] /\ UNCHANGED chainParams
         ELSE chainParams' = p /\ UNCHANGED constructing
    /\ UNCHANGED vbparams

\* One iteration of UpdateVersionBitsParametersFromArgs: a throw unwinds
\* SelectParams and leaves globalChainParams alone.
UpdateVersionBitsParametersFromArgs ==
    /\ constructing # Null /\ constructing.k <= Len(vbparams)
    /\ LET r == VbToken(constructing.params.deployments, vbparams[constructing.k])
       IN  constructing' =
             IF r.ok THEN [params |-> [constructing.params EXCEPT !.deployments = r.deps],
                           k |-> constructing.k + 1]
             ELSE Null
    /\ UNCHANGED <<vbparams, baseNet, chainParams>>

\* Mutant: the object is installed before the loop has read every token.
InstallRegTestEarly ==
    /\ constructing # Null
    /\ chainParams' = constructing.params
    /\ constructing' = Null
    /\ UNCHANGED <<vbparams, baseNet>>

\* The loop ends, the constructor returns and SelectParams assigns the new
\* object to globalChainParams (line 595).
InstallRegTest ==
    /\ constructing # Null /\ constructing.k > Len(vbparams)
    /\ chainParams' = constructing.params
    /\ constructing' = Null
    /\ UNCHANGED <<vbparams, baseNet>>

Next ==
    \/ \E net \in Networks : SelectParams(net)
    \/ UpdateVersionBitsParametersFromArgs
    \/ InstallRegTest

Spec == Init /\ [][Next]_vars

-----------------------------------------------------------------------------
(***************************************************************************)
(* Properties.                                                             *)
(***************************************************************************)

\* Section 6 of the spec: the per-chain values of the stake parameters
\* ("—" for the regtest stake enforcement and minimum amount).
SpecTable ==
    [main |-> [nStakeMinAge |-> 3600, nStakeMaxAge |-> 86400,
               nModifierInterval |-> 60, nLastPoWBlock |-> 1500,
               nStakeEnforcement |-> {7001}, nMinStakeAmount |-> {150 * Coin}],
     test |-> [nStakeMinAge |-> 60, nStakeMaxAge |-> 3600,
               nModifierInterval |-> 60, nLastPoWBlock |-> 200,
               nStakeEnforcement |-> {200}, nMinStakeAmount |-> {1 * Coin}],
     regtest |-> [nStakeMinAge |-> 60, nStakeMaxAge |-> 600,
                  nModifierInterval |-> 60, nLastPoWBlock |-> 1000,
                  nStakeEnforcement |-> Int, nMinStakeAmount |-> Int]]

\* The table of section 6 and four of the five construction invariants of
\* section 4.A for one parameter set p: last PoW block >= 0, minimum stake
\* age below the maximum, every LLMQ threshold within its size, and
\* superblocks starting after budget payments.  The fifth, a checkpoint at
\* height 0, is GenesisCheckpoint below.
MeetsSpec(p) ==
    LET row == SpecTable[p.net]
    IN  /\ p.nStakeMinAge = row.nStakeMinAge
        /\ p.nStakeMaxAge = row.nStakeMaxAge
        /\ p.nModifierInterval = row.nModifierInterval
        /\ p.nLastPoWBlock = row.nLastPoWBlock
        /\ p.nStakeEnforcement \in row.nStakeEnforcement
        /\ p.nMinStakeAmount \in row.nMinStakeAmount
        /\ p.nLastPoWBlock >= 0
        /\ p.nStakeMinAge < p.nStakeMaxAge
        /\ \A q \in p.llmqs : q.threshold <= q.size
        /\ p.nSuperblockStartBlock > p.nBudgetPaymentsStartBlock

\* Whatever SelectParams installs, for any -vbparams and any value an
\* uninitialized field holds, has the spec's per-chain stake parameters
\* and meets the four numeric construction invariants of section 4.A.
ParamsMatchSpec == chainParams # Null => MeetsSpec(chainParams)

\* A -vbparams token is well formed when it splits into a deployment name,
\* a start and a timeout that both parse as integers.
WellFormedToken(tok) ==
    /\ Len(tok) = 3 /\ tok[1] \in DeploymentNames
    /\ tok[2] \in DOMAIN Decimal /\ tok[3] \in DOMAIN Decimal

\* The deployment the first n tokens of the command line args leave for
\* d: the last of them naming d.
ExpectedAfter(args, d, n) ==
    LET naming == {j \in 1 .. n : args[j][1] = d}
        k == CHOOSE j \in naming : \A x \in naming : x <= j
    IN  IF naming = {} THEN RegTestDeployments[d]
        ELSE Deploy(Decimal[args[k][2]], Decimal[args[k][3]])

\* Section 6 of the spec on -vbparams: installed regtest parameters come
\* only from a command line whose every token is well formed, and each
\* deployment has the start and timeout of the last token naming it.
DeploymentsLastTokenWins ==
    chainParams # Null /\ chainParams.net = "regtest" =>
      /\ \A k \in DOMAIN vbparams : WellFormedToken(vbparams[k])
      /\ chainParams.deployments =
           [d \in DeploymentNames |-> ExpectedAfter(vbparams, d, Len(vbparams))]

\* Section 4.A of the spec: once a network is selected the installed
\* parameters are immutable and re-selection is an error; SelectParams
\* must never replace globalChainParams.
ParamsNeverReplaced ==
    [][chainParams # Null => chainParams' = chainParams]_vars

\* Section 4.A of the spec: construction fails unless the checkpoint table
\* has an entry for height 0, so installed parameters always have one.
GenesisCheckpoint == chainParams # Null => 0 \in chainParams.checkpoints

\* The comment at chainparams.cpp:429-432: on regtest BIP34, BIP65 and
\* BIP66 activate at the last PoW block.
RegtestBIP34AtLastPoW ==
    chainParams # Null /\ chainParams.net = "regtest" =>
      /\ chainParams.BIP34Height = chainParams.nLastPoWBlock
      /\ chainParams.BIP65Height = chainParams.nLastPoWBlock
      /\ chainParams.BIP66Height = chainParams.nLastPoWBlock

\* What CreateChainParams(net) may return for the command line args, by
\* the declarative rules: the main and testnet tables, and for regtest the
\* constructor's object, whatever its uninitialized fields hold, with each
\* deployment set by the last token naming it when every token is well
\* formed (and nothing, a throw, otherwise).
BuiltParams(net, args) ==
    CASE net = "main" -> {MainParams}
      [] net = "test" -> {TestNetParams}
      [] net = "regtest" ->
           IF \A k \in DOMAIN args : WellFormedToken(args[k])
           THEN {[RegTestParamsBefore(g, e, m, h) EXCEPT
                    !.deployments = [d \in DeploymentNames |->
                                       ExpectedAfter(args, d, Len(args))]] :
                   g, e, m, h \in IndeterminateInts}
           ELSE {}

\* The atomic contract of SelectParams, under the identity mapping of the
\* command line, the base network and globalChainParams: the -vbparams
\* steps are stutters and the end of the loop completes the call.
Registry == INSTANCE ChainParamsAtomic WITH Built <- BuiltParams

\* Every call of SelectParams behaves as the atomic contract says: it
\* installs only what the declarative rules build from the command line.
RegistrySpec == Registry!Spec
=============================================================================
