-------------------------- MODULE ChainParams_proofs --------------------------
(***************************************************************************)
(* Proofs about the chain parameter registry for every COIN, every set of *)
(* values an uninitialized field may hold and every -vbparams command     *)
(* line.                                                                   *)
(***************************************************************************)
EXTENDS ChainParams, TLAPS

\* p is what the regtest constructor built, some values for its
\* uninitialized fields, with only its deployments changed since.
RegTestShape(p) ==
    \E g, e, m, h \in IndeterminateInts :
        p = [RegTestParamsBefore(g, e, m, h) EXCEPT !.deployments = p.deployments]

(***************************************************************************)
(* The inductive invariant.  Besides the two properties it records what  *)
(* the -vbparams loop has established so far: the object under           *)
(* construction is the regtest constructor's (and the base network       *)
(* SelectBaseParams switched to is regtest), the tokens before k are      *)
(* well formed and each deployment holds what the last of them naming it  *)
(* set.                                                                    *)
(***************************************************************************)
LoopInv ==
    constructing # Null =>
      /\ baseNet = "regtest"
      /\ RegTestShape(constructing.params)
      /\ constructing.k \in 1 .. Len(vbparams) + 1
      /\ \A j \in 1 .. constructing.k - 1 : WellFormedToken(vbparams[j])
      /\ constructing.params.deployments =
           [d \in DeploymentNames |-> ExpectedAfter(vbparams, d, constructing.k - 1)]

CPInv ==
    /\ vbparams \in VbArgs
    /\ ParamsMatchSpec
    /\ DeploymentsLastTokenWins
    /\ LoopInv

-----------------------------------------------------------------------------
(***************************************************************************)
(* Lemmas on the constructors: each meets the spec's table, the regtest   *)
(* one whatever its uninitialized fields hold and its deployments are.    *)
(***************************************************************************)

\* CMainParams() has the spec's main row and the construction invariants.
LEMMA MainMeetsSpec == MeetsSpec(MainParams)
BY ChainParamsAssumption
   DEF MeetsSpec, MainParams, SpecTable, llmq50_60, llmq400_60, llmq400_85

\* CTestNetParams() has the spec's testnet row and the construction invariants.
LEMMA TestNetMeetsSpec == MeetsSpec(TestNetParams)
BY ChainParamsAssumption
   DEF MeetsSpec, TestNetParams, SpecTable, llmq50_60, llmq400_60, llmq400_85

\* CRegTestParams(args) has the spec's regtest row whatever its
\* uninitialized fields hold and whatever -vbparams did to its deployments.
LEMMA RegTestMeetsSpec ==
    ASSUME NEW p, RegTestShape(p)
    PROVE  MeetsSpec(p) /\ p.net = "regtest"
<1>1. PICK g, e, m, h \in IndeterminateInts :
          p = [RegTestParamsBefore(g, e, m, h) EXCEPT !.deployments = p.deployments]
  BY DEF RegTestShape
<1>2. {g, e, m, h} \subseteq Int
  BY ChainParamsAssumption
<1>. QED
  BY <1>1, <1>2 DEF MeetsSpec, RegTestParamsBefore, SpecTable, llmq5_60, llmq50_60

\* The regtest constructor's result before -vbparams has the regtest shape.
LEMMA RegTestBeforeShape ==
    ASSUME NEW g \in IndeterminateInts, NEW e \in IndeterminateInts,
           NEW m \in IndeterminateInts, NEW h \in IndeterminateInts
    PROVE  RegTestShape(RegTestParamsBefore(g, e, m, h))
<1>1. RegTestParamsBefore(g, e, m, h) =
        [RegTestParamsBefore(g, e, m, h) EXCEPT
           !.deployments = RegTestParamsBefore(g, e, m, h).deployments]
  BY DEF RegTestParamsBefore
<1>. QED
  BY <1>1, Zenon DEF RegTestShape

\* Changing the deployments keeps the regtest shape.
LEMMA ShapeDeployments ==
    ASSUME NEW p, RegTestShape(p), NEW deps
    PROVE  /\ RegTestShape([p EXCEPT !.deployments = deps])
           /\ [p EXCEPT !.deployments = deps].deployments = deps
<1>1. PICK g, e, m, h \in IndeterminateInts :
          p = [RegTestParamsBefore(g, e, m, h) EXCEPT !.deployments = p.deployments]
  BY DEF RegTestShape
<1>2. [p EXCEPT !.deployments = deps] =
        [RegTestParamsBefore(g, e, m, h) EXCEPT
           !.deployments = [p EXCEPT !.deployments = deps].deployments]
  BY <1>1 DEF RegTestParamsBefore
<1>3. [p EXCEPT !.deployments = deps].deployments = deps
  BY <1>1 DEF RegTestParamsBefore
<1>. QED
  BY <1>2, <1>3, Zenon DEF RegTestShape
-----------------------------------------------------------------------------
(***************************************************************************)
(* Lemmas on ExpectedAfter: what no token leaves, and what one more token *)
(* changes.                                                                *)
(***************************************************************************)

\* The CHOOSE of ExpectedAfter picks the greatest element when there is one.
LEMMA GreatestIs ==
    ASSUME NEW S \in SUBSET Int, NEW n \in S, \A x \in S : x <= n
    PROVE  (CHOOSE j \in S : \A x \in S : x <= j) = n
<1>1. \E j \in S : \A x \in S : x <= j
  OBVIOUS
<1>2. PICK c \in S : c = (CHOOSE j \in S : \A x \in S : x <= j)
  BY <1>1
<1>3. \A x \in S : x <= c
  BY <1>1, <1>2
<1>. QED
  BY <1>2, <1>3

\* Before any token every deployment has the regtest constructor's value.
LEMMA ExpectedAfterNone ==
    ASSUME NEW args
    PROVE  [d \in DeploymentNames |-> ExpectedAfter(args, d, 0)] = RegTestDeployments
<1>1. \A d \in DeploymentNames : {j \in 1 .. 0 : args[j][1] = d} = {}
  OBVIOUS
<1>. QED
  BY <1>1 DEF ExpectedAfter, RegTestDeployments

\* Token n sets the deployment it names and leaves the others as the tokens
\* before it left them.
LEMMA ExpectedAfterStep ==
    ASSUME NEW args, NEW n \in Nat \ {0}, NEW d \in DeploymentNames
    PROVE  ExpectedAfter(args, d, n) =
             IF d = args[n][1]
             THEN Deploy(Decimal[args[n][2]], Decimal[args[n][3]])
             ELSE ExpectedAfter(args, d, n - 1)
<1> DEFINE N(m) == {j \in 1 .. m : args[j][1] = d}
<1>1. CASE d = args[n][1]
  <2>1. n \in N(n) /\ N(n) \subseteq Int /\ \A x \in N(n) : x <= n
    BY <1>1
  <2>2. (CHOOSE j \in N(n) : \A x \in N(n) : x <= j) = n
    BY <2>1, GreatestIs
  <2>3. N(n) # {}
    BY <2>1
  <2>4. ExpectedAfter(args, d, n) =
          Deploy(Decimal[args[n][2]], Decimal[args[n][3]])
    BY <2>2, <2>3, Zenon DEF ExpectedAfter
  <2>. QED
    BY <1>1, <2>4
<1>2. CASE d # args[n][1]
  <2>1. N(n) = N(n - 1)
    BY <1>2
  <2> DEFINE F(S) == IF S = {} THEN RegTestDeployments[d]
                     ELSE LET k == CHOOSE j \in S : \A x \in S : x <= j
                          IN  Deploy(Decimal[args[k][2]], Decimal[args[k][3]])
  <2>2. ExpectedAfter(args, d, n) = F(N(n)) /\ ExpectedAfter(args, d, n - 1) = F(N(n - 1))
    BY DEF ExpectedAfter
  <2>. HIDE DEF F, N
  <2>. QED
    BY <1>2, <2>1, <2>2
<1>. QED
  BY <1>1, <1>2
\* The parser accepts a token exactly when it is well formed, and then
\* overwrites the deployment it names.
LEMMA VbTokenResult ==
    ASSUME NEW deps, NEW tok
    PROVE  /\ VbToken(deps, tok).ok <=> WellFormedToken(tok)
           /\ WellFormedToken(tok) =>
                VbToken(deps, tok).deps =
                  [deps EXCEPT ![tok[1]] = Deploy(Decimal[tok[2]], Decimal[tok[3]])]
BY DEF VbToken, WellFormedToken

-----------------------------------------------------------------------------
(***************************************************************************)
(* CPInv is inductive.                                                    *)
(***************************************************************************)

\* Every initial state satisfies the inductive invariant.
LEMMA InitCPInv == Init => CPInv
BY DEF Init, CPInv, ParamsMatchSpec, DeploymentsLastTokenWins, LoopInv

\* A step that changes neither the command line nor the installed
\* parameters keeps the two properties.
LEMMA InstalledUnchanged ==
    ASSUME CPInv, vbparams' = vbparams, chainParams' = chainParams
    PROVE  (vbparams \in VbArgs /\ ParamsMatchSpec /\ DeploymentsLastTokenWins)'
BY DEF CPInv, ParamsMatchSpec, DeploymentsLastTokenWins, WellFormedToken

\* SelectParams preserves the invariant: main and testnet install a
\* constructor's table at once, regtest starts its loop at the first token.
LEMMA SelectParamsInv ==
    ASSUME CPInv, NEW net \in Networks, SelectParams(net)
    PROVE  CPInv'
<1>1. PICK p \in CreateChainParams(net) :
          IF net = "regtest"
          THEN constructing' = [params |-> p, k |-> 1] /\ UNCHANGED chainParams
          ELSE chainParams' = p /\ UNCHANGED constructing
  BY DEF SelectParams
<1>2. vbparams' = vbparams /\ vbparams \in VbArgs /\ constructing = Null
  BY DEF SelectParams, CPInv
<1>3. CASE net = "main"
  <2>1. chainParams' = MainParams /\ constructing' = Null
    BY <1>1, <1>2, <1>3 DEF CreateChainParams
  <2>2. MainParams.net = "main"
    BY DEF MainParams
  <2>. QED
    BY <1>2, <2>1, <2>2, MainMeetsSpec
       DEF CPInv, ParamsMatchSpec, DeploymentsLastTokenWins, LoopInv
<1>4. CASE net = "test"
  <2>1. chainParams' = TestNetParams /\ constructing' = Null
    BY <1>1, <1>2, <1>4 DEF CreateChainParams
  <2>2. TestNetParams.net = "test"
    BY DEF TestNetParams
  <2>. QED
    BY <1>2, <2>1, <2>2, TestNetMeetsSpec
       DEF CPInv, ParamsMatchSpec, DeploymentsLastTokenWins, LoopInv
<1>5. CASE net = "regtest"
  <2>1. PICK g, e, m, h \in IndeterminateInts : p = RegTestParamsBefore(g, e, m, h)
    BY <1>5 DEF CreateChainParams
  <2>2. constructing' = [params |-> p, k |-> 1] /\ chainParams' = chainParams
    BY <1>1, <1>5
  <2>3. RegTestShape(p)
    BY <2>1, RegTestBeforeShape
  <2>4. p.deployments = [d \in DeploymentNames |-> ExpectedAfter(vbparams, d, 0)]'
    BY <1>2, <2>1, ExpectedAfterNone DEF RegTestParamsBefore
  <2>5. 1 \in 1 .. Len(vbparams) + 1
    BY <1>2, ChainParamsAssumption
  <2>6. LoopInv'
    BY <1>2, <1>5, <2>2, <2>3, <2>4, <2>5 DEF LoopInv, SelectParams
  <2>. QED
    BY <1>2, <2>2, <2>6, InstalledUnchanged DEF CPInv
<1>. QED
  BY <1>3, <1>4, <1>5 DEF Networks
\* One -vbparams token preserves the invariant: a malformed one abandons
\* the construction, a well-formed one overwrites the deployment it names,
\* which is what the last token naming it now is.
LEMMA UpdateInv ==
    ASSUME CPInv, UpdateVersionBitsParametersFromArgs
    PROVE  CPInv'
<1> DEFINE c == constructing
           tok == vbparams[c.k]
           r == VbToken(c.params.deployments, tok)
<1>1. /\ vbparams' = vbparams /\ chainParams' = chainParams /\ baseNet' = baseNet
      /\ c # Null /\ c.k <= Len(vbparams)
      /\ constructing' =
           IF r.ok THEN [params |-> [c.params EXCEPT !.deployments = r.deps],
                         k |-> c.k + 1]
           ELSE Null
  BY DEF UpdateVersionBitsParametersFromArgs
<1>2. (vbparams \in VbArgs /\ ParamsMatchSpec /\ DeploymentsLastTokenWins)'
  BY <1>1, InstalledUnchanged
<1>3. /\ baseNet = "regtest"
      /\ RegTestShape(c.params)
      /\ c.k \in 1 .. Len(vbparams) + 1
      /\ \A j \in 1 .. c.k - 1 : WellFormedToken(vbparams[j])
      /\ c.params.deployments = [d \in DeploymentNames |-> ExpectedAfter(vbparams, d, c.k - 1)]
  BY <1>1 DEF CPInv, LoopInv
<1>4. CASE ~WellFormedToken(tok)
  <2>1. constructing' = Null
    BY <1>1, <1>4, VbTokenResult
  <2>. QED
    BY <1>2, <2>1 DEF CPInv, LoopInv
<1>5. CASE WellFormedToken(tok)
  <2>1. r.ok /\ r.deps = [c.params.deployments EXCEPT
                             ![tok[1]] = Deploy(Decimal[tok[2]], Decimal[tok[3]])]
    BY <1>5, VbTokenResult
  <2>2. constructing' = [params |-> [c.params EXCEPT !.deployments = r.deps],
                         k |-> c.k + 1]
    BY <1>1, <2>1
  <2>3. RegTestShape(constructing'.params)
    BY <1>3, <2>2, ShapeDeployments
  <2>4. constructing'.k \in 1 .. Len(vbparams) + 1
    BY <1>1, <1>3, <2>2
  <2>5. \A j \in 1 .. constructing'.k - 1 : WellFormedToken(vbparams[j])
    BY <1>3, <1>5, <2>2
  <2>6. r.deps = [d \in DeploymentNames |-> ExpectedAfter(vbparams, d, c.k)]
    <3>1. c.k \in Nat \ {0} /\ c.k - 1 = c.k - 1
      BY <1>3
    <3>2. \A d \in DeploymentNames :
            ExpectedAfter(vbparams, d, c.k) =
              IF d = tok[1] THEN Deploy(Decimal[tok[2]], Decimal[tok[3]])
              ELSE ExpectedAfter(vbparams, d, c.k - 1)
      BY <3>1, ExpectedAfterStep
    <3>3. tok[1] \in DeploymentNames
      BY <1>5 DEF WellFormedToken
    <3>. QED
      BY <1>3, <2>1, <3>2, <3>3
  <2>7. constructing'.params.deployments =
          [d \in DeploymentNames |-> ExpectedAfter(vbparams', d, constructing'.k - 1)]
    <3>1. constructing'.params.deployments = r.deps
      BY <1>3, <2>2, ShapeDeployments
    <3>2. constructing'.k - 1 = c.k
      BY <1>3, <2>2
    <3>. QED
      BY <1>1, <2>6, <3>1, <3>2
  <2>. QED
    BY <1>1, <1>2, <2>2, <2>3, <2>4, <2>5, <2>7 DEF CPInv, LoopInv
<1>. QED
  BY <1>4, <1>5

\* When the loop has consumed every token SelectParams installs the object:
\* it meets the regtest row and its deployments are what the last tokens set.
LEMMA InstallInv ==
    ASSUME CPInv, InstallRegTest
    PROVE  CPInv'
<1> DEFINE c == constructing
<1>1. /\ vbparams' = vbparams /\ chainParams' = c.params /\ constructing' = Null
      /\ c # Null /\ c.k > Len(vbparams)
  BY DEF InstallRegTest
<1>2. /\ RegTestShape(c.params)
      /\ c.k = Len(vbparams) + 1
      /\ \A j \in 1 .. c.k - 1 : WellFormedToken(vbparams[j])
      /\ c.params.deployments = [d \in DeploymentNames |-> ExpectedAfter(vbparams, d, c.k - 1)]
  BY <1>1 DEF CPInv, LoopInv
<1>3. MeetsSpec(c.params) /\ c.params.net = "regtest"
  BY <1>2, RegTestMeetsSpec
<1>4. DOMAIN vbparams = 1 .. Len(vbparams)
  BY ChainParamsAssumption DEF CPInv
<1>5. vbparams' \in VbArgs
  BY <1>1 DEF CPInv
<1>6. ParamsMatchSpec'
  BY <1>1, <1>3 DEF ParamsMatchSpec
<1>7. DeploymentsLastTokenWins'
  BY <1>1, <1>2, <1>3, <1>4 DEF DeploymentsLastTokenWins
<1>. QED
  BY <1>1, <1>5, <1>6, <1>7 DEF CPInv, LoopInv
\* Every step of the registry, stuttering included, preserves CPInv.
LEMMA NextCPInv == CPInv /\ [Next]_vars => CPInv'
<1> SUFFICES ASSUME CPInv, [Next]_vars PROVE CPInv'
  OBVIOUS
<1>1. CASE \E net \in Networks : SelectParams(net)
  BY <1>1, SelectParamsInv
<1>2. CASE UpdateVersionBitsParametersFromArgs
  BY <1>2, UpdateInv
<1>3. CASE InstallRegTest
  BY <1>3, InstallInv
<1>4. CASE UNCHANGED vars
  BY <1>4 DEF vars, CPInv, ParamsMatchSpec, DeploymentsLastTokenWins, LoopInv
<1>. QED
  BY <1>1, <1>2, <1>3, <1>4 DEF Next

-----------------------------------------------------------------------------
(***************************************************************************)
(* The theorems.                                                           *)
(***************************************************************************)

\* For every -vbparams command line every reachable state satisfies CPInv:
\* the installed parameters meet the table and the last-token rule, and an
\* object in the token loop is the regtest constructor's with the
\* deployments the tokens read so far set.
THEOREM RegistryInvariant == Spec => []CPInv
BY InitCPInv, NextCPInv, PTL DEF Spec

\* For every COIN, every value an uninitialized field may hold and every
\* -vbparams command line, whatever SelectParams installs in
\* globalChainParams has the stake parameters of the spec's table and meets
\* the construction invariants of section 4.A.
THEOREM InstalledParamsMatchSpec == Spec => []ParamsMatchSpec
<1>1. Init => CPInv
  BY InitCPInv
<1>2. CPInv /\ [Next]_vars => CPInv'
  BY NextCPInv
<1>3. CPInv => ParamsMatchSpec
  BY DEF CPInv
<1>. QED
  BY <1>1, <1>2, <1>3, PTL DEF Spec

\* For every -vbparams command line, regtest parameters are installed only
\* when every token is well formed, and then each deployment has the start
\* and timeout of the last token naming it (the regtest default when none
\* does): the token loop of CRegTestParams applies the tokens in order.
THEOREM DeploymentsFollowLastToken == Spec => []DeploymentsLastTokenWins
<1>1. CPInv => DeploymentsLastTokenWins
  BY DEF CPInv
<1>. QED
  BY <1>1, InitCPInv, NextCPInv, PTL DEF Spec
-----------------------------------------------------------------------------
(***************************************************************************)
(* The refinement.  Under the identity mapping, the initial state is the  *)
(* contract's, SelectParams for main or testnet is a call that installs,  *)
(* SelectParams for regtest is the base switch of a call whose            *)
(* construction has not returned (the contract's throw disjunct), a token *)
(* step is a stutter, and the end of the loop is a call of                *)
(* SelectParams("regtest") that installs what the rules build.            *)
(***************************************************************************)
LEMMA RegistryInit == Init => Registry!Init
BY DEF Init, Registry!Init

\* The object the loop finishes is one CreateChainParams("regtest") may
\* return by the declarative rules.
LEMMA FinishedIsBuilt ==
    ASSUME CPInv, constructing # Null, constructing.k > Len(vbparams)
    PROVE  constructing.params \in BuiltParams("regtest", vbparams)
<1> DEFINE c == constructing
           deps == [d \in DeploymentNames |-> ExpectedAfter(vbparams, d, Len(vbparams))]
<1>1. /\ RegTestShape(c.params)
      /\ c.k = Len(vbparams) + 1
      /\ \A j \in 1 .. c.k - 1 : WellFormedToken(vbparams[j])
      /\ c.params.deployments = deps
  BY DEF CPInv, LoopInv
<1>2. \A k \in DOMAIN vbparams : WellFormedToken(vbparams[k])
  <2>1. DOMAIN vbparams = 1 .. Len(vbparams)
    BY ChainParamsAssumption DEF CPInv
  <2>. QED
    BY <1>1, <2>1
<1>3. PICK g, e, m, h \in IndeterminateInts :
          c.params = [RegTestParamsBefore(g, e, m, h) EXCEPT
                        !.deployments = c.params.deployments]
  BY <1>1 DEF RegTestShape
<1>4. c.params = [RegTestParamsBefore(g, e, m, h) EXCEPT !.deployments = deps]
  BY <1>1, <1>3, Zenon
<1>5. BuiltParams("regtest", vbparams) =
        {[RegTestParamsBefore(x, y, z, w) EXCEPT !.deployments = deps] :
           x, y, z, w \in IndeterminateInts}
  BY <1>2 DEF BuiltParams
<1>. HIDE DEF deps
<1>6. \E x, y, z, w \in IndeterminateInts :
        c.params = [RegTestParamsBefore(x, y, z, w) EXCEPT !.deployments = deps]
  BY <1>4
<1>. QED
  BY <1>5, <1>6

\* Every step of the registry, stuttering included, is a step of the
\* atomic contract or leaves its variables alone.
LEMMA RegistryStep ==
    ASSUME CPInv, [Next]_vars
    PROVE  [Registry!Next]_Registry!vars
<1>1. CASE \E net \in Networks : SelectParams(net)
  <2>1. PICK net \in Networks : SelectParams(net)
    BY <1>1
  <2>2. PICK p \in CreateChainParams(net) :
            IF net = "regtest"
            THEN constructing' = [params |-> p, k |-> 1] /\ UNCHANGED chainParams
            ELSE chainParams' = p /\ UNCHANGED constructing
    BY <2>1 DEF SelectParams
  <2>3. baseNet' = net /\ vbparams' = vbparams
    BY <2>1 DEF SelectParams
  <2>4. CASE net = "regtest"
    BY <2>2, <2>3, <2>4 DEF Registry!Next, Registry!SelectParams
  <2>5. CASE net \in {"main", "test"}
    <3>1. chainParams' \in BuiltParams(net, vbparams)
      BY <2>2, <2>5 DEF CreateChainParams, BuiltParams
    <3>. QED
      BY <2>1, <2>3, <3>1 DEF Registry!Next, Registry!SelectParams
  <2>. QED
    BY <2>4, <2>5 DEF Networks
<1>2. CASE UpdateVersionBitsParametersFromArgs
  BY <1>2 DEF UpdateVersionBitsParametersFromArgs, Registry!vars
<1>3. CASE InstallRegTest
  <2>1. constructing # Null /\ constructing.k > Len(vbparams)
        /\ chainParams' = constructing.params /\ UNCHANGED <<vbparams, baseNet>>
    BY <1>3 DEF InstallRegTest
  <2>2. baseNet = "regtest"
    BY <2>1 DEF CPInv, LoopInv
  <2>3. chainParams' \in BuiltParams("regtest", vbparams)
    BY <2>1, FinishedIsBuilt
  <2>4. "regtest" \in Networks
    BY DEF Networks
  <2>. QED
    BY <2>1, <2>2, <2>3, <2>4 DEF Registry!Next, Registry!SelectParams
<1>4. CASE UNCHANGED vars
  BY <1>4 DEF vars, Registry!vars
<1>. QED
  BY <1>1, <1>2, <1>3, <1>4 DEF Next

\* SelectParams implements its atomic contract: every behaviour of the
\* registry with the token-by-token regtest constructor is, under the
\* identity mapping, a sequence of calls each of which switches the base
\* network and either installs what the declarative rules build from the
\* command line or leaves globalChainParams as it was.
THEOREM ImplementsRegistry == Spec => RegistrySpec
<1>1. []CPInv /\ [][Next]_vars => [][Registry!Next]_Registry!vars
  BY RegistryStep, PTL
<1>. QED
  BY <1>1, RegistryInit, RegistryInvariant, PTL DEF Spec, RegistrySpec, Registry!Spec
=============================================================================
