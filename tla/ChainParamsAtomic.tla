-------------------------- MODULE ChainParamsAtomic --------------------------
(***************************************************************************)
(* What SelectParams (src/src/chainparams.cpp) promises, as one atomic     *)
(* step per call: SelectBaseParams switches the base network, then either  *)
(* CreateChainParams returns a parameter set the rules allow for that      *)
(* network and command line and it becomes globalChainParams, or the      *)
(* constructor throws and globalChainParams stays as it was.  ChainParams, *)
(* whose regtest constructor reads one -vbparams token per step, is shown *)
(* to implement it.                                                        *)
(***************************************************************************)
CONSTANTS
    Networks,     \* the network names SelectParams accepts
    VbArgs,       \* the possible -vbparams command lines
    Null,         \* globalChainParams and the base before the first call
    Built(_, _)   \* Built(net, args): what CreateChainParams(net) may return

VARIABLES
    vbparams,     \* the -vbparams arguments of this process
    baseNet,      \* the network SelectBaseParams last installed
    chainParams   \* *globalChainParams, or Null

vars == <<vbparams, baseNet, chainParams>>

Init ==
    /\ vbparams \in VbArgs
    /\ baseNet = Null
    /\ chainParams = Null

\* One call of SelectParams(net); the second disjunct is the throw.
SelectParams(net) ==
    /\ baseNet' = net
    /\ \/ chainParams' \in Built(net, vbparams)
       \/ UNCHANGED chainParams
    /\ UNCHANGED vbparams

Next == \E net \in Networks : SelectParams(net)

Spec == Init /\ [][Next]_vars
=============================================================================
