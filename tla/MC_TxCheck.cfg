CONSTANTS
    NORMAL = NORMAL
    COINBASE = COINBASE
    PROVIDER_REGISTER = PROVIDER_REGISTER
    PROVIDER_UPDATE_SERVICE = PROVIDER_UPDATE_SERVICE
    PROVIDER_UPDATE_REVOKE = PROVIDER_UPDATE_REVOKE
    QUORUM_COMMITMENT = QUORUM_COMMITMENT
    STAKE = STAKE
    UnknownType = UnknownType
    NullPrevout = NullPrevout
    P1 = P1
    P2 = P2
    MaxMoney = 3
    AmountBits = 4
    WitnessScaleFactor = 4
    MaxBlockWeight = 8
    MaxTxExtraPayload = 1
    Txs <- MCTxs
    Prevouts <- MCPrevouts
SPECIFICATION Spec
INVARIANTS
    VerdictMatchesSpec
    VerdictInv
PROPERTIES
    NoAmountOverflow
CHECK_DEADLOCK FALSE
