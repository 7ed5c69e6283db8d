CONSTANTS
    MaxBlocks = 5
    Times <- MCTimes
    GenesisTime = 0
    ModifierInterval = 60
    StakeMinAge = 3600
    StakeMaxAge = 86400
    StakeEnforcement = 3
    MinStakeAmount = 150
    MinStakeHistory = 1
    Coin = 1
    Values = {149, 150}
    PrevoutIndexes = {0, 1}
    TargetPerCoinDay = 2
    PosShift = 4
    HashOf <- MCHashFn
    SelectionHash <- MCSelectionHash
    KernelHash <- MCKernelHash
SPECIFICATION Spec
INVARIANTS
    TypeOK
    SelectionIsLeastHash
    ModifierAlwaysComputed
    KernelModifierOnBranch
PROPERTIES
    AbsSpec
CHECK_DEADLOCK FALSE
