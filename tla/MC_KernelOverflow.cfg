CONSTANTS
    Coin = 1
    AmountBits = 12
    HashBits = 18
    MaxWeightTime = 50
    Values <- MCValues
    Ages <- MCAges
    Targets <- MCTargets
    Hashes <- MCHashes
SPECIFICATION Spec
INVARIANTS
    KernelAcceptsAsSpec
CHECK_DEADLOCK FALSE
