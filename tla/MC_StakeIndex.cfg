CONSTANTS
    MaxBlocks = 5
    Times <- MCTimes
    GenesisTime = 0
    ModifierInterval = 60
    ModifierValues <- MCModifierValues
SPECIFICATION Spec
INVARIANTS
    IndexTypeOK
    LastModifierFound
CHECK_DEADLOCK FALSE
