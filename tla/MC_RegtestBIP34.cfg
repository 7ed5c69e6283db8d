CONSTANTS
    Coin = 100
    NoTimeout <- MCNoTimeout
    Decimal <- MCDecimal
    IndeterminateInts <- MCIndeterminateInts
    VbArgs <- MCVbArgs
    Null = Null
SPECIFICATION Spec
INVARIANTS
    RegtestBIP34AtLastPoW
