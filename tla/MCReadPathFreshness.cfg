\* What docs/API.md says of freshness, against a cached fact at the second it expires.
SPECIFICATION Spec
CONSTANTS
    Int4Max = 2
    U32Max = 3
    SafeMax = 5
    U256Max = 9
    Tables = {"facts"}
    Versions <- MCVersions
    StaleAfter = 1
    MaxPass = 1
    MaxTime = 4
INVARIANT FreshnessIsContracts
CHECK_DEADLOCK FALSE
