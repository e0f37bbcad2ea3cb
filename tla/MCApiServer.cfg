\* Checks, passes, outages and restarts in every order; a tick is one light interval.
SPECIFICATION FairSpec
CONSTANTS
    LightInterval = 1
    FullInterval = 2
    MaxAge = 2
    ContractMaxAge = 3
    IndexInterval = 1
    Cooldown = 2
    MaxWork = 1
    MaxTroubles = 2
INVARIANTS ReadyIsEarned FailedVerificationHolds RestartsNeverExtendCooldown
PROPERTY RecoversWhenAllIsWell
