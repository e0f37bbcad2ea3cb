\* What docs/RELEASE_NOTES_v1.0.0.md says of /ready, after a client's read met the quota.
SPECIFICATION Spec
CONSTANTS
    LightInterval = 1
    FullInterval = 2
    MaxAge = 2
    ContractMaxAge = 3
    IndexInterval = 1
    Cooldown = 2
    MaxWork = 1
    MaxTroubles = 1
INVARIANT NotReadyWhileCooling
