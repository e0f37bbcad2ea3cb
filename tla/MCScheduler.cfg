\* Two jobs at a time: all interleavings of timer, answers and retries.
SPECIFICATION FairSpec
CONSTANTS
    a = a
    b = b
    c = c
    d = d
    Reads = {a, b, c, d}
    Concurrency = 2
    MinInterval = 2
    MaxRetries = 2
    MaxBackoff = 3
    Cooldown = 3
INVARIANTS ActiveIsBounded DrainedWhileCooling
PROPERTIES StartsAreSpaced EveryReadSettles
CHECK_DEADLOCK TRUE
