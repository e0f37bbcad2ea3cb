\* A pass that stops between the flags and the fact's row.
SPECIFICATION Spec
CONSTANTS
    p = p
    k = k
    l = l
    FactKeys = {k}
    Policies = {p}
    MaxRecords = 1
    MaxMutable = 1
    MaxEntries = 2
    MaxCalled = 1
    MaxFailures = 1
INVARIANTS LastGoodProjectionIntact
CHECK_DEADLOCK TRUE
