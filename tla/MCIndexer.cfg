\* Two requests, or one and a policy's event, with a failure or restart anywhere.
SPECIFICATION FairSpec
CONSTANTS
    p = p
    k = k
    l = l
    FactKeys = {k}
    Policies = {p}
    MaxRecords = 1
    MaxMutable = 1
    MaxEntries = 2
    MaxCalled = 1
    MaxFailures = 1
INVARIANTS TypeOK CheckpointsCover ServedAnswerIsCurrent FinishedPassAgrees
PROPERTIES ProjectionAdvances MirrorCatchesUp
CHECK_DEADLOCK TRUE
