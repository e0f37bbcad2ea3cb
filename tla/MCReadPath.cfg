\* Every kind of record through every form, width and delay; facts expire.
SPECIFICATION Spec
CONSTANTS
    Int4Max = 2
    U32Max = 3
    SafeMax = 5
    U256Max = 9
    Tables = {"policies", "templates", "requests", "resolutions", "facts", "evidence", "config", "stats", "resolver", "events", "history"}
    Versions <- MCVersions
    StaleAfter = 1
    MaxPass = 1
    MaxTime = 4
INVARIANTS AnswersAreOneVersion FreshIsAtLeastUnexpired StaleIsConfessed FailuresAreNotAbsence
CHECK_DEADLOCK FALSE
