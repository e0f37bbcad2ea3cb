\* Histories of one mutable fact: every outcome, commits out of request order, expiry.
SPECIFICATION QuietSpec
CONSTANTS
    alice = alice
    bob = bob
    r1 = r1
    r2 = r2
    app = app
    mutable = mutable
    fixed = fixed
    ZERO = ZERO
    Deployer = alice
    Accounts = {alice}
    Resolvers = {r1}
    Consumers = {}
    FactKeys = {mutable}
    MutableKeys = {mutable}
    TemplateKeys = {}
    Ttls = {1}
    Untils = {0}
    Values = {0}
    FeeConfigs <- NoConfigs
    InitialFees <- OneAttempt
    MaxRequests = 3
    MaxTime = 4
INVARIANTS FactMatchesRecords HistoryIsChain
PROPERTIES AnswersAreNotRetracted LedgerSpec
CHECK_DEADLOCK FALSE
