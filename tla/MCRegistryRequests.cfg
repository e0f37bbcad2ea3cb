\* Retries, cancels, late commits, reuse and callbacks of two requests of a template.
SPECIFICATION QuietSpec
CONSTANTS
    alice = alice
    bob = bob
    r1 = r1
    r2 = r2
    app = app
    mutable = mutable
    fixed = fixed
    ZERO = ZERO
    Deployer = alice
    Accounts = {alice}
    Resolvers = {r1}
    Consumers = {app}
    FactKeys = {mutable}
    MutableKeys = {mutable}
    TemplateKeys = {mutable}
    Ttls = {1, 2}
    Untils = {0}
    Values = {0}
    FeeConfigs <- NoConfigs
    InitialFees <- Free
    MaxRequests = 2
    MaxTime = 4
INVARIANTS OneResolutionPerRequest JobsMatchAttempts ReusedAnswersWereFresh CallbacksAgree ResultsAreCalledBack
PROPERTIES TerminalIsFinal ChainSpec
CHECK_DEADLOCK FALSE
