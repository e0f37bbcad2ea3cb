\* Administration from the constructor's state; payments, overpayments, refunds and
\* withdrawals of a deployed registry under changing prices.
SPECIFICATION OwnersSpec
CONSTANTS
    alice = alice
    bob = bob
    r1 = r1
    r2 = r2
    app = app
    mutable = mutable
    fixed = fixed
    ZERO = ZERO
    Deployer = alice
    Accounts = {alice, bob}
    Resolvers = {r1}
    Consumers = {}
    FactKeys = {fixed}
    MutableKeys = {}
    TemplateKeys = {fixed}
    Ttls = {0}
    Untils = {0}
    Values = {0, 1, 3}
    FeeConfigs <- PriceChanges
    InitialFees <- Free
    MaxRequests = 2
    MaxTime = 3
INVARIANT FundsConserved
PROPERTY NewWorkIsAdmitted
CHECK_DEADLOCK FALSE
