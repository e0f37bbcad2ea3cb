----------------------------- MODULE MCRegistry -----------------------------
(* Small instances of EvidraRegistry. *)
EXTENDS RegistryProperties, TLC

CONSTANTS alice, bob, r1, r2, app, mutable, fixed

\* Timing scaled down: retry after 1, stale after 2, at most two attempts.
Free == [base |-> 0, perAttempt |-> 0, reuse |-> 0, retryDelay |-> 1,
         staleAfter |-> 2, maxAttempts |-> 2]
Priced == [Free EXCEPT !.base = 1, !.perAttempt = 1, !.reuse = 1]
Dearer == [Priced EXCEPT !.perAttempt = 2, !.staleAfter = 1, !.maxAttempts = 1]

\* The state the deployment script leaves: r1 enabled and made the default.
Deployed(config) ==
    /\ owner = Deployer /\ pendingOwner = ZERO /\ guardian = Deployer
    /\ paused = FALSE
    /\ fees = config
    /\ resolvers = [r \in Resolvers |-> IF r = r1 THEN "enabled" ELSE "unknown"]
    /\ defaultResolver = r1
    /\ activePolicies = FactKeys /\ activeTemplates = TemplateKeys
    /\ requests = <<>> /\ resolutions = <<>>
    /\ facts = [k \in FactKeys |-> EmptyFact]
    /\ history = [k \in FactKeys |-> <<>>]
    /\ credits = [a \in Accounts |-> 0]
    /\ balance = 0
    /\ transfers = [a \in Accounts |-> 0]
    /\ jobs = {} /\ callbacks = {}
    /\ now = 1

\* The value flows: prices change, credits are withdrawn, transfers finalize.
MoneyCommits == [attempt : {1, 2}, key : FactKeys, outcome : Outcomes,
                 diagnostic : {"NONE"}, policyOk : {TRUE}, until : Untils]
MoneyNext ==
    \/ CreateNext
    \/ \E rid \in DOMAIN requests, sender \in Accounts :
          \/ \E value \in Values : RetryResolution(sender, rid, value)
          \/ CancelStaleRequest(sender, rid)
    \/ \E r \in Resolvers, rid \in DOMAIN requests, c \in MoneyCommits :
          CommitResolution(r, rid, c)
    \/ \E who \in Accounts : WithdrawCredit(who) \/ FinalizeTransfer(who)
    \/ \E sender \in Accounts :
          /\ \E c \in FeeConfigs : SetFeeConfig(sender, c)
          /\ UNCHANGED <<policyVars, requests, factVars, moneyVars, messageVars, now>>
    \/ Tick

\* Every action from the constructor's state, free of charge, up to time 2;
\* the value flows of a deployed registry with prices.
AdminNext == Next /\ now' <= 2 /\ UNCHANGED <<fees, moneyVars>>
OwnersSpec ==
    /\ Init \/ Deployed(Priced)
    /\ [][IF fees = Free THEN AdminNext ELSE MoneyNext]_vars

\* A deployed registry whose administrators stand still.
QuietNext == CreateNext \/ DriveNext \/ CommitNext \/ Tick
QuietSpec == Deployed(InitialFees) /\ [][QuietNext]_vars

OneAttempt == [Free EXCEPT !.maxAttempts = 1]
NoConfigs == {}
PriceChanges == {Priced, Dearer}
=============================================================================
