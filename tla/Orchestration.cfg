SPECIFICATION FairSpec
CONSTANTS
    e1 = e1
    e2 = e2
    e3 = e3
    Environments = {e1, e2, e3}
    Versions <- TwoVersions
    Plans <- MCPlans
    MaxFaults = 2
INVARIANTS SuccessMeansMigrated StopsAtFailure ResultsAccount
PROPERTIES KeepsLedgers RedeploysConverge
