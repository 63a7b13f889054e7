SPECIFICATION FairSpec
CONSTANTS
    t1 = t1
    t2 = t2
    alice = alice
    Tasks = {t1, t2}
    Users = {alice}
    Operations <- Everything
    MaxHandles = 3
    MaxFaults = 1
    MaxExpiries = 1
INVARIANTS SingleFlight AuthenticatedUntilExpiry
PROPERTIES HandedOutUsable CallsSettle
CHECK_DEADLOCK FALSE
