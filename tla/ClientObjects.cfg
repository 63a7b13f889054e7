SPECIFICATION FairSpec
CONSTANTS
    t1 = t1
    t2 = t2
    a = a
    b = b
    c = c
    noName = noName
    Tasks = {t1, t2}
    Keys = {a, b, c}
    NoKey = noName
    MaxSize = 2
    Ttl = 0
    MaxTime = 1
    MaxVersion = 1
    MaxQueries = 2
    MaxFaults = 1
    Names = {a, b}
    NoName = noName
    MaxClients = 3
    MaxChanges = 3
    MaxErrors = 1
INVARIANTS InvalidatedIsGone NothingRunsUnlisted
    NoneDropped
PROPERTY EveryChangeReported
CHECK_DEADLOCK FALSE
