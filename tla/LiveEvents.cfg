SPECIFICATION FairSpec
CONSTANTS
    Tasks = {t1}
    MaxQueries = 1
    MaxFaults = 0
PROPERTY EventsReachSubscribers
CHECK_DEADLOCK FALSE
