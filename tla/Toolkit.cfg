SPECIFICATION Spec
CONSTANTS
    t1 = t1
    t2 = t2
    Tasks = {t1, t2}
    MaxLoads = 2
    MaxEdits = 1
    MaxClears = 1
    MaxClients = 4
    MaxScopes = 3
    Kinds = {"read", "create", "update", "merge", "patch", "upsert", "delete"}
    MaxCalls = 2
    MaxFaults = 1
    MaxQueries = 2
    MaxMethods = 4
    PageSize = 2
    MaxLost = 1
    MaxSquashes = 2
    MaxChanges = 2
    MaxDatabases = 3
    MaxMade = 3
    MaxSteps = 2
    MaxRuns = 2
    MaxAttempts = 2
    MaxUses = 2
    MaxOpened = 2
    MaxAsked = 4
SYMMETRY Symmetry
INVARIANTS SettingsHold ClientsHold CrudHolds QueriesHold RecordsHold
    GraphHolds BucketsHold EchoHolds FilesHold
CHECK_DEADLOCK FALSE
