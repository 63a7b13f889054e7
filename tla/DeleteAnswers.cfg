SPECIFICATION Spec
CONSTANTS
    Tasks = {t1}
    Kinds = {"delete"}
    MaxCalls = 1
    MaxFaults = 1
INVARIANT AppliedMeansReturned
CHECK_DEADLOCK FALSE
