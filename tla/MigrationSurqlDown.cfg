SPECIFICATION Spec
CONSTANTS
    Versions <- TwoVersions
    Objects <- MCObjects
    Format <- AllSurql
    Section <- MixedOneWay
    r1 = r1
    r2 = r2
    Runners = {r1}
    Commands = {"UP", "DOWN"}
    Targets = {0}
    Steps = {2}
    MaxFaults = 0
INVARIANT DownReverts
