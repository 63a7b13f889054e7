SPECIFICATION Spec
CONSTANTS
    Versions <- TwoVersions
    Objects <- MCObjects
    Format <- AllSurql
    Section <- MixedOneWay
    r1 = r1
    r2 = r2
    Runners = {r1, r2}
    Commands = {"UP"}
    Targets = {0, 1}
    Steps = {1, 2}
    MaxFaults = 2
INVARIANTS TypeOK RecordedInEffect ReportsSound UpInv
