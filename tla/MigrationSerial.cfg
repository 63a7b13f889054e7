SPECIFICATION FairSpec
CONSTANTS
    Versions <- ThreeVersions
    Objects <- MCObjects
    Format <- AllTs
    Section <- Guarded
    r1 = r1
    r2 = r2
    Runners = {r1}
    Commands = {"UP", "DOWN"}
    Targets = {0, 1, 2}
    Steps = {1, 3}
    MaxFaults = 3
INVARIANTS NoGaps ReturnedMeansDone
PROPERTIES KeepsLedger EveryCallEnds RetriesConverge
