SPECIFICATION Spec
CONSTANTS
    Instances = {i1, i2}
    Cases <- MCFileCases
    MaxFaults = 1
INVARIANTS
    NoSpuriousDrift
CHECK_DEADLOCK FALSE
