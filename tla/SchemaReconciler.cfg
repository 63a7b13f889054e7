SPECIFICATION Spec
CONSTANTS
    Instances = {i1, i2}
    Cases <- MCCases
    MaxFaults = 1
INVARIANTS
    ReconciledMeansDeclared
    NoSpuriousDrift
    SafeRollbackRestores
PROPERTIES
    NeverStepsBack
    Converges
CHECK_DEADLOCK FALSE
