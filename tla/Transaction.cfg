SPECIFICATION Spec
CONSTANTS
    t1 = t1
    t2 = t2
    a = a
    b = b
    c = c
    Tasks = {t1, t2}
    Batches <- MCBatches
    Statements = {a, b, c}
    Width <- OneEach
    MaxBuffer = 3
INVARIANTS
    CommittedMeansApplied BatchesArePrefixes ResultsMatchQueue
PROPERTIES IsAtomicBatch
CHECK_DEADLOCK FALSE
