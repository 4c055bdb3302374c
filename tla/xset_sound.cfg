\* testXSet against a store that trims only inside XADD.
CONSTANTS
    Workers = {w1, w2}
    LENGTH = 9
    MAXLEN = 4
    Background = FALSE
    StaleSets <- MCStaleSets

SPECIFICATION Spec

INVARIANT TypeOK
INVARIANT HarnessSound
PROPERTY ImplementsWorkerPool
