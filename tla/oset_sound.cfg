\* testOSet against a store that trims only inside OADD; MAXLEN 5 is odd,
\* and 2*MAXLEN = 10 < LENGTH forces a trim.
CONSTANTS
    Workers = {w1, w2}
    LENGTH = 11
    MAXLEN = 5
    StaleSets <- MCStaleSets

SPECIFICATION Spec

INVARIANT TypeOK
INVARIANT HarnessSound
PROPERTY ImplementsWorkerPool
