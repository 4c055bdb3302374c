\* testLock on a store with no leftovers of an earlier run.
CONSTANTS
    COUNT = 3
    LENGTH = 2
    Stale = FALSE

SPECIFICATION Spec

INVARIANT TypeOK
INVARIANT HarnessSound
PROPERTY ImplementsWorkerPool
