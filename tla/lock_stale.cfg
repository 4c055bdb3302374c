\* testLock on the default namespace as an interrupted earlier run left it.
CONSTANTS
    COUNT = 2
    LENGTH = 2
    Stale = TRUE

SPECIFICATION Spec

INVARIANT HarnessSound
