\* testXSet with a MAXLEN below 4 against a store keeping the contract.
CONSTANTS
    Workers = {w1, w2}
    LENGTH = 6
    MAXLEN = 2
    Background = FALSE
    StaleSets <- MCStaleSets

SPECIFICATION Spec

INVARIANT HarnessSound
