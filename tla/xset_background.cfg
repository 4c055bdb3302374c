\* testXSet against a store that may also trim between two calls.
CONSTANTS
    Workers = {w1, w2}
    LENGTH = 7
    MAXLEN = 4
    Background = TRUE
    StaleSets <- MCStaleSets

SPECIFICATION SpecBackground

INVARIANT HarnessSound
