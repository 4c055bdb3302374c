\* The final XCARD of testXSet against the exact-at-quiescence law.
CONSTANTS
    Workers = {w1, w2}
    LENGTH = 9
    MAXLEN = 4
    Background = FALSE
    StaleSets <- MCStaleSets

SPECIFICATION Spec

INVARIANT QuiescedExact
