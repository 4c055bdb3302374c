\* testZSet with length 6: zcard = 3 after the ZREM loop.
CONSTANTS
    Workers = {w1}
    Tests <- MCZSetTests
    Lengths <- MCZSetOddLengths
SPECIFICATION Spec
INVARIANT HarnessSound
