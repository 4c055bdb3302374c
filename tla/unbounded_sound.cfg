\* testSet, testList, testHash and testZSet, two goroutines each, over the
\* lengths of MCLengths.
CONSTANTS
    Workers = {w1, w2}
    Tests <- MCTests
    Lengths <- MCLengths
SPECIFICATION Spec
INVARIANT TypeOK
INVARIANT HarnessSound
PROPERTY ImplementsWorkerPool
