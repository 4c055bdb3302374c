CONSTANTS
    TestOrder <- MCTestOrder
    Lock = "lock"
    NoTest = NoTest
SPECIFICATION Spec
INVARIANT TypeOK
INVARIANT EachTestOnce
PROPERTY ImplementsWorkerPool
