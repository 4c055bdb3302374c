CONSTANTS
    Routines = 2
    Requested = 11
    Expire = 2
    Callbacks = {"str", "int"}
    MaxDrift = 2
    MaxNow <- MCMaxNow
    MaxRestarts = 1
SPECIFICATION Spec
INVARIANT TypeOK
INVARIANT FinalPopulation
PROPERTY NoTTLCarriedOver
PROPERTY Completes
PROPERTY ClosureSeesItsPass
