\* MRRun returns, or the process dies.
CHECK_DEADLOCK FALSE
SPECIFICATION Spec
CONSTANTS
    NumFiles = 3
    Content <- MixedContent
    Missing = {2, 3}
    NumMappers = 2
    NumReducers = 2
    HashModulus = 65536
INVARIANTS
    MapperBound
    ReduceAfterMap
    ReturnsLast
    NoEmitLost
PROPERTIES
    Terminates
    ImplementsWordCount
