\* MRRun returns, or the process dies.
CHECK_DEADLOCK FALSE
SPECIFICATION Spec
CONSTANTS
    NumFiles = 2
    Content <- TwinContent
    Missing = {}
    NumMappers = 2
    NumReducers = 1
    HashModulus = 65536
INVARIANT TrieModificationThreadSafe
