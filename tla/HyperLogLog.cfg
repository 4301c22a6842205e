\* The calls are finitely many, and all may have returned.
CHECK_DEADLOCK FALSE
SPECIFICATION Spec
CONSTANTS
    Goroutines = {1, 2, 3}
    Elements <- MCElements
    W = 4
    p = 1
    Hash <- MCHash
    MaxCalls = 3
INVARIANTS
    RegistersExact
    EstimateInBetween
PROPERTY OthersReturn
