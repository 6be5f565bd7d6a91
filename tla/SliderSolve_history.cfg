SPECIFICATION SolveSpec
CONSTANTS
    Frames = {"f1"}
    MaxRetries = 3
    MaxCalls = 2
INVARIANT HistoryHoldsSuccesses
CHECK_DEADLOCK FALSE
