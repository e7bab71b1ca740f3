CONSTANTS
    Ps <- MCPs
    MaxRuns = 3
SPECIFICATION Spec
INVARIANTS FinalIsFresh
CHECK_DEADLOCK FALSE
