CONSTANTS
    MaxCandidates <- MCMaxCandidates
    Dists <- MCDists
    KSearches <- MCKSearches
    BatchSizes <- MCBatchSizes
    Streaks <- MCStreaks
    Modes <- MCModes
SPECIFICATION RefineSpec
INVARIANTS FullRefinementIsExact ReturnsKWhenItCan EarlyExitAfterStreak
CHECK_DEADLOCK FALSE
