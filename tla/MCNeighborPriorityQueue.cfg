CONSTANTS
    Ids <- MCIds
    Dists <- MCDists
    Capacities <- MCCapacities
SPECIFICATION FairSpec
INVARIANTS TypeOK Sorted CursorAtFirstUnexpanded RetainsBest
PROPERTIES InsertReturns ImplementsTopL
