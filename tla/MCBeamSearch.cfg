CONSTANTS
    Nodes <- MCNodes
    Graphs <- MCGraphs
    Caches <- MCCaches
    Lists <- MCLists
    Beams <- MCBeams
    IoLimits <- MCIoLimits
SPECIFICATION Spec
INVARIANTS ExpandedAtMostOnce KeepsBestOfVisited StopsAtLocalOptimum
PROPERTIES Terminates
CHECK_DEADLOCK FALSE
