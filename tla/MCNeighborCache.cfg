CONSTANTS
    t1 = t1
    t2 = t2
    NumPoints = 7
    Graphs <- MCGraphs
    Limits <- MCLimits
    Hops <- MCHops
    MedoidLists <- MCMedoidLists
    IoBatch = 3
    Threads <- MCThreads
    Engines <- MCEngines
    MaxEvents = 2
    Buffers = 3
    Garbage = Garbage
    Hashes <- MCHashes
    MaxDegree = 2
    BatchSize = 3
    Unused = 13
    Files <- MCFiles
    Reloads <- MCReloads
SPECIFICATION Spec
INVARIANTS CacheListExact LookupExact
CHECK_DEADLOCK FALSE
