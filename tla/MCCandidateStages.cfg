CONSTANTS
    t1 = t1
    t2 = t2
    r1 = r1
    r2 = r2
    r3 = r3
    r4 = r4
    r5 = r5
    r6 = r6
    old = old
    Ps <- MCPs
    None = None
    Ns <- MCNs
    Bs <- MCBs
    Threads <- MCThreads
    Cap0 = 3
    Records <- MCRecords
    Stale = old
    Gid <- MCGid
    Count <- MCCount
    Self = Self
    Origin <- MCOrigin
SPECIFICATION StagesSpec
INVARIANTS AtMostTwoResident HoldsTheRightIndexes EveryPairOnce AnchorsAreReused StagingFits RecordsConserved CandidatesExact
CHECK_DEADLOCK FALSE
