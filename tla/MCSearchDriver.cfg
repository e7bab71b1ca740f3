CONSTANTS
    t1 = t1
    t2 = t2
    s1 = s1
    NoScratch = NoScratch
    NoThread = NoThread
    Threads <- MCThreads
    Scratches <- MCScratches
    Queries = 3
    Ls <- MCLs
    MaxLs = 2
    RecallAts <- MCRecallAts
    Recalls <- MCRecalls
    Empty = Empty
    NotSaved = NotSaved
SPECIFICATION Spec
INVARIANTS ScratchConserved ReadsThroughOwnContext SavesOnlyCompleteRuns FilesMatchWithoutSkips AbortHasMessage
PROPERTIES Terminates
CHECK_DEADLOCK FALSE
