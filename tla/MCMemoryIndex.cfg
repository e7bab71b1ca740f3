CONSTANTS
    t1 = t1
    t2 = t2
    Threads <- MCThreads
    MaxPoints = 3
    MaxFrozen = 2
    Zero = Zero
    Tags = {1, 2, 3}
    R = 1
    SlackTenths = 20
    Modes <- MCModes
    NoTag = NoTag
    NoLoc = NoLoc
    FrozenVector = FrozenVector
    NoFile = NoFile
SPECIFICATION Spec
SYMMETRY Symmetric
INVARIANTS SlotsAccounted NoDanglingEdges AnswersMatchTags DegreesBounded
PROPERTIES RoundTrip
