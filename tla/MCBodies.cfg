SPECIFICATION BodiesSpec
CONSTANTS
    None = None
    Labels = {"l"}
    SignBit = 2
    Jobs <- BodyJobs
    GraphPrograms <- MCGraphPrograms
    MaxGraphDepth = 4
    GraphLimits <- MCGraphLimits
    BoundsDeclared <- MCDeclared
    EarlierBounds <- MCEarlier
    Programs <- MCPrograms
    ExtentTypes <- MCExtentTypes
    ExtentRoots <- MCExtentRoots
    CastTypes <- MCCasts
    Indices <- MCIndices
    RuntimeIndex = 99
    Discarded <- MCDiscarded
    ExtentDepth = 4
    OffsetBound = 32
    TargetPrograms <- MCTargetPrograms
INVARIANTS JumpsExact GraphExact BoundsExact SizesExact TargetsExact
PROPERTY BodiesExact
