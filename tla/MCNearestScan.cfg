SPECIFICATION Spec
CONSTANTS
    Row = {1, 2, 3, 4}
    Reused = {2}
    MaxDistance = 2
    Limit = 2
    VectorSize = 1
    Hidden = Hidden
    Null = Null
    Raises = Raises
INVARIANTS TypeOK NothingNearerDropped NearestUnlessReused AnswersAreMeasured
CHECK_DEADLOCK FALSE
