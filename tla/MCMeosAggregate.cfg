SPECIFICATION Spec
CONSTANTS
    Row = {r1, r2, r3}
    Partial = {p1, p2, p3}
    MaxTime = 3
    Families = {"extent", "tagg", "append"}
    Required = {"first", "later"}
    Nulls = {{"optional"}, {"first"}, {"later"}}
    Null = Null
SYMMETRY Symmetry
INVARIANTS TypeOK OwnedOnce AnswerWhole RefusedOnlyOverlapping AllReleased
