SPECIFICATION Spec
CONSTANTS
    Probe = {p1, p2}
    Row = {r1, r2}
    Hidden = {h1}
    VectorSize = 2
    MaxAnswer = 4
    Unset = Unset
INVARIANT TypeOK
PROPERTIES ImplementsRowStream JoinEnds
CHECK_DEADLOCK FALSE
