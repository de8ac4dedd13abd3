SPECIFICATION Spec
CONSTANTS
    Row = {r1, r2, r3, r4, r5}
    VectorSize = 2
    MaxAnswer = 5
    Local = {r1}
    Stale = {r2}
    Raised = {TRUE, FALSE}
SYMMETRY Symmetry
INVARIANTS TypeOK RowsUnlessDisturbed
PROPERTY ImplementsRowStream
CHECK_DEADLOCK FALSE
