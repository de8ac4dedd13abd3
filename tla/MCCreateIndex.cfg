SPECIFICATION Spec
CONSTANTS
    Chunk = {c1, c2, c3}
    Worker = {w1, w2, w3}
    None = None
INVARIANTS TypeOK AlignedWhenFree IndexHoldsTable
PROPERTY StatementEnds
CHECK_DEADLOCK FALSE
