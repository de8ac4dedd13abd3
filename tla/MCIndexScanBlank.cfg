SPECIFICATION Spec
CONSTANTS
    Row = {r1, r2, r3, r4, r5}
    VectorSize = 2
    MaxAnswer = 5
    Local = {}
    Stale = {}
    Raised = {FALSE}

INVARIANT RowsOfSequentialScan
CHECK_DEADLOCK FALSE
