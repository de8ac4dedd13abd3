SPECIFICATION Spec
CONSTANTS
    Row = {r1, r2}
    Box = {b1, b2}
    Raises = {}
    SegmentSize = 2
    LoadLimit = 100
    MaxEntries = 4
    NoBox = NoBox
    Absent = Absent
    Tombstone = Tombstone
    Free = Free
SYMMETRY Symmetry
INVARIANT DeletedBoxFiltered
