SPECIFICATION Spec
CONSTANTS
    Row = {r1, r2}
    Box = {b1, b2, b3}
    Raises = {b3}
    SegmentSize = 2
    LoadLimit = 1
    MaxEntries = 3
    NoBox = NoBox
    Absent = Absent
    Tombstone = Tombstone
    Free = Free
SYMMETRY Symmetry
INVARIANTS TypeOK SearchComplete NoDeletedAnswer ExactUnlessReused ChainExact ChainShape RefusedOnlyOverLimit
PROPERTIES KeepsRecorded ImplementsEntryStore
