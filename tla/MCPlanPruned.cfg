SPECIFICATION Spec
CONSTANTS
    Columns = 2
    Boxes <- ThinBoxes
    Queries <- TestQueries
    Misread <- TestMisread
    Indexes <- TestIndexes
    Names = {"&&"}
    Distance = {0, 1, 2}
    Ranks = 3
    Limit = 1
    Shapes = {"pruned probe"}
INVARIANT PairsOfQuery
