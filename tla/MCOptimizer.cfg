SPECIFICATION Spec
CONSTANTS
    Columns = 2
    Boxes <- ThinBoxes
    Queries <- TestQueries
    Misread <- TestMisread
    Indexes <- TestIndexes
    Names = {"&&", "@>", "<<", "&<", "#>>"}
    Distance = {0, 1, 2}
    Ranks = 3
    Limit = 2
    Shapes = {}
INVARIANTS TypeOK RowsOfQuery ColumnsOfQuery PairsOfQuery NearestEnough
