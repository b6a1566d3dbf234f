SPECIFICATION Spec
CONSTANTS
    plain = plain
    odd = odd
    Null = Null
    Words <- MCWords
    Columns = {plain, odd}
    Values = {0, 1, 2}
    Named = {plain}
    Filterable <- MCFilterable
    Sortable <- MCSortable
    DefaultSort <- MCDefaultSort
    Fields <- MCFields
    Options <- MCOptions
    Sorts <- MCSorts
    Limits <- MCLimits
    Offsets <- MCOffsets
    FixedClauses <- MCFixedClauses
    Bounds <- MCBounds
    MaxFilters = 2
INVARIANTS
    SelectsTheSameRows
    OffsetsHaveAnOrder
CHECK_DEADLOCK FALSE
