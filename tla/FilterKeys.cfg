SPECIFICATION Spec
CONSTANTS
    plain = plain
    odd = odd
    Null = Null
    Words <- MCWords
    Columns = {plain, odd}
    Values = {0, 1, 2}
    Named = {plain}
    Filterable <- KeyFilterable
    Sortable <- MCFilterable
    DefaultSort <- MCDefaultSort
    Fields <- KeyFields
    Options <- KeyOptions
    Sorts <- Unsorted
    Limits <- Unsorted
    Offsets <- Unsorted
    FixedClauses <- MCFixedClauses
    Bounds <- MCBounds
    MaxFilters = 2
INVARIANTS
    DeclaredFiltersAreAccepted
CHECK_DEADLOCK FALSE
