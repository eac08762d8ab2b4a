CONSTANTS
    None = None
    Id = {r, a, b, c}
    Root = r
    MaxForms = 2
    MaxMishaps = 1
SPECIFICATION Spec
INVARIANTS TypeOK TreeIsATree RowsShowTheTree RowsKeepParents FormsMatchState UndefinedNeedsHaste
PROPERTY CursorFollows
SYMMETRY Symmetry
CHECK_DEADLOCK FALSE
