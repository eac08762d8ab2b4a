CONSTANTS
    None = None
    Id = {r, a, b}
    Root = r
    MaxForms = 2
    MaxMishaps = 0
SPECIFICATION Spec
INVARIANT SelectedRowExists
CHECK_DEADLOCK FALSE
