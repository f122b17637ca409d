SPECIFICATION XSpec
CONSTANTS
    Clients = {a, b}
    Styles <- MCStyles
    Budget = 3
    MaxLen = 1
INVARIANTS LiveFound OwnContext FocusKept
PROPERTIES ShownStays
SYMMETRY MCSymmetry
CHECK_DEADLOCK FALSE
