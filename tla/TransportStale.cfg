SPECIFICATION Spec
CONSTANTS
    a = a
    b = b
    None = None
    Clients = {a, b}
    Handlers = {a, b}
    Conns <- MCConns
    Calls <- Widgets
    Cap = 2
    Events = 2
CHECK_DEADLOCK FALSE
INVARIANT OwnBody
