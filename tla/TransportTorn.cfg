SPECIFICATION Spec
CONSTANTS
    a = a
    b = b
    None = None
    Clients = {a, b}
    Handlers = {a}
    Conns <- MCConns
    Calls <- MCCalls
    Cap = 2
    Events = 2
CHECK_DEADLOCK FALSE
PROPERTY TornReturn
