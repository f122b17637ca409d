SPECIFICATION XSpec
CONSTANTS
    Clients = {a}
    Styles <- MCStyles
    Budget = 4
    MaxLen = 1
PROPERTIES InOrder Served
CHECK_DEADLOCK FALSE
