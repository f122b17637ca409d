SPECIFICATION XSpec
CONSTANTS
    Clients = {a, b}
    Styles <- MCStyles
    Budget = 3
    MaxLen = 1
PROPERTIES BadWindowSurvived
CHECK_DEADLOCK FALSE
