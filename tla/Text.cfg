SPECIFICATION TSpec
CONSTANTS
    Ascii = {"x"}
    Control = {"del"}
    Plain = {"mi"}
    Voiced = {"ka", "ha", "u"}
    Both = {"ha"}
    KataVoiced = {"wa"}
    Shared = {"stop"}
    VoicedU = {"u"}
    MayCombine <- MCCombine
    X0213 = TRUE
    MaxText = 4
    Lines <- MCLines
    Patterns = {"T35", "(", "KK"}
    Bad = {"("}
    Texts = {"T35", "KK", "XX"}
    Matches <- MCMatches
    Garbage = Garbage
    MaxLines = 2
    MaxReads = 2
    NoFile = NoFile
CHECK_DEADLOCK FALSE
INVARIANTS ReadingComesBack CutsWhereWhole CleanFileRead
