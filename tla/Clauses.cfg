SPECIFICATION CSpec
CONSTANTS
    Chars = {"a", "k", "v"}
    Mark = "v"
    MaxLen = 3
    OpenAfter = 2
    PageSize = 2
    Inputs <- InputsDef
    Modes <- ModesDef
VIEW ClauseView
PROPERTIES EditsOneClause LeftKept OthersKept PicksListed SubstEdits
