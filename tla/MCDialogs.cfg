CONSTANTS
    Base = 1
    MaxCustom = 2
    MaxItems = 2
    MaxInput = 2
    MaxText = 3
    Rows = 2
    ListRows = 1
    DictRows = 1
    Types = {"bool", "list", "dict"}
    TextMax = 6
    TextWidth = 3
    TextHeight = 2
    ModelRows = 1
    Names = {"m"}
    Toks = {"t"}
    Personas = {"User", "p"}
    MaxChats = 4
    Greetings = 4
SPECIFICATION DialogsSpec
INVARIANTS
    FocusShown
    LineMoves
    IndicesValid
PROPERTIES
    ImportAdds
    ActiveStays
CHECK_DEADLOCK FALSE
