CONSTANTS
    Base = 1
    MaxCustom = 2
    MaxItems = 2
    MaxInput = 2
    MaxText = 3
    Rows = 2
    ListRows = 1
    DictRows = 1
    Types = {"bool", "list", "dict"}
SPECIFICATION Spec
INVARIANT SavedIsReadable
CHECK_DEADLOCK FALSE
