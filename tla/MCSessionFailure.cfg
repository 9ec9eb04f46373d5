CONSTANTS
    MaxSwipes = 2
    MaxMsgs = 3
    MaxReqs = 2
    MaxChunks = 1
    DisplayRoom = 1
    MaxChanges = 1
SPECIFICATION Spec
PROPERTY FailureIsShown
