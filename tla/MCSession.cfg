CONSTANTS
    MaxSwipes = 2
    MaxMsgs = 3
    MaxReqs = 2
    MaxChunks = 2
    DisplayRoom = 1
    MaxChanges = 2
SPECIFICATION Spec
INVARIANTS
    TypeOK
    TargetsValid
    PromptIsWhatCameBefore
    RequestsOnlyAdd
    MetricsMatchReply
    
    NearlySaved
PROPERTIES
    ReplyIsWhole
    ReplyFailureIsShown
    RequestsEnd
    IsConversation
