CONSTANTS
    Ann = Ann
    Text = Text
    Nobody = Nobody
    Erased = Erased
    NoNote = NoNote
    Cards <- TheCards
    Directory <- TheDirectory
    Notes <- TheNotes
    MaxClock = 2
    MaxRuns = 2
    MaxOps = 5
SPECIFICATION Spec
PROPERTIES
    ResumesWithNote
