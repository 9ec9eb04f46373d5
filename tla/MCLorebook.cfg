CONSTANTS
    Files <- TheFiles
SPECIFICATION Spec
INVARIANTS
    TypeOK
    UidsAreTheFiles
PROPERTIES
    ToggleIsOne
    LoadEnds
