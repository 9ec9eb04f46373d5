CONSTANTS
    Files <- TheFiles
SPECIFICATION Spec
INVARIANTS
    KeepsUids
