CONSTANTS
    NumSlots = 2
    Images <- MCImages
    Commands <- MCCommands
    Pseudo = TRUE
    Attempts = 2
SPECIFICATION Spec
INVARIANTS
    FlagIsTrue
PROPERTIES
    LoadedIsUsable
    RescanFindsAll
    NoLiveReprogram
