\* A daemon that never has a value and a mapping at one path.
CONSTANTS
    Names <- MCNames
    Updates <- MCUpdates
    Careful = TRUE
    MaxRestarts = 1
SPECIFICATION FairSpec
INVARIANTS
    IndexMatches
    ShowComplete
PROPERTIES
    CleanSlate
    OperationEnds
