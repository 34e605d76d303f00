\* Two processes load profiles into one chip; transfers fail and processes die.
CONSTANTS
    p1 = p1
    p2 = p2
    Nobody = Nobody
    Comment = Comment
    Procs = {p1, p2}
    Profiles <- MCProfiles
    Pages = {0, 11}
    Addresses = {22, 36, 71}
    Values = {0, 1, 2, 192, 195}
    Reset = 0
    MaxLoads = 3
    MaxErrors = 1
SPECIFICATION Spec
INVARIANTS
    OneHolder
    NoStray
    ProfileLoaded
CHECK_DEADLOCK FALSE
