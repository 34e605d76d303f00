CONSTANTS
    Word = 2
    MaxCount = 3
    MaxLen = 2
    Objects = {1, 2}
    Retries = 2
    Addrs = {0, 1, 2}
    MaxBurst = 3
    None = None
    HighWord = 8
    NumBars = 4
    NumCaps = 2
    Bases = {1, 3, 9}
    NoObject = NoObject
SPECIFICATION MCSpec
INVARIANTS
    WideRead
    WholeString
    LockHeals
    BurstAsAsked
    BarReached
PROPERTIES
    ObjectFits
