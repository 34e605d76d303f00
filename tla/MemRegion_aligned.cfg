CONSTANTS
    WordSize = 4
    Size = 16
    Calls <- MCAligned
SPECIFICATION RegionSpec
CHECK_DEADLOCK FALSE
INVARIANTS
    Transfers
    OncePerWord
