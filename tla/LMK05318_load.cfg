\* Loads, failed or not, of profiles with gaps, masks and a register twice.
CONSTANTS
    Addresses = {11, 12, 13, 353, 354}
    Bits = {3, 7}
    Bytes <- MCBytes
    Profiles <- MCProfiles
    MaxLoads = 2
SPECIFICATION Spec
CHECK_DEADLOCK FALSE
INVARIANTS
    NothingLost
    LoadedAsSequential
PROPERTIES
    ProtectedKept
