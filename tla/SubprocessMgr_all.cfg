\* Two children, every program that needs no reader; handlers that raise, spawns
\* that fail, a manager that is dropped.
CONSTANTS
    c1 = c1
    c2 = c2
    h1 = h1
    h2 = h2
    NoChild = NoChild
    Children = {c1, c2}
    Handlers = {h1, h2}
    Raising <- MCRaising
    Programs <- MCAll
    MaxFd = 4
    SpawnFails = TRUE
    MayDrop = TRUE
SPECIFICATION FairSpec
INVARIANTS
    MapIsLive
PROPERTIES
    ExitNotified
CHECK_DEADLOCK FALSE
