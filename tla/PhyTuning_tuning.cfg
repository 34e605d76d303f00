SPECIFICATION TuningSpec

CONSTANTS
    Procs = {daemon, tool}
    Daemon = daemon
    Tool = tool
    Ports = {p1, p2}
    Fields = {"main", "pre", "inhibit"}
    FieldValues = {0, 1}
    Reset = 0
    MaxTries = 2
    Intfs = {i1, i2}
    NoPort = none
    Speeds = {"10G", "25G"}
    Tuned <- MCTuned
    Other = "inhibit"
    TuningData <- MCTuningData
    Unset = unset
    Starts <- MCStarts
    Changes = 2

INVARIANTS
    TunedWhenQuiet
    ToolKept

PROPERTY
    Converges
CHECK_DEADLOCK FALSE
