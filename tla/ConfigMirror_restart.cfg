CONSTANTS
    Ips = {ip1, ip2}
    None = None
SPECIFICATION ConfigSpec
INVARIANTS
    RunningMeansLoaded
PROPERTIES
    Converges
