\* One daemon, its clock chip and MakoProfile, which may or may not do their part:
\* safety, the contract, and liveness.
CONSTANTS
    hello = hello
    NoApp = NoApp
    Apps = {hello}
    Match <- MCMatch
    CustomClocks = {"c156"}
    HasClkGen = TRUE
    MaxCrashes = 1
SPECIFICATION CodeSpec
INVARIANTS
    RegistersFollowImage
    ClockBeforeImage
    FailureUndone
    ClockRestored
PROPERTIES
    FailureIsReal
    ImplementsContract
    CallReturns
