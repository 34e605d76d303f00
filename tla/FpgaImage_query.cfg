\* is_loaded() in a restarted daemon.
CONSTANTS
    hello = hello
    NoApp = NoApp
    Apps = {hello}
    Match <- MCMatch
    CustomClocks = {"c156"}
    HasClkGen = TRUE
    MaxCrashes = 1
SPECIFICATION Spec
INVARIANTS
    QueryAnswers
