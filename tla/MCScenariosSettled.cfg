SPECIFICATION ScenarioSpec
CONSTANTS
    N = 3
    Values = {1, 2}
    Runs <- Chaos
    Failing = {}
CHECK_DEADLOCK FALSE
INVARIANT
    SettledIsTrue
