SPECIFICATION FairScenarioSpec
CONSTANTS
    N = 3
    Values = {1, 2}
    Runs <- All
    Failing = {3}
CHECK_DEADLOCK FALSE
INVARIANTS
    HealedAtEnd
    VictimsAreBack
PROPERTY
    ScenarioEnds
