SPECIFICATION FairConsoleSpec
CONSTANTS
    p1 = p1
    p2 = p2
    MaxRuns = 2
    Operators = {o1}
    Stoppers = {s1, s2}
    Tails = {t1}
    Pages = {}
    MaxSteps = 2
    LogCap = 2
    Buffer = 1
INVARIANTS
    OneRunAtATime
    LogIsOfLatestRun
    StopsWhatItSaw
PROPERTY
    GuardComesDown
CHECK_DEADLOCK FALSE
