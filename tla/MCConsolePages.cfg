SPECIFICATION ConsoleSpec
CONSTANTS
    p1 = p1
    p2 = p2
    MaxRuns = 1
    Operators = {o1}
    Stoppers = {}
    Tails = {}
    Pages = {p1, p2}
    MaxSteps = 1
    LogCap = 2
    Buffer = 1
SYMMETRY PageSymmetry
INVARIANT
    PageMissesNothing
CHECK_DEADLOCK FALSE
