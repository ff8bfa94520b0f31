SPECIFICATION FairSpec
CONSTANTS
    MaxIterations = 4
    RoundCap = 2
    MayContinue = TRUE
    Calls = {0, 1}
    Initial = 1
    Multiplier = 2
    Ceiling = 3
INVARIANTS
    LoopSound
PROPERTIES
    RunEnds
CHECK_DEADLOCK FALSE
