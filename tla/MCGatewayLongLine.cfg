SPECIFICATION Spec
CONSTANTS
    Script <- TwoEvents
    TooLong <- LongUsage
    Cut <- CutLine
    MaxBeats = 2
INVARIANTS
    WritesEachEvent
CHECK_DEADLOCK FALSE
