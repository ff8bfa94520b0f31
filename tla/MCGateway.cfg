SPECIFICATION FairSpec
CONSTANTS
    Script <- TwoEvents
    TooLong <- NoLine
    Cut <- CutLine
    MaxBeats = 2
INVARIANTS
    RelaySound
    OneDataLinePerEvent
PROPERTIES
    DeliversInOrder
    NothingLeaks
CHECK_DEADLOCK FALSE
