SPECIFICATION FairSseSpec
CONSTANTS
    MaxIterations = 2
    MaxDeltas = 2
    Idx = {0, 1}
    ToolDeltas <- Pieces
    FinishReasons = {"stop", "length"}
INVARIANTS
    TypeOK
    CallsPaired
    ResultsPairWithCalls
    ClientAndHistoryAgree
    SseSound
    FirstTurnShown
PROPERTIES
    ClientLearnsTheEnd
CHECK_DEADLOCK FALSE
