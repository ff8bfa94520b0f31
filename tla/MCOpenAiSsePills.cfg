SPECIFICATION SseSpec
CONSTANTS
    MaxIterations = 2
    MaxDeltas = 1
    Idx = {0}
    ToolDeltas <- WholeCalls
    FinishReasons = {"stop", "length"}
INVARIANTS
    ResultsFindTheirPill
CHECK_DEADLOCK FALSE
