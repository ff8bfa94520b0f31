SPECIFICATION Spec
CONSTANTS
    MaxIterations = 2
    MaxDeltas = 2
    Idx = {0, 1}
    ToolDeltas <- AllShapes
    FinishReasons = {"stop", "tool_calls", "length"}
INVARIANTS
    HistoryWellShaped
CHECK_DEADLOCK FALSE
