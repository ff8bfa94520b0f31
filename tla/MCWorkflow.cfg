SPECIFICATION FairSpec
CONSTANTS
    Names = {"a", "b"}
    END = "END"
    MaxSteps = 3
    NodeRetries = 2
    Remote = {"b"}
    HttpRetries = 1
    MaxEdges = 3
INVARIANTS
    WalkSound
    AllShutDown
PROPERTIES
    WorkflowEnds
CHECK_DEADLOCK FALSE
