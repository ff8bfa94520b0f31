SPECIFICATION FairPathSpec
CONSTANTS
    Page = {p1, p2}
    MaxRequests = 2
    MaxChunks = 2
    PagePipe = 1
    AgentPipe = 0
INVARIANTS
    PathSound
PROPERTIES
    RequestsEnd
    PageUnlocks
CHECK_DEADLOCK FALSE
