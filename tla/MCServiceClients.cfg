SPECIFICATION Spec
CONSTANTS
    Agents = {"a", "b"}
    Writes <- MCWrites
    Updates <- MCUpdates
    Names = {"plan", "notes"}
    Stamp = "2026-01-01T00:00:00+00:00"
    NoName = "none"
    SqliteLimit = 10
    PgLimit = 2
    Sizes = {0, 4, 10}
    MaxFound = 2
    Limits = {0, 5, 10}
    Retries = {0, 1, 2, 3, 5}
    MaxCrashes = 1
    MaxRestarts = 1
CHECK_DEADLOCK FALSE
INVARIANTS
    ModelCallSound
    MemorySetupSound
    SqliteSound
    MarkdownSound
    LlamaStackSound
    PgVectorSound
