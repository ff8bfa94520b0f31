SPECIFICATION Spec
CONSTANTS
    LocalTools = {"add"}
    ToolNames = {"add", "derive"}
    Items = {"item"}
    Servers = 2
    MaxLives = 2
    MaxDynamic = 1
INVARIANTS
    OwnersSound
PROPERTIES
    FirstRegistrationWins
CHECK_DEADLOCK FALSE
