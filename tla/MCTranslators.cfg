SPECIFICATION TranslatorSpec
CONSTANTS
    MaxTurns = 2
    MaxIndex = 1
    MaxBlocks = 5
    OpenTag <- MCOpen
    CloseTag <- MCClose
    Letters = {"<", "/", "t", ">"}
    MaxText = 7
    MaxChunk = 2
    MaxCalls = 2
    MaxRounds = 3
    MaxPerRound = 2
CHECK_DEADLOCK FALSE
INVARIANTS
    BlocksSound
    ParserSound
    RoundsSound
