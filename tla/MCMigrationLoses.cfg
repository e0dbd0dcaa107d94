\* A deleted v2 row before a live one of the same content.
CONSTANTS
    a = a
    b = b
    NoKey = NoKey
    Keys <- MCKeys
    Sources <- MCSources
    Chunks <- MCChunks
    Pieces <- MCPieces
    MaxId = 4
    MaxRuns = 2
    MaxWrites = 2

SPECIFICATION MigrationSpec

INVARIANT LiveStaysLive

\* After the last run and the last write the system stops.
CHECK_DEADLOCK FALSE
