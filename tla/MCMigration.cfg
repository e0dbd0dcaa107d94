\* Two runs of the migration, any of them failing anywhere, beside the users.
CONSTANTS
    a = a
    b = b
    NoKey = NoKey
    Keys <- MCKeys
    Sources <- MCSources
    Chunks <- MCChunks
    Pieces <- MCPieces
    MaxId = 4
    MaxRuns = 2
    MaxWrites = 2

SPECIFICATION MigrationSpec

INVARIANTS
    NothingBeforeCommit
    NoRowTwice
    EveryContentIsKept

PROPERTIES
    MemoriesAreAdditive
    RerunChangesNothing
    ReportIsTruthful

\* After the last run and the last write the system stops.
CHECK_DEADLOCK FALSE
