\* The memory tools under the audit log.
CONSTANTS
    rem = rem
    fgt = fgt
    rec = rec
    short = short
    NoKey = NoKey
    Sessions <- MCSessions
    Keys <- MCKeys
    Chunks <- MCChunks
    Short <- MCKeys
    Matching <- MCKeys
    MaxId = 1
    TopK = 1
    Limit = 2
    Tool <- MCTool

SPECIFICATION SpecAll

INVARIANTS
    EveryChangeIsLogged
    SuccessIsDurable

PROPERTIES
    ImplementsAuditedCall

\* Every call is made once and the system then stops.
CHECK_DEADLOCK FALSE
