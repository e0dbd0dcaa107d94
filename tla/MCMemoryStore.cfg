\* PgMemoryRepo: four concurrent calls, of any kind, with every failure.
CONSTANTS
    s1 = s1
    s2 = s2
    s3 = s3
    s4 = s4
    short = short
    long = long
    NoKey = NoKey
    Sessions = {s1, s2, s3, s4}
    Keys <- MCKeys
    Chunks <- MCChunks
    Short <- MCShort
    Matching <- MCMatching
    MaxId = 3
    TopK = 1
    Limit = 2

SPECIFICATION Spec
SYMMETRY Symmetry

INVARIANTS
    AllOrNothing
    OnlyRacesDuplicate
    ReturnsTellTheTruth
    OneForgetWins
    SearchIsCurrent

\* Every session makes one call and the system then stops.
CHECK_DEADLOCK FALSE
