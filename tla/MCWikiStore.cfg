\* PgWikiRepo: three concurrent calls, of any kind, with every failure.
CONSTANTS
    s1 = s1
    s2 = s2
    s3 = s3
    p1 = p1
    p2 = p2
    NoSlug = NoSlug
    long = long
    short = short
    NoBody = NoBody
    Sessions <- MCSessions
    Slugs = {p1, p2}
    Bodies <- MCBodies
    Pieces <- MCPieces
    Matching = {long}
    Limit <- MCLimit

SPECIFICATION FairSpec

INVARIANTS
    VersionsCountChanges
    SearchSeesPages

PROPERTIES
    ImplementsVersionedPages
    EveryCallEnds

\* Every call is made once and the system then stops.
CHECK_DEADLOCK FALSE
