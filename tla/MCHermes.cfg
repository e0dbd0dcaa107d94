\* A turn among two life-cycle calls, or two calls of the memory tool.
CONSTANTS
    home = home
    other = other
    a = a
    b = b
    x = x
    y = y
    t1 = t1
    c1 = c1
    c2 = c2
    Home = home
    Databases = {home, other}
    NoDb = NoDb
    Hosted = {a, b}
    NoSession = NoSession
    Contexts = {"primary", "cron"}
    NonPrimary = {"cron"}
    Turns = {t1}
    Calls = {c1, c2}
    Contents = {x, y}
    Tool = Tool
    Initial = x
    NoContent = NoContent
    MaxMoves = 2

SPECIFICATION Spec

SYMMETRY AlikeSessions

CONSTRAINT OneOfBoth

INVARIANTS
    LossIsReported
    TurnsGoWhereTheHostSaid

\* The host makes so many calls and then stops.
CHECK_DEADLOCK FALSE
