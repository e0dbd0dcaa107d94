\* Two graph rebuilds beside remember, forget, wiki_create and one
\* recall or wiki search.
CONSTANTS
    tag = tag
    s1 = s1
    s2 = s2
    r1 = r1
    r2 = r2
    Memories <- MCMemories
    Wikis <- MCWikis
    Skills <- MCSkills
    TagsOf <- MCTagsOf
    MinShared = 1
    RefersTo <- MCRefersTo
    Uses <- MCUses
    Links <- MCLinks
    Stored = {1}
    Rebuilders = {r1, r2}
    Hops = 2
    Limit = 3
    MaxTools = 2

SPECIFICATION RecallSpec
SYMMETRY Symmetry

INVARIANTS
    PlanIsClosed
    SuccessLoadsThePlan
    GraphComesFromViews
    OnlyRacesDouble
    UndisturbedExpansionIsTrue

\* Every rebuild and the tool call is made once and the system then stops.
CHECK_DEADLOCK FALSE
