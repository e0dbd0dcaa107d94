\* Three requests of one client, a limit of 1.9 requests in two ticks.
CONSTANTS
    c1 = c1
    NoClient = NoClient
    Total = 3
    Clients = {c1}
    Rate = 19
    Window = 2
    Horizon = 2

SPECIFICATION FairSpec

INVARIANTS
    RateHolds
    TallyIsTruthful
    OnlyRacesRebuild

PROPERTIES
    EveryRequestEnds

\* Every request is made once and the server then waits for others.
CHECK_DEADLOCK FALSE
