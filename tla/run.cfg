CONSTANTS
    Peers = {p1, p2, p3}
    Connections = 2
    MaxReturns = 2
    Runup = TRUE
SPECIFICATION FairSpec
INVARIANTS
    TypeOK
    UninterruptedRunCompletes
PROPERTIES
    RunEnds
    SlotsRefilled
