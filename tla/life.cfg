CONSTANTS
    Peers = {p1, p2}
    Connections = 1
    MaxEvents = 5
    WebSocket = TRUE
SPECIFICATION Spec
CONSTRAINT FewReports
SYMMETRY PeerSymmetry
INVARIANTS
    TypeOK
    CounterTracksRegistry
    SlotsConserved
    SlotKeptWhileAlive
    AtMostConnections
