CONSTANTS
    Peers = {p1}
    Connections = 2
    MaxEvents = 5
    WebSocket = TRUE
SPECIFICATION Spec
INVARIANTS
    OneReleasePerPeer
