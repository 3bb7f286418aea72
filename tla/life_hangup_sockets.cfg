CONSTANTS
    Peers = {p1}
    Connections = 1
    MaxEvents = 5
    WebSocket = TRUE
SPECIFICATION Spec
INVARIANTS
    HangupClosesSockets
