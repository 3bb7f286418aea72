CONSTANTS
    Peers = {p1}
    Connections = 1
    MaxEvents = 4
    WebSocket = TRUE
SPECIFICATION FairSpec
PROPERTIES
    FailedAttemptClosed
