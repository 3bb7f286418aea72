CONSTANTS
    Peers = {p1}
    Connections = 1
    MaxReturns = 1
    Runup = TRUE
SPECIFICATION FairSpec
PROPERTIES
    StoppedRunReportsStopped
