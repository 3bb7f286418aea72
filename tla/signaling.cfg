CONSTANTS
    Offers <- MCOffers
    TargetHeight = 2
    TargetCodec = ""
    Closers = {"hangup", "watcher"}
SPECIFICATION FairSpec
INVARIANTS
    TypeOK
    FailureLeavesNothing
    SwitchesToBest
    IndexAgrees
    CooldownOverrunOnce
PROPERTIES
    ImplementsOutcome
    SignalingEnds
    CloseReturns
    SettlesOnBest
