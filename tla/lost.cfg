CONSTANTS
    MaxSent = 6
    Gaps = {0, 1, 3}
    FirstSeqs = {0, 5}
    FirstTimes = {0, 2}
    SeqRange = 8
    TimeRange = 12
    WordRange = 64
    BufferDuration = 2
SPECIFICATION Spec
INVARIANTS
    TypeOK
    Sorted
    LossesExact
    LossesNotMissed
    HeldBriefly
    NoSpuriousLoss
CHECK_DEADLOCK FALSE
