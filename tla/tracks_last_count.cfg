CONSTANTS
    a1 = a1
    v1 = v1
    Tracks <- MCTracks
    AudioTracks <- MCAudioTracks
    MaxPackets = 1
    Losses = {1}
SPECIFICATION Spec
PROPERTIES
    LastCountBeforeRemoval
CHECK_DEADLOCK FALSE
