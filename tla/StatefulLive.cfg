SPECIFICATION FairSpec
CONSTANTS
    Ptrs = {p1}
    Fds = {5}
    NULL = NULL
    Listen = Listen
    BUF_SIZE = 4
    MAX_CLIENTS = 1
    MAX_EVENTS = 1
    MaxConnects = 2
    SndBuf = 1
    MaxBytes = 4
INVARIANTS
    NoByteLost
    BuffersInBounds
    OnlyWholeMessages
    LinesEchoedBeforeClose
PROPERTIES
    EveryLineEchoed
    ClosedPeersReaped
    ProvidesService
    SigintStops
