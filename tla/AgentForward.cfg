SPECIFICATION FairSpec
CONSTANTS
    Ptrs = {80, 96}
    WORD = 64
    Fds = {16, 32}
    ListenFd = 3
    BUF_SIZE = 2
    TABLE = 32
    MAX_EVENTS = 3
    MaxConnects = 2
    SndBuf = 1
    MaxBytes = 2
INVARIANTS
    TypeOK
    ForwardedInOrder
PROPERTIES
    NothingLostUnlessFull
    SigintStops
