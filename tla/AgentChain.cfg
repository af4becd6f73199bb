SPECIFICATION FairSpec
CONSTANTS
    Ptrs = {112}
    WORD = 64
    Fds = {16, 32}
    ListenFd = 3
    BUF_SIZE = 1
    TABLE = 32
    MAX_EVENTS = 3
    MaxConnects = 1
    SndBuf = 1
    MaxBytes = 1
PROPERTIES
    ChainedClose
