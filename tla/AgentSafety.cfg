SPECIFICATION Spec
CONSTANTS
    Ptrs = {80, 96}
    WORD = 64
    Fds = {16, 32, 33, 34}
    ListenFd = 3
    BUF_SIZE = 1
    TABLE = 16
    MAX_EVENTS = 3
    MaxConnects = 2
    SndBuf = 1
    MaxBytes = 1
INVARIANTS
    TableNotDangling
    PairsWhole
    NoCrossTalk
