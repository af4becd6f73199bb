SPECIFICATION Spec
CONSTANTS
    Ptrs = {p1}
    Fds = {5}
    NULL = NULL
    Listen = Listen
    BUF_SIZE = 3
    MAX_CLIENTS = 4
    MAX_EVENTS = 2
    MaxConnects = 3
    SndBuf = 1
    MaxBytes = 2
INVARIANT ErrorsOnlyClose
