SPECIFICATION Spec
CONSTANTS
    Ptrs = {p1, p2}
    Fds = {5, 6}
    NULL = NULL
    Listen = Listen
    BUF_SIZE = 3
    MAX_CLIENTS = 1
    MAX_EVENTS = 2
    MaxConnects = 3
    SndBuf = 1
    MaxBytes = 2
SYMMETRY SlotSymmetry
INVARIANTS
    TypeOK
    NoDanglingPointer
    OneConnPerFd
    EchoInOrder
    NoMissedWakeup
