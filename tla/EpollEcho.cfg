SPECIFICATION FairSpec
CONSTANTS
    Programs = {"epoll-echo", "epoll-server"}
    Fds = {5, 6}
    Listen = Listen
    BUF_SIZE = 3
    MAX_EVENTS = 2
    MaxStale = 1
    MaxConnects = 2
    SndBuf = 3
    MaxBytes = 2
    MaxSends = 2
INVARIANTS
    TypeOK
    EventsStayTrue
    EchoInOrder
PROPERTIES
    NothingLostUnlessFull
    NobodyWaitsForOthers
