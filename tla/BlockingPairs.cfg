SPECIFICATION FairSpec
CONSTANTS
    Clients = {a, b}
    ServerPrograms = {"echod-server", "blocking-server", "echo-server"}
    ClientPrograms = {"echod-client", "echo-client"}
    BUF_SIZE = 3
    SockBuf = 2
    MaxBytes = 3
INVARIANTS
    TypeOK
    NothingLostOnTheWay
PROPERTIES
    ServerMovesOn
    AnsweredUnlessEmpty
CHECK_DEADLOCK FALSE
