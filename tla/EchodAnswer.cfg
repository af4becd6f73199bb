SPECIFICATION FairSpec
CONSTANTS
    Clients = {a}
    ServerPrograms = {"echod-server"}
    ClientPrograms = {"echod-client"}
    BUF_SIZE = 3
    SockBuf = 2
    MaxBytes = 4
PROPERTIES
    ClientGetsAnswer
CHECK_DEADLOCK FALSE
