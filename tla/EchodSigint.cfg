SPECIFICATION FairSpec
CONSTANTS
    Clients = {}
    ServerPrograms = {"echod-server"}
    ClientPrograms = {"echod-client"}
    BUF_SIZE = 3
    SockBuf = 2
    MaxBytes = 4
PROPERTIES
    SigintStopsServer
CHECK_DEADLOCK FALSE
