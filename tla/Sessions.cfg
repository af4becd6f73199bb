SPECIFICATION Spec
CONSTANTS
    N = 5
    DataLines = 3
    MAX_CONNECTIONS = 100
INVARIANTS
    TypeOK
    HeapIsReachable
    NothingFreedTwice
    CountsTable
    NoLeakAtExit
