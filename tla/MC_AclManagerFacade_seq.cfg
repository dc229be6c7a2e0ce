\* A client that waits for each connection change before its next RPC, two
\* workers, two peers; links drop only when the facade disconnects them.
SPECIFICATION FacadeSpec
CONSTANTS
    p1 = p1
    p2 = p2
    w1 = w1
    w2 = w2
    Addrs <- MC_Addrs
    RpcThreads <- MC_Threads
    None = None
    MaxTasks = 3
    SequentialClient = TRUE
    RemoteDisconnects = FALSE
INVARIANTS
    FacadeNoCrash
    ConnectionMapMatchesLinks
PROPERTIES
    SendCompletes
