\* A client that sends without waiting for the answer to its Connect.
SPECIFICATION FacadeSpec
CONSTANTS
    p1 = p1
    p2 = p2
    w1 = w1
    w2 = w2
    Addrs <- MC_Addrs
    RpcThreads <- MC_Threads
    None = None
    MaxTasks = 3
    SequentialClient = FALSE
    RemoteDisconnects = FALSE
PROPERTY
    SendCompletes
CHECK_DEADLOCK FALSE
