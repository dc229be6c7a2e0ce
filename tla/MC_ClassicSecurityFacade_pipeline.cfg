\* Two workers make four security RPCs of any group, status-answered ones included; the controller holds two
\* commands and starts the host at one credit, answering with any free count.
SPECIFICATION SecuritySpec
CONSTANTS
    w1 = w1
    w2 = w2
    RpcThreads <- MC_Threads
    None = None
    MaxCmds = 4
    CtrlCap = 2
    InitialCredits = 1
INVARIANTS
    SecurityTypeOK
    CreditWithinControllerRoom
PROPERTIES
    EveryCallCompleted
    ChannelRefined
