\* Completions may be handled after the disconnection the controller reported later.
SPECIFICATION Spec
CONSTANTS
    Handles = {1, 2}
    MaxAclPacketCredits <- MC_ClassicCredits
    HciMtu <- MC_Mtu
    End = End
    Singular = Singular
    PastEnd = PastEnd
    ConnTypes = {"CLASSIC"}
    PayloadLengths = {1, 3}
    MaxPayloads = 3
    QueueCapacity = 2
    InOrderEvents = FALSE
    Disconnects = TRUE
    ReuseHandles = FALSE
INVARIANT
    ControllerBufferNeverOverflows
CHECK_DEADLOCK FALSE
