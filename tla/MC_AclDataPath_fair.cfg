\* Two classic links that stay up, both with payloads waiting; the reactor
\* fires any registered dequeue.
SPECIFICATION Spec
CONSTANTS
    Handles = {1, 2}
    MaxAclPacketCredits <- MC_ClassicCredits
    HciMtu <- MC_Mtu
    End = End
    Singular = Singular
    PastEnd = PastEnd
    ConnTypes = {"CLASSIC"}
    PayloadLengths = {1}
    MaxPayloads = 4
    QueueCapacity = 2
    InOrderEvents = TRUE
    Disconnects = FALSE
    ReuseHandles = FALSE
PROPERTY
    RoundRobinDispatch
CHECK_DEADLOCK FALSE
