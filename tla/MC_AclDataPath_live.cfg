\* Classic links that stay up; the reactor, the handler and the controller are fair.
SPECIFICATION FairSpec
CONSTANTS
    Handles = {1, 2}
    MaxAclPacketCredits <- MC_ClassicCredits
    HciMtu <- MC_Mtu
    End = End
    Singular = Singular
    PastEnd = PastEnd
    ConnTypes = {"CLASSIC"}
    PayloadLengths = {1, 3}
    MaxPayloads = 3
    QueueCapacity = 2
    InOrderEvents = TRUE
    Disconnects = FALSE
    ReuseHandles = FALSE
INVARIANTS
    NoAbort
PROPERTIES
    PayloadsEventuallyDispatched
    CreditsEventuallyRestored
    PayloadChannelRefined
\* once every payload is sent and completed nothing is enabled
CHECK_DEADLOCK FALSE
