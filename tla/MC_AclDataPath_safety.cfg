\* Classic links that may disconnect; events handled in controller order.
SPECIFICATION Spec
CONSTANTS
    Handles = {1, 2}
    MaxAclPacketCredits <- MC_ClassicCredits
    HciMtu <- MC_Mtu
    End = End
    Singular = Singular
    PastEnd = PastEnd
    ConnTypes = {"CLASSIC"}
    PayloadLengths = {1, 3}
    MaxPayloads = 3
    QueueCapacity = 2
    InOrderEvents = TRUE
    Disconnects = TRUE
    ReuseHandles = FALSE
INVARIANTS
    TypeOK
    ControllerBufferNeverOverflows
    DequeueOnlyWhenSendable
    WireCarriesPayloadsInOrder
    SentCountMatchesInFlight
\* every payload sent and every packet completed is a final state
CHECK_DEADLOCK FALSE
