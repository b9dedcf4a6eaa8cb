SPECIFICATION FairSpec
CONSTANTS
    None = None
    Conn = {1, 2, 3}
    BrokerSocket = {1, 2, 3}
    Port = {8082, 9000}
    DefaultPort = 8082
    ApiPort = 8082
    MaxTroubles <- Troubles
    MaxWire = 2
CHECK_DEADLOCK FALSE
INVARIANTS
    BridgeTypeOK
    OneApiConnection
    OneBrokerSocket
    SendsToNewest
    AtMostOneOutlives
PROPERTIES
    DestructorEnds
    BridgeRecovers
    WaitAnswered
