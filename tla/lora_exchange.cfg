SPECIFICATION MCFairSpec
CONSTANTS
    RingCapacity = 4
    AtBufCapacity = 3
    Retries = 2
    DrainLimit = 5
    RfSettings <- MCRfSettings
    MaxPending = 1
    UserCommands <- MCUserCommands
    MaxCalls = 1
    MaxPayloads = 1
    MaxDownlinks = 0
    Word = 65536
    Orders <- MCOrders
    Reports <- MCReports
INVARIANTS
    TypeOK
    SyncedAckIsHonest
    
    ArgumentArrives
    ShortBufferKeepsHead
    ReportReadBack

    
CHECK_DEADLOCK FALSE
