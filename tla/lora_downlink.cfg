SPECIFICATION MCDownlinkSpec
CONSTANTS
    RingCapacity = 4
    AtBufCapacity = 3
    Retries = 1
    DrainLimit = 5
    RfSettings <- MCRfSettings
    MaxPending = 1
    UserCommands <- MCUserCommands
    MaxCalls = 0
    MaxPayloads = 1
    MaxDownlinks = 2

    
PROPERTIES
    QuietPacketCounted
CHECK_DEADLOCK FALSE
