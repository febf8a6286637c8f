SPECIFICATION Spec
CONSTANTS
    RingCapacity = 4
    AtBufCapacity = 3
    Retries = 1
    DrainLimit = 5
    RfSettings <- MCRfSettings
    MaxPending = 2
    UserCommands <- MCUserCommands
    MaxCalls = 0
    MaxPayloads = 0
    MaxDownlinks = 1
PROPERTIES
    ReadyMeansConfigured
CHECK_DEADLOCK FALSE
