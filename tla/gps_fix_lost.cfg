SPECIFICATION Spec
CONSTANTS
    RingCapacity = 5
    LineCapacity = 3
    DrainLimit = 6
    MaxSentences = 4
    MaxCalls = 2
PROPERTIES
    FixLostReported
CHECK_DEADLOCK FALSE
