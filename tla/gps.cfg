SPECIFICATION MCSpec
CONSTANTS
    RingCapacity = 5
    LineCapacity = 3
    DrainLimit = 6
    MaxSentences = 4
    MaxCalls = 2
    Fields <- MCFields
INVARIANTS
    TypeOK
    FixIsAnnounced
    
    DegMinRoundsDown
    FixedPointExact
    CountsExact
PROPERTIES
    PublishedInOrder
    ResetDiscardsOld
    WholeSentencePublished
CHECK_DEADLOCK FALSE
