SPECIFICATION Spec
CONSTANTS
    a = a
    b = b
    Requests <- MCRequests
    MaxQueues = 2
    PoolBytes = 18
    IndexWord = 4
    Messages <- MCMessages
    Rooms = {1, 2}
    Blank <- MCBlank
    CellBits = 1
    MaxLockDepth = 3
INVARIANTS
    TypeOK
    HandlersLetInAgain
    PoolRegionsDisjoint
    FirstQueueStaysEmpty
PROPERTIES
    LockExcludesHandlers
    
CHECK_DEADLOCK FALSE
