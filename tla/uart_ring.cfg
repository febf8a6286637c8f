SPECIFICATION FairSpec
CONSTANTS
    b0 = b0
    b1 = b1
    Byte <- MCByte
    Zero = b0
    RingSize = 4
    FifoDepth = 1
    HAL_ERR_EMPTY = HAL_ERR_EMPTY
INVARIANTS
    TypeOK
    SnapshotInWindow
    LoadedByteIsOldest
PROPERTIES
    AvailableNeverOverstates
    ImplementsRxFifo
    BufferedByteLeaves
