SPECIFICATION FairSpec
CONSTANTS
    Period = 4
    Window = 12
    MaxSetup = 5
    Divisor = 4
    Durations4Hz <- MCLong
    Durations1Hz <- MCShort
    AtTimeout = 1
    ResetTimeout = 9
    RetryDelay = 1
    SettleDelay = 2
    Retries = 3
INVARIANTS
    TypeOK
    BitesOnlyInLongTick
    NoLostWakeup
PROPERTIES
    SlowGroupRunsForever
