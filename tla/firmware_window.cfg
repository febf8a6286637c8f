SPECIFICATION Spec
CONSTANTS
    Period = 25
    Window = 200
    MaxSetup = 2
    Divisor = 4
    Durations4Hz <- MCCodeDurations
    Durations1Hz <- MCPolls
    AtTimeout = 21
    ResetTimeout = 201
    RetryDelay = 20
    SettleDelay = 50
    Retries = 3
INVARIANTS
    KickedWithinWindow
