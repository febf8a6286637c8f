SPECIFICATION FairSpec
CONSTANTS
    Charges <- MCCharges
    Thresholds <- MCThresholds
    MaxErrors = 2
    MaxFull = 2
INVARIANTS
    TypeOK
    EventsAgreeWithTelemetry
    FullReportedOnce

    
