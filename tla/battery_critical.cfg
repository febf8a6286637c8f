SPECIFICATION FairSpec
CONSTANTS
    Charges <- MCCharges
    Thresholds <- MCThresholds
    MaxErrors = 1
    MaxFull = 1
PROPERTIES
    CriticalReported
