SPECIFICATION FairSpec
CONSTANTS
    Data <- MCShortData
    SEMS_IR_BUFFER_LEN = 5
    CarrierPeriod = 26
    CounterRange = 16
    WordRange = 1048576
    MaxLate = 12
PROPERTIES
    SignalEnds
CHECK_DEADLOCK FALSE
