SPECIFICATION Spec
CONSTANTS
    Data <- MCData
    SEMS_IR_BUFFER_LEN = 5
    CarrierPeriod = 26
    CounterRange = 16
    WordRange = 1048576
    MaxLate = 3
INVARIANTS
    TypeOK
    BusyWhileSending
    ReadsInBuffer
    PinFollowsGate
PROPERTIES
    FollowsSignal
CHECK_DEADLOCK FALSE
