SPECIFICATION Spec
CONSTANTS
    WordBits = 10
    DoubleBits = 20
    SizeMax = 255
    DataMax = 4
    RawId = 80
    NecId = 81
    SEMS_IR_BUFFER_LEN = 128
    Repeats = {0, 14, 15}
    Cuts = {0, 1, 2}
    Packets <- MCPackets
INVARIANTS
    TypeOK
    DecodesWhatArrived
    RoundsBounded
PROPERTIES
    SendsWhatWasWritten

