SPECIFICATION Spec
CONSTANTS
    Listed <- MCListed
    SensorTag <- MCSensorTag
    Readings <- MCReadings
    Written <- MCWritten
    Piece = 8
    BLE_GATT_MAX_SIZE = 128
    MAX_CONN_PARAMS_UPDATE_COUNT = 2
    MaxConnections = 2
    MaxEvents = 2
    WordBits = 14
    DoubleBits = 28
    SizeMax = 255
    DataMax = 128
INVARIANTS
    TypeOK
    HandlesAgree
    CanBeFound
    RequestsAnswered
    ReadsDecode
PROPERTIES
    DisconnectsWithCause
    ResetsOnlyLate
    BadParamsEnd
