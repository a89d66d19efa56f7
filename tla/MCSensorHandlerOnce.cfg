SPECIFICATION Spec
CONSTANTS
    htu21d = htu21d
    tsl2561 = tsl2561
    gpio20 = gpio20
    gpio21 = gpio21
    Unallocated = Unallocated
    SensorTag <- MCSensorTag
    DataSize <- MCDataSize
    BLE_BROADCAST_MAX_SIZE = 27
    Sensor = {htu21d, gpio20, gpio21}
    OnceSensor = {htu21d, gpio20, gpio21}
    PolledSensor = {}
    Value = {v1, v2}
    Block = {b1, b2, b3}
    ADVERTISING_ONCE_QUEUE_SIZE = 2
    BLE_GATT_MAX_SIZE = 128
    MaxListLen <- MCMaxListLen
    GattListed = 0
    AdvertisingListed = 0
INVARIANTS
    QueueFits
    OnceOnAirTracked
    QueueOwnsBlocks
    ReportsAreReadings
PROPERTIES
    NoLeak
    KeepsWindow
SYMMETRY Alike
CHECK_DEADLOCK FALSE
