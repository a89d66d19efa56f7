SPECIFICATION Spec
CONSTANTS
    htu21d = htu21d
    tsl2561 = tsl2561
    gpio20 = gpio20
    gpio21 = gpio21
    Sensor = {htu21d, gpio20}
    OnceSensor = {gpio20}
    PolledSensor = {htu21d}
    Value = {v1, v2}
    Block = {b1}
    Unallocated = Unallocated
    SensorTag <- MCSensorTag
    DataSize <- MCDataSize
    ADVERTISING_ONCE_QUEUE_SIZE = 1
    BLE_GATT_MAX_SIZE = 24
    BLE_BROADCAST_MAX_SIZE = 27
    MaxListLen <- MCMaxListLen
    GattListed = 2
    AdvertisingListed = 0
INVARIANTS
    TypeOK
    EncodedInOrder
SYMMETRY Alike
CHECK_DEADLOCK FALSE
