SPECIFICATION Spec
CONSTANTS
    htu21d = htu21d
    tsl2561 = tsl2561
    gpio20 = gpio20
    gpio21 = gpio21
    Sensor = {htu21d, gpio20}
    OnceSensor = {gpio20}
    PolledSensor = {htu21d}
    Value = {v1}
    Block = {b1}
    Unallocated = Unallocated
    SensorTag <- MCSensorTag
    DataSize <- MCDataSize
    ADVERTISING_ONCE_QUEUE_SIZE = 1
    BLE_GATT_MAX_SIZE = 24
    BLE_BROADCAST_MAX_SIZE = 27
    MaxListLen <- MCMaxListLen
    GattListed = 0
    AdvertisingListed = 2
INVARIANTS
    OneEntryPerListed
CHECK_DEADLOCK FALSE
