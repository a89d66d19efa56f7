SPECIFICATION FairSpec
CONSTANTS
    htu21d = htu21d
    tsl39 = tsl39
    tsl49 = tsl49
    gpio20 = gpio20
    Htu = {}
    Tsl = {tsl39, tsl49}
    Default = tsl39
    Pins = {gpio20}
    Block = {b1, b2}
    NULL = NULL
INVARIANTS
    TypeOK
    HeldIsLive
    SensorsAreRemembered
    PollingAgrees
    PollsLiveSensors
    EventsAgree
PROPERTIES
    PolledAgain
