SPECIFICATION Spec
CONSTANTS
    Tsl = {"tsl2561"}
    Temperatures <- MCTemperatures
    Humidities <- MCHumidities
    Noise <- MCNoise
    Light = {7, 65535}
    Handled = {"htu21d"}
INVARIANT
    PublishesNoGarbage
