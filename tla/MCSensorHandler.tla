-------------------------- MODULE MCSensorHandler --------------------------
(* Instances of SensorHandler for TLC. *)
EXTENDS SensorHandler, TLC

CONSTANTS htu21d, tsl2561, gpio20, gpio21

\* The drivers' tags and data sizes: the two pins share SEMS_GPIO_TAG.
MCSensorTag == [s \in Sensor |-> IF s = htu21d THEN 4112 ELSE IF s = tsl2561 THEN 4144 ELSE 8192]
MCDataSize  == [s \in Sensor |-> IF s = htu21d THEN 8 ELSE IF s = tsl2561 THEN 4 ELSE 1]

\* How many sensors the application lists, for GATT and for advertising.
CONSTANTS GattListed, AdvertisingListed
MCMaxListLen == [u \in UpdateType |-> IF u = "gatt" THEN GattListed ELSE AdvertisingListed]

\* Blocks are alike, and so are readings.
Alike == Permutations(Block) \cup Permutations(Value)

=============================================================================
