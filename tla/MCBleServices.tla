--------------------------- MODULE MCBleServices ---------------------------
(* An instance of BleServices for TLC. *)
EXTENDS BleServices

\* main.c's list, with the drivers' tags; readings of two bytes and of one.
MCListed    == <<"htu21d", "tsl2561">>
MCSensorTag == [htu21d |-> 4112, tsl2561 |-> 4144]
MCReadings  == [htu21d |-> {<<1, 200>>}, tsl2561 |-> {<<130>>}]

\* A message of a sensor, of the central's.
MCWritten == {<<8, 80, 16, 1>>}

=============================================================================
