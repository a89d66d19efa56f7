------------------------- MODULE MCSensorLifecycle -------------------------
(* Instances of SensorLifecycle for TLC. *)
EXTENDS SensorLifecycle

CONSTANTS htu21d, tsl39, tsl49, gpio20

=============================================================================
